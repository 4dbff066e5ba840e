------------------------------ MODULE SseProofs ------------------------------
(***************************************************************************)
(* For every set of lines and any number of them: the parser of            *)
(* server-sent events means, character by character, what EventStream says *)
(* of whole lines.                                                         *)
(***************************************************************************)
EXTENDS Sse, SequenceTheorems, WellFoundedInduction, TLAPS

----------------------------------------------------------------------------
(* Induction over the natural numbers, by sets.                            *)

\* The least number of a set that is not empty.
LEMMA LeastElement ==
  ASSUME NEW T, T \subseteq Nat, T # {}
  PROVE  \E x \in T : \A y \in T : ~(y < x)
<1> DEFINE R == {ss \in Nat \X Nat : ss[1] < ss[2]}
<1>1. IsWellFoundedOn(R, Nat)
  BY NatLessThanWellFounded DEF OpToRel
<1>2. \E x \in T : \A y \in T : ~(<<y, x>> \in R)
  <2> HIDE DEF R
  <2> QED  BY <1>1, WFMin
<1> QED  BY <1>2

\* A set that has 0 and every successor has every natural number.
LEMMA EveryNat ==
  ASSUME NEW T, 0 \in T, \A n \in Nat : n \in T => n + 1 \in T
  PROVE  Nat \subseteq T
<1> SUFFICES ASSUME Nat \ T # {} PROVE FALSE
  OBVIOUS
<1>1. PICK x \in Nat \ T : \A y \in Nat \ T : ~(y < x)
  BY LeastElement
<1>2. x - 1 \in Nat
  BY <1>1
<1>3. x - 1 \in T
  BY <1>1, <1>2
<1> QED  BY <1>1, <1>2, <1>3

\* A set that has a number when it has all below it has every natural number.
LEMMA EveryNatStrong ==
  ASSUME NEW T, \A n \in Nat : (\A m \in Nat : m < n => m \in T) => n \in T
  PROVE  Nat \subseteq T
<1> SUFFICES ASSUME Nat \ T # {} PROVE FALSE
  OBVIOUS
<1>1. PICK x \in Nat \ T : \A y \in Nat \ T : ~(y < x)
  BY LeastElement
<1> QED  BY <1>1

----------------------------------------------------------------------------
(* Folds over a sequence, as steps from its first element to its last.     *)

\* The largest of some numbers is one of them.
LEMMA MaxMember ==
  ASSUME NEW n \in Nat, NEW t \in SUBSET (1 .. n), t # {}
  PROVE  Max(t) \in t /\ \A y \in t : y <= Max(t)
<1> DEFINE T == {n - x : x \in t}
<1>1. T \subseteq Nat /\ T # {}
  <2>1. ASSUME NEW x \in t PROVE n - x \in Nat
    <3>1. x \in 1 .. n
      OBVIOUS
    <3> QED  BY <3>1
  <2> QED  BY <2>1
<1>2. PICK z \in T : \A y \in T : ~(y < z)
  BY <1>1, LeastElement
<1>3. PICK x \in t : z = n - x
  BY <1>2
<1>4. \A y \in t : x >= y
  <2>1. ASSUME NEW y \in t PROVE x >= y
    <3>1. n - y \in T
      OBVIOUS
    <3>2. ~(n - y < n - x)
      BY <1>2, <1>3, <3>1
    <3>3. x \in Int /\ y \in Int
      OBVIOUS
    <3> QED  BY <3>2, <3>3
  <2> QED  BY <2>1
<1>5. Max(t) \in t /\ \A y \in t : Max(t) >= y
  BY <1>4 DEF Max
<1> QED  BY <1>5

\* The first numbers but the largest of them.
LEMMA Intervals ==
  ASSUME NEW n \in Nat, NEW k \in 1 .. n
  PROVE  /\ 1 .. k \in SUBSET (1 .. n) /\ 1 .. k # {} /\ Max(1 .. k) = k
         /\ (1 .. k) \ {k} = 1 .. k - 1 /\ k - 1 \in 0 .. n
<1>1. k \in Nat /\ k >= 1 /\ k <= n /\ k \in 1 .. k
  OBVIOUS
<1>2. 1 .. k \in SUBSET (1 .. n) /\ 1 .. k # {}
  BY <1>1
<1>3. Max(1 .. k) = k
  <2>1. Max(1 .. k) \in 1 .. k /\ \A y \in 1 .. k : y <= Max(1 .. k)
    BY <1>2, MaxMember
  <2> QED  BY <1>1, <2>1
<1>4. (1 .. k) \ {k} = 1 .. k - 1
  <2>1. \A i : i \in (1 .. k) \ {k} <=> i \in 1 .. k - 1
    BY <1>1
  <2> QED  BY <2>1
<1> QED  BY <1>1, <1>2, <1>3, <1>4

\* The recursion by which FoldLeft is defined has a solution.
Solves(it, A, base, G, n) ==
  /\ it \in [SUBSET (1 .. n) -> A]
  /\ it[{}] = base
  /\ \A t \in SUBSET (1 .. n) : t # {} => it[t] = G[<<it[t \ {Max(t)}], Max(t)>>]

LEMMA Solution ==
  ASSUME NEW n \in Nat, NEW A, NEW base \in A, NEW G \in [A \X (1 .. n) -> A]
  PROVE  \E it : Solves(it, A, base, G, n)
<1> DEFINE T == {k \in Nat : k <= n => \E it : Solves(it, A, base, G, k)}
<1>1. 0 \in T
  <2> DEFINE it == [t \in SUBSET (1 .. 0) |-> base]
  <2>1. \A t \in SUBSET (1 .. 0) : t = {}
    OBVIOUS
  <2>2. it \in [SUBSET (1 .. 0) -> A] /\ it[{}] = base
    OBVIOUS
  <2> HIDE DEF it
  <2>3. Solves(it, A, base, G, 0)
    BY <2>1, <2>2 DEF Solves
  <2> QED  BY <2>3
<1>2. ASSUME NEW k \in Nat, k \in T PROVE k + 1 \in T
  <2> SUFFICES ASSUME k + 1 <= n PROVE \E it : Solves(it, A, base, G, k + 1)
    OBVIOUS
  <2>1. PICK it : Solves(it, A, base, G, k)
    BY <1>2
  <2> DEFINE jt == [t \in SUBSET (1 .. k + 1) |->
                      IF k + 1 \in t THEN G[<<it[t \ {k + 1}], k + 1>>] ELSE it[t]]
  <2>2. \A t \in SUBSET (1 .. k + 1) : t \ {k + 1} \in SUBSET (1 .. k)
    <3>1. \A y \in 1 .. k + 1 : y # k + 1 => y \in 1 .. k
      OBVIOUS
    <3> QED  BY <3>1
  <2>3. jt \in [SUBSET (1 .. k + 1) -> A]
    <3>1. ASSUME NEW t \in SUBSET (1 .. k + 1)
          PROVE  (IF k + 1 \in t THEN G[<<it[t \ {k + 1}], k + 1>>] ELSE it[t]) \in A
      <4>1. it[t \ {k + 1}] \in A
        BY <2>1, <2>2 DEF Solves
      <4>2. k + 1 \in 1 .. n
        OBVIOUS
      <4>3. k + 1 \notin t => t = t \ {k + 1}
        OBVIOUS
      <4> QED  BY <4>1, <4>2, <4>3
    <3> QED  BY <3>1
  <2>4. jt[{}] = base
    BY <2>1 DEF Solves
  <2>5. ASSUME NEW t \in SUBSET (1 .. k + 1), t # {}
        PROVE  jt[t] = G[<<jt[t \ {Max(t)}], Max(t)>>]
    <3>0. k + 1 \in Nat /\ Max(t) \in t /\ \A y \in t : y <= Max(t)
      <4>1. \A m \in Nat : \A u \in SUBSET (1 .. m) : u # {} =>
               Max(u) \in u /\ \A y \in u : y <= Max(u)
        BY MaxMember
      <4>2. k + 1 \in Nat
        OBVIOUS
      <4> QED  BY <2>5, <4>1, <4>2
    <3>1. CASE k + 1 \in t
      <4>1. Max(t) = k + 1
        <5>1. Max(t) \in 1 .. k + 1 /\ k + 1 <= Max(t)
          BY <3>0, <3>1
        <5> QED  BY <5>1
      <4>2. t \ {k + 1} \in SUBSET (1 .. k + 1) /\ k + 1 \notin t \ {k + 1}
        OBVIOUS
      <4> QED  BY <3>1, <4>1, <4>2
    <3>2. CASE k + 1 \notin t
      <4>1. t \in SUBSET (1 .. k) /\ t \ {Max(t)} \in SUBSET (1 .. k)
        BY <2>2, <3>2
      <4>2. it[t] = G[<<it[t \ {Max(t)}], Max(t)>>]
        BY <2>1, <2>5, <4>1 DEF Solves
      <4>3. jt[t] = it[t] /\ jt[t \ {Max(t)}] = it[t \ {Max(t)}]
        BY <3>2, <4>1
      <4> QED  BY <4>2, <4>3
    <3> QED  BY <3>1, <3>2
  <2> HIDE DEF jt
  <2>6. Solves(jt, A, base, G, k + 1)
    BY <2>3, <2>4, <2>5 DEF Solves
  <2> QED  BY <2>6
<1> HIDE DEF T
<1>3. n \in T
  BY <1>1, <1>2, EveryNat
<1> QED  BY <1>3 DEF T

\* Steps that agree at first and go on alike agree.
LEMMA SameSteps ==
  ASSUME NEW n \in Nat, NEW g, NEW h, g[0] = h[0],
         \A k \in 1 .. n : g[k - 1] = h[k - 1] => g[k] = h[k]
  PROVE  \A k \in 0 .. n : g[k] = h[k]
<1> DEFINE T == {k \in Nat : k <= n => g[k] = h[k]}
<1>1. 0 \in T
  OBVIOUS
<1>2. ASSUME NEW k \in Nat, k \in T PROVE k + 1 \in T
  <2> SUFFICES ASSUME k + 1 <= n PROVE g[k + 1] = h[k + 1]
    OBVIOUS
  <2>1. k + 1 \in 1 .. n /\ (k + 1) - 1 = k /\ g[k] = h[k]
    BY <1>2
  <2> QED  BY <2>1
<1> HIDE DEF T
<1>3. Nat \subseteq T
  BY <1>1, <1>2, EveryNat
<1> QED  BY <1>3 DEF T

\* Steps that keep a type have it.
LEMMA TypedSteps ==
  ASSUME NEW n \in Nat, NEW g, NEW A, g[0] \in A,
         \A k \in 1 .. n : g[k - 1] \in A => g[k] \in A
  PROVE  \A k \in 0 .. n : g[k] \in A
<1> DEFINE T == {k \in Nat : k <= n => g[k] \in A}
<1>1. 0 \in T
  OBVIOUS
<1>2. ASSUME NEW k \in Nat, k \in T PROVE k + 1 \in T
  <2> SUFFICES ASSUME k + 1 <= n PROVE g[k + 1] \in A
    OBVIOUS
  <2>1. k + 1 \in 1 .. n /\ (k + 1) - 1 = k /\ g[k] \in A
    BY <1>2
  <2> QED  BY <2>1
<1> HIDE DEF T
<1>3. Nat \subseteq T
  BY <1>1, <1>2, EveryNat
<1> QED  BY <1>3 DEF T

\* Sequences laid end to end, one at a time.
Flattens(f, seqs, S) ==
  /\ f[0] = <<>> /\ f[Len(seqs)] = FlattenSeq(seqs)
  /\ \A k \in 1 .. Len(seqs) : f[k] = f[k - 1] \o seqs[k]
  /\ \A k \in 0 .. Len(seqs) : f[k] \in Seq(S)

LEMMA FlattenSteps ==
  ASSUME NEW S, NEW seqs \in Seq(Seq(S))
  PROVE  \E f : Flattens(f, seqs, S)
<1> DEFINE n == Len(seqs)
           A == Seq(S)
           G == [x \in A \X (1 .. n) |-> IF x[2] = 1 THEN seqs[x[2]] ELSE x[1] \o seqs[x[2]]]
           flat == CHOOSE f : f = [i \in 1 .. n |-> IF i = 1 THEN seqs[i] ELSE f[i - 1] \o seqs[i]]
           f == [k \in 0 .. n |-> IF k = 0 THEN <<>> ELSE flat[k]]
<1>1. n \in Nat /\ (\A k \in 1 .. n : seqs[k] \in A) /\ <<>> \in A
  OBVIOUS
<1>2. FlattenSeq(seqs) = IF n = 0 THEN seqs ELSE flat[n]
  BY DEF FlattenSeq
<1>3. /\ G \in [A \X (1 .. n) -> A]
      /\ \A x \in A, k \in 1 .. n :
           G[<<x, k>>] = IF k = 1 THEN seqs[k] ELSE x \o seqs[k]
  <2>1. \A x \in A, y \in A : x \o y \in A
    OBVIOUS
  <2> HIDE DEF A
  <2> QED  BY <1>1, <2>1
<1> HIDE DEF G, A
<1>4. flat = [i \in 1 .. n |-> IF i = 1 THEN seqs[i] ELSE flat[i - 1] \o seqs[i]]
  <2>1. PICK it : Solves(it, A, <<>>, G, n)
    BY <1>1, <1>3, Solution
  <2> DEFINE h == [i \in 1 .. n |-> it[1 .. i]]
  <2>2. ASSUME NEW i \in 1 .. n
        PROVE  h[i] = IF i = 1 THEN seqs[i] ELSE h[i - 1] \o seqs[i]
    <3>1. /\ 1 .. i \in SUBSET (1 .. n) /\ 1 .. i # {} /\ Max(1 .. i) = i
          /\ (1 .. i) \ {i} = 1 .. i - 1 /\ i - 1 \in 0 .. n
      BY <1>1, Intervals
    <3>2. it[1 .. i] = G[<<it[1 .. i - 1], i>>]
      BY <2>1, <3>1 DEF Solves
    <3>3. 1 .. i - 1 \in SUBSET (1 .. n)
      BY <1>1
    <3>4. it[1 .. i - 1] \in A
      BY <2>1, <3>3 DEF Solves
    <3>5. i # 1 => i - 1 \in 1 .. n
      BY <1>1
    <3> QED  BY <1>3, <3>2, <3>4, <3>5
  <2>3. h = [i \in 1 .. n |-> IF i = 1 THEN seqs[i] ELSE h[i - 1] \o seqs[i]]
    BY <2>2
  <2> HIDE DEF h
  <2> QED  BY <2>3
<1> HIDE DEF flat
<1>5. f[0] = <<>>
  BY <1>1
<1>6. ASSUME NEW k \in 1 .. n PROVE f[k] = f[k - 1] \o seqs[k]
  <2>1. f[k] = flat[k]
    BY <1>1
  <2>2. CASE k = 1
    <3>1. f[k - 1] = <<>>
      BY <1>1, <2>2
    <3>2. seqs[k] = <<>> \o seqs[k]
      BY <1>1, ConcatEmptySeq DEF A
    <3> QED  BY <1>4, <2>1, <2>2, <3>1, <3>2
  <2>3. CASE k # 1
    <3>1. k - 1 \in 0 .. n /\ k - 1 # 0
      BY <1>1, <2>3
    <3> QED  BY <1>4, <2>1, <2>3, <3>1
  <2> QED  BY <2>2, <2>3
<1>7. f[n] = FlattenSeq(seqs)
  <2>1. CASE n = 0
    <3>1. seqs = <<>> /\ f[n] = <<>>
      BY <2>1
    <3> QED  BY <1>2, <2>1, <3>1
  <2>2. CASE n # 0
    BY <1>1, <1>2, <2>2
  <2> QED  BY <2>1, <2>2
<1> HIDE DEF f
<1>8. \A k \in 0 .. n : f[k] \in A
  <2>0. \A x, y \in A : x \o y \in A
    BY DEF A
  <2> HIDE DEF n
  <2>1. ASSUME NEW k \in 1 .. n, f[k - 1] \in A PROVE f[k] \in A
    <3>1. f[k] = f[k - 1] \o seqs[k] /\ seqs[k] \in A
      BY <1>1, <1>6
    <3> QED  BY <2>0, <2>1, <3>1
  <2>2. n \in Nat /\ f[0] \in A
    BY <1>1, <1>5
  <2> QED  BY ONLY <2>1, <2>2, TypedSteps
<1>9. Flattens(f, seqs, S)
  BY <1>5, <1>6, <1>7, <1>8 DEF Flattens, A
<1> QED  BY <1>9

----------------------------------------------------------------------------
(* What a line means.                                                      *)

NoColon(s) == \A i \in DOMAIN s : s[i] # ":"
Unspaced(s) == IF s # <<>> /\ Head(s) = " " THEN Tail(s) ELSE s

\* A line without a colon is a name.
LEMMA BareLine ==
  ASSUME NEW l, NoColon(l)
  PROVE  Meaning!Name(l) = l /\ Meaning!Value(l) = <<>>
<1>1. Meaning!Colons(l) = {}
  BY DEF NoColon, Meaning!Colons
<1>2. Meaning!Name(l) = l /\ Meaning!Rest(l) = <<>>
  BY <1>1 DEF Meaning!Name, Meaning!Rest
<1> QED  BY <1>2 DEF Meaning!Value

\* A line is split at its first colon, and one space is dropped.
LEMMA SplitLine ==
  ASSUME NEW S, ":" \in S, NEW n \in Seq(S), NoColon(n), NEW rest \in Seq(S), NEW l,
         l = Append(n, ":") \o rest
  PROVE  Meaning!Name(l) = n /\ Meaning!Value(l) = Unspaced(rest)
<1> DEFINE k == Len(n) + 1
<1>1. /\ l \in Seq(S) /\ Len(l) = k + Len(rest) /\ k \in Nat /\ DOMAIN l = 1 .. Len(l)
      /\ l[k] = ":" /\ \A i \in 1 .. Len(n) : l[i] = n[i]
  OBVIOUS
<1>2. k \in Meaning!Colons(l) /\ \A j \in Meaning!Colons(l) : j \in Nat /\ k <= j
  BY <1>1 DEF Meaning!Colons, NoColon
<1>3. Meaning!Colon(l) = k
  <2>1. Meaning!Colon(l) \in Meaning!Colons(l)
        /\ \A j \in Meaning!Colons(l) : Meaning!Colon(l) <= j
    BY <1>2 DEF Meaning!Colon
  <2> QED  BY <1>1, <1>2, <2>1
<1>4. SubSeq(l, 1, k - 1) = n /\ SubSeq(l, k + 1, Len(l)) = rest
  BY <1>1
<1>5. Meaning!Name(l) = n /\ Meaning!Rest(l) = rest
  BY <1>2, <1>3, <1>4 DEF Meaning!Name, Meaning!Rest
<1> QED  BY <1>5 DEF Meaning!Value, Unspaced

----------------------------------------------------------------------------
(* What the lines of an event mean, one more at a time.                    *)

Collect(vs, l, name_) == IF Meaning!Is(l, name_) THEN Append(vs, Meaning!Value(l)) ELSE vs

\* The values with a name in the first lines.
Collects(ls, name_, g) ==
  /\ g[0] = <<>> /\ g[Len(ls)] = Meaning!ValuesOf(ls, name_)
  /\ \A k \in 1 .. Len(ls) : g[k] = Collect(g[k - 1], ls[k], name_)

\* A value is a part of its line.
LEMMA ValueType ==
  ASSUME NEW S, NEW l \in Seq(S)
  PROVE  Meaning!Value(l) \in Seq(S)
<1>1. Meaning!Rest(l) \in Seq(S)
  <2>1. CASE Meaning!Colons(l) = {}
    BY <2>1 DEF Meaning!Rest
  <2>2. CASE Meaning!Colons(l) # {}
    <3>1. Meaning!Colons(l) \subseteq 1 .. Len(l)
      BY DEF Meaning!Colons
    <3>2. Meaning!Colons(l) \subseteq Nat
      BY <3>1
    <3>3. PICK x \in Meaning!Colons(l) : \A y \in Meaning!Colons(l) : ~(y < x)
      BY <2>2, <3>2, LeastElement
    <3>4. \A y \in Meaning!Colons(l) : x <= y
      BY <3>2, <3>3
    <3>5. Meaning!Colon(l) \in Meaning!Colons(l)
      BY <3>4 DEF Meaning!Colon
    <3>6. Meaning!Colon(l) \in 1 .. Len(l)
      BY <3>1, <3>5
    <3> QED  BY <2>2, <3>6 DEF Meaning!Rest
  <2> QED  BY <2>1, <2>2
<1> DEFINE r == Meaning!Rest(l)
<1>2. Meaning!Value(l) = IF r # <<>> /\ Head(r) = " " THEN Tail(r) ELSE r
  BY DEF Meaning!Value
<1> HIDE DEF r
<1>3. r \in Seq(S) /\ (r # <<>> => Tail(r) \in Seq(S))
  BY <1>1 DEF r
<1> QED  BY <1>2, <1>3

LEMMA CollectSteps ==
  ASSUME NEW S, NEW ls \in Seq(Seq(S)), NEW name_
  PROVE  \E g : Collects(ls, name_, g)
<1> DEFINE n == Len(ls)
           A == Seq(Seq(S))
           G == [x \in A \X (1 .. n) |-> Collect(x[1], ls[x[2]], name_)]
           it == CHOOSE f : f = [u \in SUBSET DOMAIN ls |->
                                   IF u = {} THEN <<>> ELSE Collect(f[u \ {Max(u)}], ls[Max(u)], name_)]
           g == [k \in 0 .. n |-> it[1 .. k]]
<1>1. n \in Nat /\ DOMAIN ls = 1 .. n /\ (\A k \in 1 .. n : ls[k] \in Seq(S)) /\ <<>> \in A
  OBVIOUS
<1>2. Meaning!ValuesOf(ls, name_) = it[DOMAIN ls]
  BY DEF Meaning!ValuesOf, Collect, Meaning!FoldLeft, Meaning!MapThenFoldSet, Meaning!Max, Max
<1>3. /\ G \in [A \X (1 .. n) -> A]
      /\ \A x \in A, k \in 1 .. n : G[<<x, k>>] = Collect(x, ls[k], name_)
  <2>1. \A x \in A, k \in 1 .. n : Collect(x, ls[k], name_) \in A
    <3>1. \A k \in 1 .. n : Meaning!Value(ls[k]) \in Seq(S)
      BY <1>1, ValueType
    <3>2. \A x \in A, v \in Seq(S) : Append(x, v) \in A
      OBVIOUS
    <3> HIDE DEF A
    <3> QED  BY <3>1, <3>2 DEF Collect
  <2> HIDE DEF A
  <2> QED  BY <2>1
<1> HIDE DEF G, A
<1>4. it = [u \in SUBSET (1 .. n) |->
              IF u = {} THEN <<>> ELSE Collect(it[u \ {Max(u)}], ls[Max(u)], name_)]
  <2>1. PICK f : Solves(f, A, <<>>, G, n)
    BY <1>1, <1>3, Solution
  <2>2. ASSUME NEW u \in SUBSET (1 .. n)
        PROVE  f[u] = IF u = {} THEN <<>> ELSE Collect(f[u \ {Max(u)}], ls[Max(u)], name_)
    <3>1. CASE u = {}
      BY <2>1, <3>1 DEF Solves
    <3>2. CASE u # {}
      <4>1. Max(u) \in 1 .. n
        BY <1>1, <3>2, MaxMember
      <4>2. f[u \ {Max(u)}] \in A
        BY <2>1 DEF Solves
      <4>3. f[u] = G[<<f[u \ {Max(u)}], Max(u)>>]
        BY <2>1, <3>2 DEF Solves
      <4> QED  BY <1>3, <3>2, <4>1, <4>2, <4>3
    <3> QED  BY <3>1, <3>2
  <2>3. f = [u \in SUBSET (1 .. n) |->
               IF u = {} THEN <<>> ELSE Collect(f[u \ {Max(u)}], ls[Max(u)], name_)]
    BY <2>1, <2>2 DEF Solves
  <2> QED  BY <1>1, <2>3
<1> HIDE DEF it
<1>5. g[0] = <<>>
  <2>1. 1 .. 0 \in SUBSET (1 .. n) /\ 1 .. 0 = {}
    BY <1>1
  <2> QED  BY <1>1, <1>4, <2>1
<1>6. ASSUME NEW k \in 1 .. n PROVE g[k] = Collect(g[k - 1], ls[k], name_)
  <2>1. /\ 1 .. k \in SUBSET (1 .. n) /\ 1 .. k # {} /\ Max(1 .. k) = k
        /\ (1 .. k) \ {k} = 1 .. k - 1 /\ k - 1 \in 0 .. n
    BY <1>1, Intervals
  <2>2. it[1 .. k] = Collect(it[1 .. k - 1], ls[k], name_)
    BY <1>4, <2>1
  <2> QED  BY <1>1, <2>1, <2>2
<1>7. g[n] = Meaning!ValuesOf(ls, name_)
  BY <1>1, <1>2
<1> HIDE DEF g
<1>8. Collects(ls, name_, g)
  BY <1>5, <1>6, <1>7 DEF Collects
<1> QED  BY <1>8

\* One more line adds a value or none.
LEMMA CollectOne ==
  ASSUME NEW S, NEW ls \in Seq(Seq(S)), NEW l \in Seq(S), NEW name_
  PROVE  /\ Meaning!ValuesOf(<<>>, name_) = <<>>
         /\ Meaning!ValuesOf(Append(ls, l), name_) = Collect(Meaning!ValuesOf(ls, name_), l, name_)
         /\ Meaning!ValuesOf(ls, name_) \in Seq(Seq(S))
<1> DEFINE n == Len(ls)
           ms == Append(ls, l)
<1>1. /\ n \in Nat /\ ms \in Seq(Seq(S)) /\ Len(ms) = n + 1 /\ ms[n + 1] = l
      /\ \A k \in 1 .. n : ms[k] = ls[k] /\ ls[k] \in Seq(S)
  OBVIOUS
<1>2. Meaning!ValuesOf(<<>>, name_) = <<>>
  <2>1. <<>> \in Seq(Seq(S)) /\ Len(<<>>) = 0
    OBVIOUS
  <2>2. PICK g : Collects(<<>>, name_, g)
    BY <2>1, CollectSteps
  <2> QED  BY <2>1, <2>2 DEF Collects
<1> HIDE DEF ms
<1>3. PICK g : Collects(ls, name_, g)
  BY CollectSteps
<1>4. PICK h : Collects(ms, name_, h)
  BY <1>1, CollectSteps
<1>5. h[0] = g[0] /\ g[0] = <<>> /\ g[n] = Meaning!ValuesOf(ls, name_)
  BY <1>3, <1>4 DEF Collects
<1>6. \A k \in 1 .. n : h[k] = Collect(h[k - 1], ls[k], name_)
  BY <1>1, <1>4 DEF Collects
<1>7. \A k \in 1 .. n : g[k] = Collect(g[k - 1], ls[k], name_)
  BY <1>3 DEF Collects
<1>8. h[n + 1] = Collect(h[n], l, name_) /\ h[n + 1] = Meaning!ValuesOf(ms, name_)
  <2>1. n + 1 \in 1 .. Len(ms) /\ (n + 1) - 1 = n
    BY <1>1
  <2> QED  BY <1>1, <1>4, <2>1 DEF Collects
<1> HIDE DEF n
<1>9. h[n] = g[n]
  <2>1. h[0] = g[0] /\ n \in Nat
    BY <1>1, <1>5
  <2>2. \A k \in 1 .. n : h[k - 1] = g[k - 1] => h[k] = g[k]
    BY <1>6, <1>7
  <2>3. \A k \in 0 .. n : h[k] = g[k]
    BY ONLY ZenonT(60), <2>1, <2>2, SameSteps
  <2> QED  BY <2>1, <2>3
<1>10. g[n] \in Seq(Seq(S))
  <2> DEFINE A == Seq(Seq(S))
  <2>1. g[0] \in A
    BY <1>5
  <2>2. \A k \in 1 .. n : g[k - 1] \in A => g[k] \in A
    <3>1. \A k \in 1 .. n : Meaning!Value(ls[k]) \in Seq(S)
      BY <1>1, ValueType
    <3>2. \A x \in A, v \in Seq(S) : Append(x, v) \in A
      OBVIOUS
    <3> HIDE DEF A
    <3> QED  BY <1>7, <3>1, <3>2 DEF Collect
  <2> HIDE DEF A
  <2>3. n \in Nat
    BY <1>1
  <2>4. \A k \in 0 .. n : g[k] \in A
    BY ONLY ZenonT(60), <2>1, <2>2, <2>3, TypedSteps
  <2> QED  BY <2>3, <2>4 DEF A
<1> QED  BY <1>2, <1>5, <1>8, <1>9, <1>10 DEF ms

\* The data lines joined, one more at a time.
LEMMA JoinOne ==
  ASSUME NEW S, "LF" \in S, NEW vs \in Seq(Seq(S)), NEW v \in Seq(S)
  PROVE  /\ Meaning!Joined(vs) \in Seq(S)
         /\ Meaning!Joined(Append(vs, v)) =
              IF vs = <<>> THEN v ELSE Meaning!Joined(vs) \o (<<"LF">> \o v)
<1> DEFINE n == Len(vs)
           ws == Append(vs, v)
           Part(us, i) == IF i = 1 THEN us[i] ELSE <<"LF">> \o us[i]
           Parts(us) == [i \in DOMAIN us |-> Part(us, i)]
<1>1. /\ n \in Nat /\ ws \in Seq(Seq(S)) /\ Len(ws) = n + 1 /\ ws[n + 1] = v
      /\ \A k \in 1 .. n : ws[k] = vs[k] /\ vs[k] \in Seq(S)
  OBVIOUS
<1>2. ASSUME NEW us \in Seq(Seq(S))
      PROVE  /\ Parts(us) \in Seq(Seq(S)) /\ Len(Parts(us)) = Len(us)
             /\ Meaning!Joined(us) = FlattenSeq(Parts(us))
             /\ \A i \in 1 .. Len(us) : Parts(us)[i] = Part(us, i)
  <2>1. DOMAIN us = 1 .. Len(us) /\ Len(us) \in Nat /\ \A i \in 1 .. Len(us) : us[i] \in Seq(S)
    OBVIOUS
  <2>2. <<"LF">> \in Seq(S) /\ \A x, y \in Seq(S) : x \o y \in Seq(S)
    OBVIOUS
  <2>3. \A i \in 1 .. Len(us) : Part(us, i) \in Seq(S)
    BY <2>1, <2>2
  <2>4. Meaning!Joined(us) = FlattenSeq(Parts(us))
    BY DEF Meaning!Joined, Meaning!FlattenSeq, FlattenSeq
  <2> DEFINE A == Seq(S)
  <2> HIDE DEF Part, A
  <2>5. Parts(us) \in [1 .. Len(us) -> A]
    BY <2>1, <2>3 DEF A
  <2>6. Parts(us) \in Seq(A) /\ Len(Parts(us)) = Len(us)
    BY <2>1, <2>5
  <2> QED  BY <2>1, <2>4, <2>6 DEF A
<1> HIDE DEF ws
<1>3. PICK f : Flattens(f, Parts(vs), S)
  BY <1>2, FlattenSteps
<1>4. PICK g : Flattens(g, Parts(ws), S)
  BY <1>1, <1>2, FlattenSteps
<1> HIDE DEF Parts
<1>5. /\ f[0] = <<>> /\ g[0] = <<>> /\ f[n] = Meaning!Joined(vs) /\ g[n + 1] = Meaning!Joined(ws)
      /\ f[n] \in Seq(S)
      /\ \A k \in 1 .. n : f[k] = f[k - 1] \o Part(vs, k)
      /\ \A k \in 1 .. n + 1 : g[k] = g[k - 1] \o Part(ws, k)
  <2>1. Len(Parts(vs)) = n /\ Len(Parts(ws)) = n + 1 /\ n \in 0 .. n
    BY <1>1, <1>2
  <2> HIDE DEF Part
  <2> QED  BY ZenonT(60), <1>1, <1>2, <1>3, <1>4, <2>1 DEF Flattens
<1>6. \A k \in 1 .. n : Part(ws, k) = Part(vs, k)
  BY <1>1
<1> HIDE DEF n
<1>7. f[n] = g[n]
  <2> HIDE DEF Part
  <2>1. f[0] = g[0] /\ n \in Nat
    BY <1>1, <1>5
  <2>2. \A k \in 1 .. n : f[k - 1] = g[k - 1] => f[k] = g[k]
    <3>1. \A k \in 1 .. n : k \in 1 .. n + 1
      BY <1>1
    <3> QED  BY <1>5, <1>6, <3>1
  <2>3. \A k \in 0 .. n : f[k] = g[k]
    BY ONLY ZenonT(60), <2>1, <2>2, SameSteps
  <2> QED  BY <2>1, <2>3
<1>8. g[n + 1] = g[n] \o Part(ws, n + 1)
  <2>1. n + 1 \in 1 .. n + 1 /\ (n + 1) - 1 = n
    BY <1>1
  <2> HIDE DEF Part
  <2> QED  BY <1>5, <2>1
<1>9. Meaning!Joined(ws) = IF vs = <<>> THEN v ELSE Meaning!Joined(vs) \o (<<"LF">> \o v)
  <2>1. CASE vs = <<>>
    <3>1. n = 0
      BY <2>1 DEF n
    <3>2. Part(ws, n + 1) = v /\ g[n] = <<>>
      BY <1>1, <1>5, <3>1
    <3>3. <<>> \o v = v
      BY ConcatEmptySeq
    <3> QED  BY <1>5, <1>8, <2>1, <3>2, <3>3
  <2>2. CASE vs # <<>>
    <3>1. n # 0
      BY <2>2 DEF n
    <3>2. Part(ws, n + 1) = <<"LF">> \o v
      BY <1>1, <3>1
    <3> QED  BY <1>5, <1>7, <1>8, <2>2, <3>2
  <2> QED  BY <2>1, <2>2
<1> QED  BY <1>5, <1>9 DEF ws

----------------------------------------------------------------------------
(* The invariant.                                                          *)

EventSet == [id : Text, type : Text, data : Text, retry : Text]

\* What the members hold of the unfinished line.
InLine ==
  \/ state \in {"init", "start_line"} /\ line = <<>> /\ name = <<>> /\ value = <<>>
  \/ /\ state = "in_comment" /\ line # <<>> /\ Head(line) = ":"
     /\ name = <<>> /\ value = <<>>
  \/ state = "in_field_name" /\ line # <<>> /\ name = line /\ NoColon(line) /\ value = <<>>
  \/ /\ state \in {"after_colon", "in_field_value"} /\ name # <<>> /\ NoColon(name)
     /\ \E rest \in Text :
          /\ line = Append(name, ":") \o rest
          /\ value = Unspaced(rest)
          /\ rest = <<>> <=> state = "after_colon"

\* What the current event holds of the lines before it.
Terminated(vs) == IF vs = <<>> THEN <<>> ELSE Append(Meaning!Joined(vs), "LF")
LastOrNone(vs) == IF vs = <<>> THEN <<>> ELSE vs[Len(vs)]

InEvent ==
  /\ event.data = Terminated(Meaning!ValuesOf(lines, "data"))
  /\ event.type = LastOrNone(Meaning!ValuesOf(lines, "event"))

\* The inductive invariant.
IInv ==
  /\ state \in States /\ last_was_cr \in BOOLEAN
  /\ name \in Text /\ value \in Text /\ line \in Text /\ lines \in Seq(Text)
  /\ event \in EventSet
  /\ Len(out) <= 1
  /\ state = "init" => out = <<>>
  /\ InLine
  /\ InEvent

\* The name and the value of a line that ends are the parser's; a comment
\* has no name.
LEMMA LineRead ==
  ASSUME IInv, line # <<>>
  PROVE  /\ state \notin {"init", "start_line"}
         /\ state = "in_comment" => Meaning!Name(line) = <<>>
         /\ state # "in_comment" => /\ Meaning!Name(line) = name
                                    /\ Meaning!Value(line) = value
         /\ Meaning!Value(line) \in Text
<1>1. Meaning!Value(line) \in Text
  BY ValueType DEF IInv, Text
<1> DEFINE S == Chars \union {":"}
<1>2. line \in Seq(S) /\ name \in Seq(S) /\ value \in Seq(S) /\ ":" \in S
      /\ \A r \in Text : r \in Seq(S)
  <2>1. \A r \in Text : r \in Seq(S)
    <3> HIDE DEF S
    <3>1. Chars \subseteq S
      BY DEF S
    <3> HIDE DEF Chars
    <3> QED  BY <3>1 DEF Text
  <2> QED  BY <2>1 DEF IInv
<1> HIDE DEF S
<1>3. CASE state \in {"init", "start_line"}
  BY <1>3 DEF IInv, InLine
<1>4. CASE state = "in_comment"
  <2>1. Head(line) = ":"
    BY <1>4 DEF IInv, InLine
  <2> DEFINE rest == Tail(line)
  <2>2. rest \in Seq(S) /\ <<>> \in Seq(S) /\ line = Append(<<>>, ":") \o rest /\ NoColon(<<>>)
    BY <1>2, <2>1 DEF NoColon
  <2> HIDE DEF rest
  <2>3. Meaning!Name(line) = <<>>
    BY <1>2, <2>2, SplitLine
  <2> QED  BY <1>1, <1>4, <2>3
<1>5. CASE state = "in_field_name"
  <2>1. name = line /\ NoColon(line) /\ value = <<>>
    BY <1>5 DEF IInv, InLine
  <2> QED  BY <1>1, <1>5, <2>1, BareLine
<1>6. CASE state \in {"after_colon", "in_field_value"}
  <2>1. NoColon(name) /\ \E rest \in Text : line = Append(name, ":") \o rest /\ value = Unspaced(rest)
    BY <1>6 DEF IInv, InLine
  <2>2. PICK rest \in Text : line = Append(name, ":") \o rest /\ value = Unspaced(rest)
    BY <2>1
  <2>3. rest \in Seq(S)
    BY <1>2
  <2>4. Meaning!Name(line) = name /\ Meaning!Value(line) = Unspaced(rest)
    BY <1>2, <2>1, <2>2, <2>3, SplitLine
  <2> QED  BY <1>1, <1>6, <2>2, <2>4
<1> QED  BY <1>3, <1>4, <1>5, <1>6 DEF IInv, States

\* process_field.
LEMMA FieldFacts ==
  ASSUME NEW e \in EventSet, NEW n, NEW v \in Text
  PROVE  LET e2 == ProcessField(e, n, v)
         IN /\ e2 \in EventSet
            /\ e2.data = IF n = <<"data">> THEN e.data \o Append(v, "LF") ELSE e.data
            /\ e2.type = IF n = <<"event">> THEN v ELSE e.type
            /\ e2.id = IF n = <<"id">> /\ Meaning!ValidId(v) THEN v ELSE e.id
            /\ e2.retry = IF n = <<"retry">> /\ Meaning!ValidRetry(v) THEN v ELSE e.retry
<1> DEFINE e2 == ProcessField(e, n, v)
           x == e.data \o Append(v, "LF")
<1>1. /\ e.id \in Text /\ e.type \in Text /\ e.data \in Text /\ e.retry \in Text
      /\ e = [id |-> e.id, type |-> e.type, data |-> e.data, retry |-> e.retry]
  BY DEF EventSet
<1>2. x \in Text
  <2>1. "LF" \in Chars
    BY DEF Chars
  <2> HIDE DEF Chars
  <2> QED  BY <1>1, <2>1 DEF Text
<1> HIDE DEF x
<1>3. <<"data">> # <<"event">> /\ <<"data">> # <<"id">> /\ <<"data">> # <<"retry">>
      /\ <<"event">> # <<"id">> /\ <<"event">> # <<"retry">> /\ <<"id">> # <<"retry">>
  <2>1. <<"data">>[1] = "data" /\ <<"event">>[1] = "event" /\ <<"id">>[1] = "id"
        /\ <<"retry">>[1] = "retry"
    OBVIOUS
  <2> QED  BY <2>1
<1>4. Has(v, "NUL") <=> ~Meaning!ValidId(v)
  BY DEF Has, Meaning!ValidId
<1>5. AllDigits(v) /\ ~Has(v, "HUGE") <=> Meaning!ValidRetry(v)
  BY DEF Has, AllDigits, Meaning!ValidRetry
<1>6. CASE n = <<"data">>
  <2>1. e2 = [e EXCEPT !.data = x]
    BY <1>3, <1>6 DEF ProcessField, x
  <2>2. e2 = [id |-> e.id, type |-> e.type, data |-> x, retry |-> e.retry]
    BY <1>1, <2>1
  <2> HIDE DEF e2
  <2>3. e2 \in EventSet /\ e2.data = x /\ e2.id = e.id /\ e2.type = e.type /\ e2.retry = e.retry
    BY <1>1, <1>2, <2>2 DEF EventSet
  <2> HIDE DEF EventSet
  <2>4. e2.data = e.data \o Append(v, "LF")
    BY <2>3 DEF x
  <2> QED  BY ONLY <1>3, <1>6, <2>3, <2>4 DEF e2
<1>7. CASE n = <<"event">>
  <2>1. e2 = [e EXCEPT !.type = v]
    BY <1>3, <1>7 DEF ProcessField
  <2>2. e2 = [id |-> e.id, type |-> v, data |-> e.data, retry |-> e.retry]
    BY <1>1, <2>1
  <2> HIDE DEF e2
  <2> QED  BY <1>1, <1>3, <1>7, <2>2 DEF EventSet, e2
<1>8. CASE n = <<"id">>
  <2>1. e2 = IF Meaning!ValidId(v) THEN [e EXCEPT !.id = v] ELSE e
    BY <1>3, <1>4, <1>8 DEF ProcessField
  <2>2. e2 = [id |-> IF Meaning!ValidId(v) THEN v ELSE e.id, type |-> e.type, data |-> e.data,
              retry |-> e.retry]
    BY <1>1, <2>1
  <2> HIDE DEF e2
  <2> QED  BY <1>1, <1>3, <1>8, <2>2 DEF EventSet, e2
<1>9. CASE n = <<"retry">>
  <2>1. e2 = IF Meaning!ValidRetry(v) THEN [e EXCEPT !.retry = v] ELSE e
    BY <1>3, <1>5, <1>9 DEF ProcessField
  <2>2. e2 = [id |-> e.id, type |-> e.type, data |-> e.data,
              retry |-> IF Meaning!ValidRetry(v) THEN v ELSE e.retry]
    BY <1>1, <2>1
  <2> HIDE DEF e2
  <2> QED  BY <1>1, <1>3, <1>9, <2>2 DEF EventSet, e2
<1>10. CASE n \notin {<<"data">>, <<"event">>, <<"id">>, <<"retry">>}
  <2>1. e2 = e
    BY <1>10 DEF ProcessField
  <2> QED  BY <1>1, <1>10, <2>1
<1> QED  BY <1>6, <1>7, <1>8, <1>9, <1>10

\* A field that ends is entered in the event, whatever state it was left in.
LEMMA FieldEnds ==
  ASSUME IInv, NEW c, EndLine(c), line # <<>>
  PROVE  /\ event' \in EventSet
         /\ event'.data = IF Meaning!Is(line, "data")
                          THEN event.data \o Append(Meaning!Value(line), "LF") ELSE event.data
         /\ event'.type = IF Meaning!Is(line, "event") THEN Meaning!Value(line) ELSE event.type
         /\ event'.id = IF Meaning!Is(line, "id") /\ Meaning!ValidId(Meaning!Value(line))
                        THEN Meaning!Value(line) ELSE event.id
         /\ event'.retry = IF Meaning!Is(line, "retry") /\ Meaning!ValidRetry(Meaning!Value(line))
                           THEN Meaning!Value(line) ELSE event.retry
         /\ out' = <<>> /\ lines' = Append(lines, line)
<1> DEFINE n == Meaning!Name(line)
           v == Meaning!Value(line)
<1>1. v \in Text /\ event \in EventSet
  BY LineRead DEF IInv
<1>2. \A w : Meaning!Is(line, w) <=> n = <<w>>
  BY DEF Meaning!Is
<1>3. state \notin {"init", "start_line"} /\ state \in States
  BY LineRead DEF IInv
<1>4. /\ out' = <<>> /\ lines' = Append(lines, line)
      /\ event' = CASE state = "in_comment" -> event
                    [] state = "in_field_name" -> ProcessField(event, name, <<>>)
                    [] OTHER -> ProcessField(event, name, value)
  BY <1>3 DEF EndLine
<1>5. event' = ProcessField(event, n, v)
  <2>1. CASE state = "in_comment"
    <3>1. n = <<>>
      BY <2>1, LineRead
    <3>2. ProcessField(event, <<>>, v) = event
      <4>1. <<>> \notin {<<"data">>, <<"event">>, <<"id">>, <<"retry">>}
        OBVIOUS
      <4> QED  BY <4>1 DEF ProcessField
    <3> QED  BY <1>4, <2>1, <3>1, <3>2
  <2>2. CASE state = "in_field_name"
    <3>1. n = name /\ v = value /\ value = <<>>
      BY <2>2, LineRead DEF IInv, InLine
    <3> QED  BY <1>4, <2>2, <3>1
  <2>3. CASE state \notin {"in_comment", "in_field_name"}
    <3>1. n = name /\ v = value
      BY <2>3, LineRead
    <3> QED  BY <1>4, <2>3, <3>1
  <2> QED  BY <2>1, <2>2, <2>3
<1> HIDE DEF n, v
<1>6. LET e2 == ProcessField(event, n, v)
      IN /\ e2 \in EventSet
         /\ e2.data = IF n = <<"data">> THEN event.data \o Append(v, "LF") ELSE event.data
         /\ e2.type = IF n = <<"event">> THEN v ELSE event.type
         /\ e2.id = IF n = <<"id">> /\ Meaning!ValidId(v) THEN v ELSE event.id
         /\ e2.retry = IF n = <<"retry">> /\ Meaning!ValidRetry(v) THEN v ELSE event.retry
  BY <1>1, FieldFacts
<1> QED  BY <1>2, <1>4, <1>5, <1>6 DEF v

LEMMA Initial ==
  Init => IInv
<1> SUFFICES ASSUME Init PROVE IInv
  OBVIOUS
<1>1. <<>> \in Text /\ <<>> \in Seq(Text) /\ Len(<<>>) <= 1
  BY DEF Text
<1>2. Meaning!ValuesOf(<<>>, "data") = <<>> /\ Meaning!ValuesOf(<<>>, "event") = <<>>
  BY <1>1, CollectOne DEF Text
<1>3. NoEvent \in EventSet /\ NoEvent.data = <<>> /\ NoEvent.type = <<>>
  BY <1>1 DEF NoEvent, EventSet
<1>4. InEvent
  BY <1>2, <1>3 DEF Init, InEvent, Terminated, LastOrNone
<1> QED  BY <1>1, <1>3, <1>4 DEF Init, IInv, InLine, States

LEMMA FirstChunkKeeps ==
  ASSUME IInv, FirstChunk
  PROVE  IInv'
<1>1. /\ state = "init" /\ state' = "start_line" /\ out' = <<>>
      /\ UNCHANGED <<last_was_cr, name, value, event, line, lines>>
  BY DEF FirstChunk
<1>2. InLine'
  BY <1>1 DEF IInv, InLine
<1>3. InEvent'
  BY <1>1 DEF IInv, InEvent
<1>4. Len(<<>>) <= 1
  OBVIOUS
<1> QED  BY <1>1, <1>2, <1>3, <1>4 DEF IInv, States

LEMMA SkipLineFeedKeeps ==
  ASSUME IInv, SkipLineFeed
  PROVE  IInv'
<1>1. /\ last_was_cr' = FALSE /\ state' = (IF state = "init" THEN "start_line" ELSE state)
      /\ out' = <<>> /\ UNCHANGED <<name, value, event, line, lines>>
  BY DEF SkipLineFeed
<1>2. InLine'
  BY <1>1 DEF IInv, InLine
<1>3. InEvent'
  BY <1>1 DEF IInv, InEvent
<1>4. Len(<<>>) <= 1
  OBVIOUS
<1> QED  BY <1>1, <1>2, <1>3, <1>4 DEF IInv, States

LEMMA ResetKeeps ==
  ASSUME IInv, Reset
  PROVE  IInv'
<1>1. /\ state' = "init" /\ name' = <<>> /\ value' = <<>> /\ event' = NoEvent
      /\ out' = <<>> /\ line' = <<>> /\ lines' = <<>> /\ UNCHANGED last_was_cr
  BY DEF Reset
<1>2. <<>> \in Text /\ <<>> \in Seq(Text) /\ Len(<<>>) <= 1
  BY DEF Text
<1>3. Meaning!ValuesOf(<<>>, "data") = <<>> /\ Meaning!ValuesOf(<<>>, "event") = <<>>
  BY <1>2, CollectOne DEF Text
<1>4. NoEvent \in EventSet /\ NoEvent.data = <<>> /\ NoEvent.type = <<>>
  BY <1>2 DEF NoEvent, EventSet
<1>5. InLine'
  BY <1>1 DEF InLine
<1>6. InEvent'
  BY <1>1, <1>3, <1>4 DEF InEvent, Terminated, LastOrNone
<1> QED  BY <1>1, <1>2, <1>4, <1>5, <1>6 DEF IInv, States

LEMMA EndLineKeeps ==
  ASSUME IInv, NEW c, EndLine(c)
  PROVE  IInv'
<1>1. /\ state' = "start_line" /\ name' = <<>> /\ value' = <<>> /\ line' = <<>>
      /\ last_was_cr' \in BOOLEAN
  BY DEF EndLine
<1>2. InLine'
  BY <1>1 DEF InLine
<1>3. <<>> \in Text /\ <<>> \in Seq(Text) /\ Len(<<>>) <= 1
  BY DEF Text
<1>4. CASE line = <<>>
  <2>1. state \in {"init", "start_line"}
    BY <1>4 DEF IInv, InLine
  <2>2. out' = Dispatched(event) /\ event' = Cleared(event) /\ lines' = <<>>
    BY <2>1 DEF EndLine
  <2>3. Len(out') <= 1
    <3>1. Len(<<Stripped(event)>>) <= 1
      OBVIOUS
    <3> QED  BY <1>3, <2>2, <3>1 DEF Dispatched
  <2>4. event' \in EventSet /\ event'.data = <<>> /\ event'.type = <<>>
    BY <1>3, <2>2 DEF Cleared, IInv, EventSet
  <2>5. Meaning!ValuesOf(<<>>, "data") = <<>> /\ Meaning!ValuesOf(<<>>, "event") = <<>>
    BY <1>3, CollectOne DEF Text
  <2>6. InEvent'
    BY <2>2, <2>4, <2>5 DEF InEvent, Terminated, LastOrNone
  <2> QED  BY <1>1, <1>2, <1>3, <2>2, <2>3, <2>4, <2>6 DEF IInv, States
<1>5. CASE line # <<>>
  <2> DEFINE v == Meaning!Value(line)
             ds == Meaning!ValuesOf(lines, "data")
             es == Meaning!ValuesOf(lines, "event")
  <2>1. /\ event' \in EventSet
        /\ event'.data = IF Meaning!Is(line, "data") THEN event.data \o Append(v, "LF")
                         ELSE event.data
        /\ event'.type = IF Meaning!Is(line, "event") THEN v ELSE event.type
        /\ out' = <<>> /\ lines' = Append(lines, line)
    BY <1>5, FieldEnds
  <2>2. line \in Text /\ lines \in Seq(Text) /\ v \in Text
    BY <1>5, LineRead DEF IInv
  <2>3. /\ ds \in Seq(Text) /\ es \in Seq(Text)
        /\ Meaning!ValuesOf(Append(lines, line), "data") = Collect(ds, line, "data")
        /\ Meaning!ValuesOf(Append(lines, line), "event") = Collect(es, line, "event")
    BY <2>2, CollectOne DEF Text
  <2>4. event.data = Terminated(ds) /\ event.type = LastOrNone(es)
    BY DEF IInv, InEvent
  <2>5. Terminated(Append(ds, v)) = Terminated(ds) \o Append(v, "LF")
    <3>1. "LF" \in Chars
      BY DEF Chars
    <3> DEFINE j == Meaning!Joined(ds)
    <3>2. /\ j \in Text
          /\ Meaning!Joined(Append(ds, v)) = IF ds = <<>> THEN v ELSE j \o (<<"LF">> \o v)
      BY ZenonT(60), <2>2, <2>3, <3>1, JoinOne DEF Text
    <3>3. Append(ds, v) # <<>>
      BY <2>3
    <3> HIDE DEF j, ds, v
    <3>4. CASE ds = <<>>
      <4>1. Terminated(Append(ds, v)) = Append(v, "LF") /\ Terminated(ds) = <<>>
        BY <3>2, <3>3, <3>4 DEF Terminated
      <4>2. <<>> \o Append(v, "LF") = Append(v, "LF")
        BY <2>2, <3>1, ConcatEmptySeq DEF Text
      <4> QED  BY <4>1, <4>2
    <3>5. CASE ds # <<>>
      <4>1. Terminated(Append(ds, v)) = Append(j \o (<<"LF">> \o v), "LF")
            /\ Terminated(ds) = Append(j, "LF")
        BY <3>2, <3>3, <3>5 DEF Terminated, j
      <4>2. Append(j \o (<<"LF">> \o v), "LF") = Append(j, "LF") \o Append(v, "LF")
        <5> DEFINE b == <<"LF">>
        <5> HIDE DEF Chars
        <5>1. b \in Text /\ \A r \in Text : Append(r, "LF") = r \o b
          BY <3>1 DEF Text
        <5>2. \A r, w, z \in Text : (r \o w) \o z = r \o (w \o z) /\ r \o w \in Text
          BY DEF Text
        <5>3. Append(v, "LF") = v \o b /\ Append(j, "LF") = j \o b
              /\ Append(j \o (b \o v), "LF") = (j \o (b \o v)) \o b
              /\ v \o b \in Text /\ b \o v \in Text
          BY <2>2, <3>2, <5>1, <5>2
        <5> HIDE DEF b, Text
        <5>4. (j \o (b \o v)) \o b = j \o ((b \o v) \o b)
          BY <2>2, <3>2, <5>1, <5>2, <5>3
        <5>5. (b \o v) \o b = b \o (v \o b)
          BY ZenonT(60), <2>2, <5>1, <5>2
        <5>6. (j \o b) \o (v \o b) = j \o (b \o (v \o b))
          BY <3>2, <5>1, <5>2, <5>3
        <5> QED  BY <5>3, <5>4, <5>5, <5>6 DEF b
      <4> QED  BY <4>1, <4>2
    <3> QED  BY <3>4, <3>5
  <2>6. LastOrNone(Append(es, v)) = v
    <3> HIDE DEF es, v
    <3>1. Append(es, v) # <<>> /\ Append(es, v)[Len(Append(es, v))] = v
      BY <2>3
    <3> QED  BY <3>1 DEF LastOrNone
  <2> HIDE DEF ds, es, v
  <2>7. event'.data = Terminated(Collect(ds, line, "data"))
    BY <2>1, <2>4, <2>5 DEF Collect, v
  <2>8. event'.type = LastOrNone(Collect(es, line, "event"))
    BY <2>1, <2>4, <2>6 DEF Collect, v
  <2>9. InEvent'
    BY <2>1, <2>3, <2>7, <2>8 DEF InEvent
  <2>10. lines' \in Seq(Text)
    <3> HIDE DEF Text
    <3> QED  BY <2>1, <2>2
  <2> QED  BY <1>1, <1>2, <1>3, <2>1, <2>9, <2>10 DEF IInv, States
<1> QED  BY <1>4, <1>5

LEMMA Append1Keeps ==
  ASSUME IInv, NEW c \in Chars, Append1(c)
  PROVE  IInv'
<1>1. /\ last_was_cr' = FALSE /\ out' = <<>> /\ line' = Append(line, c)
      /\ UNCHANGED <<event, lines>>
  BY DEF Append1
<1>2. /\ line \in Text /\ name \in Text /\ value \in Text /\ <<>> \in Text
      /\ \A r \in Text : Append(r, c) \in Text /\ Append(r, c) # <<>>
  <2> HIDE DEF Chars
  <2> QED  BY DEF IInv, Text
<1>3. InEvent'
  BY <1>1 DEF IInv, InEvent
<1>4. Len(<<>>) <= 1 /\ state \in States
  BY DEF IInv
<1>5. /\ InLine' /\ state' \in States /\ state' # "init"
      /\ name' \in Text /\ value' \in Text
  <2>1. CASE state \in {"init", "start_line"}
    <3>1. /\ state' = IF c = ":" THEN "in_comment" ELSE "in_field_name"
          /\ name' = IF c = ":" THEN name ELSE Append(name, c)
          /\ value' = value
      BY <2>1 DEF Append1
    <3>2. line = <<>> /\ name = <<>> /\ value = <<>>
      BY <2>1 DEF IInv, InLine
    <3>3. CASE c = ":"
      <4>1. line' # <<>> /\ Head(line') = ":"
        BY <1>1, <3>2, <3>3
      <4> QED  BY <1>2, <3>1, <3>2, <3>3, <4>1 DEF InLine, States
    <3>4. CASE c # ":"
      <4>1. line' # <<>> /\ name' = line' /\ NoColon(line')
        BY <1>1, <3>1, <3>2, <3>4 DEF NoColon
      <4> QED  BY <1>2, <3>1, <3>2, <3>4, <4>1 DEF InLine, States
    <3> QED  BY <3>3, <3>4
  <2>2. CASE state = "in_comment"
    <3>1. UNCHANGED <<state, name, value>>
      BY <2>2 DEF Append1
    <3>2. line # <<>> /\ Head(line) = ":" /\ name = <<>> /\ value = <<>>
      BY <2>2 DEF IInv, InLine
    <3>3. line' # <<>> /\ Head(line') = ":"
      <4> HIDE DEF Chars
      <4>1. Head(Append(line, c)) = Head(line)
        BY <1>2, <3>2 DEF Text
      <4> QED  BY <1>1, <1>2, <3>2, <4>1
    <3> QED  BY <1>2, <2>2, <3>1, <3>2, <3>3 DEF InLine, States
  <2>3. CASE state = "in_field_name"
    <3>1. /\ state' = IF c = ":" THEN "after_colon" ELSE state
          /\ name' = IF c = ":" THEN name ELSE Append(name, c)
          /\ value' = value
      BY <2>3 DEF Append1
    <3>2. line # <<>> /\ name = line /\ NoColon(line) /\ value = <<>>
      BY <2>3 DEF IInv, InLine
    <3>3. CASE c = ":"
      <4>1. line' = Append(name', ":") \o <<>>
        <5> HIDE DEF Chars
        <5>1. Append(line, c) \o <<>> = Append(line, c)
          BY <1>2, ConcatEmptySeq DEF Text
        <5> QED  BY <1>1, <3>1, <3>2, <3>3, <5>1
      <4>2. value' = Unspaced(<<>>)
        BY <3>1, <3>2 DEF Unspaced
      <4> QED  BY <1>2, <3>1, <3>2, <3>3, <4>1, <4>2 DEF InLine, States
    <3>4. CASE c # ":"
      <4>1. NoColon(line')
        <5> HIDE DEF Chars
        <5> QED  BY <1>1, <1>2, <3>2, <3>4 DEF NoColon, Text
      <4> QED  BY <1>1, <1>2, <2>3, <3>1, <3>2, <3>4, <4>1 DEF InLine, States
    <3> QED  BY <3>3, <3>4
  <2>4. CASE state \in {"after_colon", "in_field_value"}
    <3>1. /\ state' = "in_field_value" /\ name' = name
          /\ value' = IF StripsSpace(c) THEN value ELSE Append(value, c)
      BY <2>4 DEF Append1
    <3>2. name # <<>> /\ NoColon(name)
      BY <2>4 DEF IInv, InLine
    <3>3. PICK rest \in Text : /\ line = Append(name, ":") \o rest
                               /\ value = Unspaced(rest)
                               /\ rest = <<>> <=> state = "after_colon"
      BY <2>4 DEF IInv, InLine
    <3> DEFINE more == Append(rest, c)
    <3>4. more \in Text /\ more # <<>>
      BY <1>2
    <3>5. line' = Append(name, ":") \o more
      <4> HIDE DEF Chars
      <4> DEFINE p == Append(name, ":")
      <4>1. p \in Seq(Chars \union {":"}) /\ rest \in Seq(Chars \union {":"})
        BY <1>2 DEF Text
      <4> HIDE DEF p
      <4>2. Append(p \o rest, c) = p \o Append(rest, c)
        BY <4>1
      <4> QED  BY <1>1, <3>3, <4>2 DEF p
    <3>6. value' = Unspaced(more)
      <4> HIDE DEF Chars
      <4>1. CASE rest = <<>>
        <5>1. more = <<c>> /\ Head(more) = c /\ Tail(more) = <<>> /\ value = <<>>
              /\ Append(value, c) = more
          BY <3>3, <4>1 DEF Unspaced
        <5> QED  BY <3>1, <3>3, <3>4, <4>1, <5>1 DEF Unspaced, StripsSpace
      <4>2. CASE rest # <<>>
        <5>1. Head(more) = Head(rest) /\ Tail(more) = Append(Tail(rest), c)
          BY <4>2 DEF Text
        <5>2. ~StripsSpace(c)
          BY <3>3, <4>2 DEF StripsSpace
        <5> QED  BY <3>1, <3>3, <3>4, <4>2, <5>1, <5>2 DEF Unspaced
      <4> QED  BY <4>1, <4>2
    <3> HIDE DEF more
    <3>7. InLine'
      BY <3>1, <3>2, <3>4, <3>5, <3>6 DEF InLine
    <3> QED  BY <1>2, <3>1, <3>7 DEF States
  <2> QED  BY <1>4, <2>1, <2>2, <2>3, <2>4 DEF States
<1> QED  BY <1>1, <1>2, <1>3, <1>4, <1>5 DEF IInv

\* What on_event is called with is the event that the lines mean.
LEMMA DispatchedMeans ==
  ASSUME IInv
  PROVE  Dispatched(event) =
           IF Meaning!IsEvent
           THEN <<[id |-> event.id, type |-> Meaning!Type,
                   data |-> Meaning!Joined(Meaning!Values("data")), retry |-> event.retry]>>
           ELSE <<>>
<1> DEFINE ds == Meaning!ValuesOf(lines, "data")
           es == Meaning!ValuesOf(lines, "event")
           j == Meaning!Joined(ds)
<1>1. Meaning!Values("data") = ds /\ Meaning!Values("event") = es
  BY DEF Meaning!Values
<1>2. event.data = Terminated(ds) /\ event.type = LastOrNone(es)
  BY DEF IInv, InEvent
<1>3. Meaning!Type = event.type
  BY <1>1, <1>2 DEF Meaning!Type, Meaning!Last, LastOrNone
<1>4. "LF" \in Chars /\ <<>> \in Text
  BY DEF Chars, Text
<1>5. ds \in Seq(Text)
  BY <1>4, CollectOne DEF IInv, Text
<1>6. j \in Text
  BY <1>4, <1>5, JoinOne DEF Text
<1>7. event = [id |-> event.id, type |-> event.type, data |-> event.data, retry |-> event.retry]
  BY DEF IInv, EventSet
<1>8. Stripped(event) = [id |-> event.id, type |-> event.type, data |-> j, retry |-> event.retry]
      /\ (event.data # <<>> <=> ds # <<>>)
  <2>1. CASE ds = <<>>
    <3>1. event.data = <<>>
      BY <1>2, <2>1 DEF Terminated
    <3>2. j = <<>>
      <4>1. [i \in DOMAIN <<>> |-> IF i = 1 THEN <<>>[i] ELSE <<"LF">> \o <<>>[i]] = <<>>
        OBVIOUS
      <4>2. Meaning!Joined(<<>>) = <<>>
        BY <4>1 DEF Meaning!Joined, Meaning!FlattenSeq
      <4> QED  BY <2>1, <4>2
    <3>3. Stripped(event) = event
      BY <3>1 DEF Stripped
    <3> QED  BY <1>7, <2>1, <3>1, <3>2, <3>3
  <2>2. CASE ds # <<>>
    <3>1. event.data = Append(j, "LF")
      BY <1>2, <2>2 DEF Terminated
    <3> HIDE DEF j, ds, Chars
    <3>2. /\ Append(j, "LF") # <<>> /\ Last(Append(j, "LF")) = "LF"
          /\ Front(Append(j, "LF")) = j
      <4> DEFINE q == Append(j, "LF")
      <4>1. q # <<>> /\ q[Len(q)] = "LF" /\ SubSeq(q, 1, Len(q) - 1) = j
        BY <1>4, <1>6 DEF Text
      <4> QED  BY <4>1 DEF Last, Front
    <3>3. Stripped(event) = [event EXCEPT !.data = j]
      BY <3>1, <3>2 DEF Stripped
    <3>4. [event EXCEPT !.data = j]
            = [id |-> event.id, type |-> event.type, data |-> j, retry |-> event.retry]
      BY <1>7
    <3> QED  BY <2>2, <3>1, <3>2, <3>3, <3>4
  <2> QED  BY <2>1, <2>2
<1> HIDE DEF ds, es
<1> QED  BY <1>1, <1>3, <1>8 DEF Dispatched, Meaning!IsEvent

LEMMA Step ==
  IInv /\ [Next]_vars => IInv'
<1> SUFFICES ASSUME IInv, [Next]_vars PROVE IInv'
  OBVIOUS
<1>1. CASE UNCHANGED vars
  BY <1>1 DEF vars, parserVars, IInv, InLine, InEvent
<1> QED  BY <1>1, FirstChunkKeeps, SkipLineFeedKeeps, ResetKeeps, EndLineKeeps, Append1Keeps DEF Next

LEMMA Invariance ==
  Spec => []IInv
<1> QED  BY Initial, Step, PTL DEF Spec

----------------------------------------------------------------------------
(* What follows of the invariant.                                          *)

\* The members keep their types; a name and a value exist only inside a field,
\* and what data holds ends with the line feed that dispatch will strip.
THEOREM TypeCorrect ==
  Spec => []TypeOK
<1>1. IInv => TypeOK
  <2> SUFFICES ASSUME IInv PROVE TypeOK
    OBVIOUS
  <2>1. name # <<>> => state \in {"in_field_name", "after_colon", "in_field_value"}
    BY DEF IInv, InLine
  <2>2. value # <<>> => state = "in_field_value"
    <3>1. state = "after_colon" => value = Unspaced(<<>>)
      BY DEF IInv, InLine
    <3> QED  BY <3>1 DEF IInv, InLine, Unspaced
  <2>3. event.data # <<>> => Last(event.data) = "LF"
    <3> SUFFICES ASSUME event.data # <<>> PROVE Last(event.data) = "LF"
      OBVIOUS
    <3> DEFINE ds == Meaning!ValuesOf(lines, "data")
               j == Meaning!Joined(ds)
    <3>1. event.data = Append(j, "LF")
      BY DEF IInv, InEvent, Terminated
    <3>2. "LF" \in Chars /\ <<>> \in Text
      BY DEF Chars, Text
    <3>3. ds \in Seq(Text)
      BY <3>2, CollectOne DEF IInv, Text
    <3>4. j \in Text
      BY <3>2, <3>3, JoinOne DEF Text
    <3> HIDE DEF j, Chars
    <3>5. Append(j, "LF")[Len(Append(j, "LF"))] = "LF"
      BY <3>2, <3>4 DEF Text
    <3> QED  BY <3>1, <3>5 DEF Last
  <2> QED  BY <2>1, <2>2, <2>3 DEF IInv, TypeOK, EventSet
<1> QED  BY <1>1, Invariance, PTL

\* The parser implements the meaning of an event stream: wherever lines and
\* chunks end, with or without colon and space, on_event sees the events that
\* the lines mean, with the id and the retry that came before.
THEOREM ParserImplementsEventStream ==
  Spec => ImplementsEventStream
<1>1. Init => Meaning!Init
  BY DEF Init, Meaning!Init, NoEvent
<1>2. IInv /\ [Next]_vars => [Meaning!Next]_(Meaning!vars)
  <2> SUFFICES ASSUME IInv, [Next]_vars PROVE [Meaning!Next]_(Meaning!vars)
    OBVIOUS
  <2>1. CASE FirstChunk
    <3>1. UNCHANGED Meaning!vars
      BY <2>1 DEF FirstChunk, IInv, Meaning!vars
    <3> QED  BY <3>1
  <2>2. CASE SkipLineFeed
    <3>1. Meaning!SecondHalf
      BY <2>2 DEF SkipLineFeed, Meaning!SecondHalf
    <3> QED  BY <3>1 DEF Meaning!Next
  <2>3. CASE Reset
    <3>1. Meaning!Reset
      BY <2>3 DEF Reset, NoEvent, Meaning!Reset
    <3> QED  BY <3>1 DEF Meaning!Next
  <2>4. ASSUME NEW c \in Chars, Append1(c) PROVE Meaning!Next
    <3>1. Meaning!Character(c)
      BY <2>4 DEF Append1, Meaning!Character
    <3> QED  BY <3>1 DEF Meaning!Next
  <2>5. ASSUME NEW c \in {"CR", "LF"}, EndLine(c) PROVE Meaning!Next
    <3>1. c \in Chars /\ ~(last_was_cr /\ c = "LF") /\ last_was_cr' = (c = "CR") /\ line' = <<>>
      BY <2>5 DEF EndLine, IsPair, Chars
    <3>2. CASE line # <<>>
      <4>1. Meaning!EndOfField(c)
        BY <2>5, <3>1, <3>2, FieldEnds DEF Meaning!EndOfField
      <4> QED  BY <3>1, <4>1 DEF Meaning!Next
    <3>3. CASE line = <<>>
      <4>1. state \in {"init", "start_line"}
        BY <3>3 DEF IInv, InLine
      <4>2. out' = Dispatched(event) /\ event' = Cleared(event) /\ lines' = <<>>
        BY <2>5, <4>1 DEF EndLine
      <4>3. event'.id = event.id /\ event'.retry = event.retry
        BY <4>2 DEF Cleared, IInv, EventSet
      <4>4. out' = IF Meaning!IsEvent
                   THEN <<[id |-> event.id, type |-> Meaning!Type,
                           data |-> Meaning!Joined(Meaning!Values("data")),
                           retry |-> event.retry]>>
                   ELSE <<>>
        BY <4>2, DispatchedMeans
      <4>5. Meaning!EndOfEvent(c)
        BY <3>1, <3>3, <4>2, <4>3, <4>4 DEF Meaning!EndOfEvent
      <4> QED  BY <3>1, <4>5 DEF Meaning!Next
    <3> QED  BY <3>2, <3>3
  <2>6. CASE UNCHANGED vars
    BY <2>6 DEF vars, parserVars, Meaning!vars
  <2> QED  BY <2>1, <2>2, <2>3, <2>4, <2>5, <2>6 DEF Next
<1> QED  BY <1>1, <1>2, Invariance, PTL DEF Spec, ImplementsEventStream, Meaning!Spec
=============================================================================
