------------------------------ MODULE MCHpack ------------------------------
(* Instances of Hpack for TLC: two names, two values, entries of two sizes. *)
EXTENDS Hpack

H(n, v) == [name |-> n, value |-> v]

\* Entries of 1, 2 and 3.
UnequalSizes == [p \in Names \X Values |-> (IF p[1] = "a" THEN 1 ELSE 2) + (IF p[2] = "x" THEN 0 ELSE 1)]
OneStatic == <<H("a", "x")>>
PrefixMasks == [k \in Kinds |-> IF k = "indexed" THEN 3 ELSE 1]
=============================================================================
