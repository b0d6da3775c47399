------------------------------- MODULE SliceOps -------------------------------
(* Operations on Go slices, as sequences.  Without is written with the rank   *)
(* of an index and not with recursion, so that modules with proofs can use it. *)
EXTENDS Naturals, Sequences, FiniteSets

(* The elements of a slice. *)
Elems(s) == {s[k] : k \in DOMAIN s}

(* The index of the n-th position kept: exactly n - 1 kept positions precede. *)
Nth(kept, n) == CHOOSE k \in kept : Cardinality({m \in kept : m < k}) = n - 1

(* The slice left when every element of gone is filtered out, order kept. *)
Without(s, gone) ==
  LET kept == {k \in 1..Len(s) : s[k] \notin gone}
  IN  [n \in 1..Cardinality(kept) |-> s[Nth(kept, n)]]

(* The first n elements, or all of them when there are fewer. *)
Front(s, n) == SubSeq(s, 1, IF n > Len(s) THEN Len(s) ELSE n)

(* The smaller of two numbers. *)
Least(a, b) == IF a <= b THEN a ELSE b
===============================================================================
