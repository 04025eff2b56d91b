----------------------------- MODULE Selections ------------------------------
(***************************************************************************)
(* What one reader of a shared queue sees of it: the elements of a         *)
(* sequence that are in a set, in their order.  (SelectSeq takes its test  *)
(* as an operator, of which nothing can be proved by induction.)           *)
(***************************************************************************)
EXTENDS Naturals, Sequences

Sift(prefix, x, M) == IF x \in M THEN Append(prefix, x) ELSE prefix

Selected(s, M) ==
    LET f[n \in 0 .. Len(s)] == IF n = 0 THEN <<>> ELSE Sift(f[n - 1], s[n], M)
    IN  f[Len(s)]
=============================================================================
