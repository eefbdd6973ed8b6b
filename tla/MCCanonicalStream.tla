---- MODULE MCCanonicalStream ----
(* Instances of CanonicalStream for TLC. *)
EXTENDS ReclaimLoop, TLC

Symmetry == Permutations(Readers)
====
