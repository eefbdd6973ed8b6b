---- MODULE MCSubscriptions ----
EXTENDS Subscriptions

Symmetry == Permutations(Runs)
====
