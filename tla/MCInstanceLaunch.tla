---- MODULE MCInstanceLaunch ----
(* Instances of InstanceLaunch for TLC. *)
EXTENDS InstanceLaunch, TLC

\* Managers differ in nothing but their process, and the run asks no liveness.
Symmetry == Permutations(Managers)
====
