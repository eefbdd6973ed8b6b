---- MODULE MCChores ----
(* Instances of Chores for TLC. *)
EXTENDS Chores

\* Work at every tick, and one-offs.
Mixed == {{}, {0, 1, 2, 3}}
====
