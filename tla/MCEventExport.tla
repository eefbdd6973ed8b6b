---- MODULE MCEventExport ----
(* Instances of EventExport for TLC. *)
EXTENDS EventExport

Progress == {2}
====
