---------------------------- MODULE StatusEntry ----------------------------
(***************************************************************************)
(* The entry of one agent instance in its runtime status document, and     *)
(* what each writer makes of it.  The document is read, changed and        *)
(* replaced under a claim on its lock (InstanceLaunch), so a writer's      *)
(* change is a function of the entry it finds there.                       *)
(*                                                                         *)
(* A launch is a number, 0 before the first.  A reference is known by what *)
(* wrote it: the intent and the prepared reference name the container, the *)
(* bound one has its id.  A process id is in the entry exactly while the   *)
(* phase is "starting" or "running".                                       *)
(***************************************************************************)
EXTENDS Naturals

Refs == {"none", "intent", "prepared", "bound"}
Terminal == {"stopped", "failed"}
Active == {"preparing", "starting", "running"}
Reporting == {"starting", "running"}
Phases == {"none"} \cup Active \cup Terminal

\* An instance that was never launched.
NewEntry == [launch |-> 0, op |-> "none", ref |-> "none", phase |-> "none"]

\* A generation begins; what else the entry says is left as it is.
Begun(e, l) == [e EXCEPT !.launch = l, !.phase = "preparing"]

\* SandboxState.save: only the launch that owns the entry, and only while it
\* is not over, binds a resource.
Binds(e, l) == e.launch = l /\ e.phase \notin Terminal
WithRef(e, ref) == [e EXCEPT !.ref = ref]

\* Mutant: a launch that is over is patched like any other.
PatchesUnguarded(e, l, phase) == e.launch = l

\* patch_workload: fenced by the launch, and a launch that is over stays over.
Patches(e, l, phase) == e.launch = l /\ ~(e.phase \in Terminal /\ phase \in Active)
Patched(e, l, phase) == IF Patches(e, l, phase) THEN [e EXCEPT !.phase = phase] ELSE e

\* Mutant: only a launch that never reported is over with its reference.
OverIfPreparing(e) == IF e.phase = "preparing" THEN [e EXCEPT !.phase = "stopped"] ELSE e

Over(e) == IF e.phase \in Active THEN [e EXCEPT !.phase = "stopped"] ELSE e

\* Mutant: whatever reference the entry has is dropped.
ClearedAny(e, h) == Over(WithRef(e, "none"))

\* _clear_state: the reference that was released, of the launch it was of.
Cleared(e, h) ==
    IF e.launch = h.launch /\ e.ref = h.ref THEN Over(WithRef(e, "none")) ELSE e

\* finalize_runtime: the server that the entry names reports its own end.
Finalizes(e, l) == e.launch = l /\ e.phase \in Reporting
=============================================================================
