---- MODULE LaunchContract ----
(***************************************************************************)
(* What the status entry of an agent promises of its launches, whoever     *)
(* manages the agent and whoever of them is killed                         *)
(* (docs/design/hosting.md): one launch follows another, and begins only   *)
(* when nothing of the one before is left and it has been reported over;   *)
(* a launch is referred to before its container can be asked for, and      *)
(* until nothing of it is left or can come; its container is asked for     *)
(* once; it reports while its container is there, and is over once.        *)
(***************************************************************************)
EXTENDS Naturals

VARIABLES
    launch,     \* the launch, 0 before the first
    life,       \* what there is of it: "begun", "coming", "there", "gone"
    report,     \* what the entry says of it: "begun", "serving", "over"
    known       \* whether the entry refers to what there may be

Init == launch = 0 /\ life = "gone" /\ report = "over" /\ known = FALSE

Begin ==
    /\ life = "gone" /\ report = "over" /\ ~known
    /\ launch' = launch + 1 /\ life' = "begun" /\ report' = "begun"
    /\ UNCHANGED known

Refer ==
    /\ life = "begun" /\ report = "begun" /\ ~known
    /\ known' = TRUE
    /\ UNCHANGED <<launch, life, report>>

Ask ==
    /\ life = "begun" /\ report = "begun" /\ known
    /\ life' = "coming"
    /\ UNCHANGED <<launch, report, known>>

Create ==
    /\ life = "coming" /\ life' = "there"
    /\ UNCHANGED <<launch, report, known>>

\* A launch that is given up, whose container is not created, or is gone.
Vanish ==
    /\ life # "gone" /\ life' = "gone"
    /\ UNCHANGED <<launch, report, known>>

Report ==
    /\ life = "there" /\ report = "begun" /\ report' = "serving"
    /\ UNCHANGED <<launch, life, known>>

End ==
    /\ report # "over" /\ report' = "over"
    /\ UNCHANGED <<launch, life, known>>

Forget ==
    /\ life = "gone" /\ known
    /\ known' = FALSE /\ report' = "over"
    /\ UNCHANGED <<launch, life>>

Next == Begin \/ Refer \/ Ask \/ Create \/ Vanish \/ Report \/ End \/ Forget

Spec == Init /\ [][Next]_<<launch, life, report, known>>
====
