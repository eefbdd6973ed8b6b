---- MODULE ControlContract ----
(***************************************************************************)
(* What the controls of one run promise to whoever submits them, whatever  *)
(* process looks (docs/design/execution.md, Run Controls): a control is    *)
(* accepted while the run is open and settles once; it may be withdrawn    *)
(* until the runtime holds it; only held controls take effect while the    *)
(* run goes on; the run closes once, with at most one control as its       *)
(* cause, and closing answers every control that is left.                  *)
(***************************************************************************)
EXTENDS Naturals

CONSTANT Controls

VARIABLES open, status, held

Unsettled == {c \in Controls : status[c] = "pending"}

Init ==
    /\ open = TRUE
    /\ status = [c \in Controls |-> "none"]
    /\ held = {}

Submit(c) ==
    /\ open /\ status[c] = "none"
    /\ status' = [status EXCEPT ![c] = "pending"]
    /\ UNCHANGED <<open, held>>

Withdraw(c) ==
    /\ c \in Unsettled \ held
    /\ status' = [status EXCEPT ![c] = "revoked"]
    /\ UNCHANGED <<open, held>>

Hold(S) ==
    /\ open /\ S \subseteq Unsettled
    /\ held' = held \cup S
    /\ UNCHANGED <<open, status>>

Apply(S) ==
    /\ open /\ S \subseteq Unsettled \cap held
    /\ status' = [c \in Controls |-> IF c \in S THEN "applied" ELSE status[c]]
    /\ UNCHANGED <<open, held>>

\* cause is the control that ended the run, or none of them.
Close(cause) ==
    /\ open /\ open' = FALSE
    /\ status' = [c \in Controls |->
            IF c \notin Unsettled THEN status[c]
            ELSE IF c = cause THEN "applied" ELSE "wontapply"]
    /\ UNCHANGED held

Next ==
    \/ \E c \in Controls : Submit(c) \/ Withdraw(c)
    \/ \E S \in SUBSET Controls : Hold(S) \/ Apply(S)
    \/ \E cause \in Controls \cup {0} : Close(cause)

Spec == Init /\ [][Next]_<<open, status, held>>
====
