---- MODULE EventOutbox ----
(***************************************************************************)
(* What the hub promises of the events of an agent, whatever is lost,      *)
(* repeated, late or restarted between the two                             *)
(* (teaming/backend/valkey/event_scripts.py, teaming/exporter.py): what it *)
(* shows is the structure of the events up to a position, which the agent  *)
(* has reached; while it says the agent is complete the position moves     *)
(* event by event; and it never goes back, unless the hub loses its data.  *)
(***************************************************************************)
EXTENDS Naturals

CONSTANT Parts \* positions of progress events, which are not shown

VARIABLES
    emitted,    \* events that execution has made durable
    dataset,    \* how often the hub has lost its data
    whole,      \* whether the hub says that nothing up to the position is missing
    upto,       \* the position
    shown       \* the events whose effect the hub shows

Init == emitted = 0 /\ dataset = 0 /\ whole = FALSE /\ upto = 0 /\ shown = {}

Emit ==
    /\ emitted' = emitted + 1
    /\ UNCHANGED <<dataset, whole, upto, shown>>

Extend ==
    /\ whole /\ upto < emitted
    /\ upto' = upto + 1
    /\ shown' = shown \cup ({upto + 1} \ Parts)
    /\ UNCHANGED <<emitted, dataset, whole>>

Interrupt ==
    /\ whole /\ whole' = FALSE
    /\ UNCHANGED <<emitted, dataset, upto, shown>>

Replace ==
    /\ ~whole /\ whole' = TRUE
    /\ upto' \in upto .. emitted
    /\ shown' = 1 .. upto' \ Parts
    /\ UNCHANGED <<emitted, dataset>>

Lose ==
    /\ dataset' = dataset + 1
    /\ whole' = FALSE /\ upto' = 0 /\ shown' = {}
    /\ UNCHANGED emitted

Next == Emit \/ Extend \/ Interrupt \/ Replace \/ Lose

Spec == Init /\ [][Next]_<<emitted, dataset, whole, upto, shown>>
====
