---- MODULE MCTalkLoop ----
(* Instances of TalkLoop for TLC. *)
EXTENDS TalkLoop

OneHub == {"h1"}
TwoHubs == {"h1", "h2"}
====
