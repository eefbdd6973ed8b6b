---- MODULE MCRunControls ----
\* Instances of RunControls for TLC: which controls clients may submit.
EXTENDS RunControls

Immediate == Kinds \X {"immediate"}
Deferred == Kinds \X {"immediate", "next_step"}
Steers == {"steer"} \X Timings
AllRequests == Kinds \X Timings
====
