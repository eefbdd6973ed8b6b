---- MODULE EventRing ----
(***************************************************************************)
(* What the canonical stream of execution events keeps                     *)
(* (execution/stream.py).                                                  *)
(*                                                                         *)
(* A frame has a sequence number and is a "part" of a step's progress, the *)
(* "end" of a step, or any other event.  When the frames outgrow Limit,    *)
(* _reclaim drops the progress of finished steps that every reader has     *)
(* acquired, then what every reader has acquired, and then overflows the   *)
(* slowest readers.  Its loops (module ReclaimLoop) go up the positions of *)
(* the readers; the operators below say where they stop and what is left.  *)
(* A frame counts one: the budget in bytes is left out.                    *)
(***************************************************************************)
EXTENDS Naturals, FiniteSets

CONSTANT Limit  \* frames retained

ASSUME LimitAssumption == Limit \in Nat \ {0}

(* The greatest and the least element of a finite set of numbers. *)
Greatest(S) == CHOOSE x \in S : \A y \in S : y <= x
Least(S) == CHOOSE x \in S : \A y \in S : x <= y

FinishedEarly(frames, frame) == frame.kind = "part"

(* frame belongs to the progress of a step whose end is in frames. *)
Finished(frames, frame) ==
    /\ frame.kind = "part"
    /\ \E end \in frames : end.kind = "end" /\ end.of = frame.of

(* A reader at level has acquired the whole progress of frame's step. *)
Disposable(frames, frame, level) ==
    /\ Finished(frames, frame)
    /\ \A other \in frames :
          other.kind = "part" /\ other.of = frame.of => other.seq <= level

Compacted(frames, level) == {f \in frames : ~Disposable(frames, f, level)}

Unread(frames, level) == {f \in frames : f.seq > level}

(* The n newest frames. *)
Newest(frames, n) ==
    {f \in frames : Cardinality(Unread(frames, f.seq)) < n}

(* All a reader at level has not read can be kept. *)
Fits(frames, level) == Cardinality(Unread(Compacted(frames, level), level)) <= Limit

(* A reader at level keeps the progress of a finished step alive. *)
Blocked(frames, level) ==
    \E f \in Unread(frames, level) : Finished(frames, f)

(* _reclaim stops at the first reader it need not overflow, or at the tail *)
(* when no reader is left.                                                 *)
StopLevel(frames, tail, seqs) ==
    Least({l \in seqs \cup {tail} : Fits(frames, l) \/ ~Blocked(frames, l)})

(* The readers it passes on the way, for each of which it has dropped all  *)
(* that the reader had acquired.                                           *)
Passed(frames, tail, seqs) == {l \in seqs : l < StopLevel(frames, tail, seqs)}

Reclaimed(frames, tail, seqs) ==
    IF Cardinality(frames) <= Limit
    THEN frames
    ELSE Newest({f \in Compacted(frames, StopLevel(frames, tail, seqs)) :
                   \A l \in Passed(frames, tail, seqs) : f.seq > l}, Limit)

(* Dropped frames that were not compacted away move the floor. *)
Evicted(frames, tail, seqs) ==
    {f \in frames \ Reclaimed(frames, tail, seqs) :
       \/ ~Disposable(frames, f, StopLevel(frames, tail, seqs))
       \/ \E l \in Passed(frames, tail, seqs) :
             f.seq <= l /\ ~Disposable(frames, f, l)}

RaisedFloor(frames, floor, tail, seqs) ==
    Greatest({floor} \cup {f.seq : f \in Evicted(frames, tail, seqs)})

OverflowsPassed(frames, floor, tail, seqs, seq) ==
    /\ Cardinality(frames) > Limit
    /\ seq < StopLevel(frames, tail, seqs)

(* A reader that is passed, or is left below the floor, is told so. *)
Overflows(frames, floor, tail, seqs, seq) ==
    /\ Cardinality(frames) > Limit
    /\ \/ seq < StopLevel(frames, tail, seqs)
       \/ seq < RaisedFloor(frames, floor, tail, seqs)

====
