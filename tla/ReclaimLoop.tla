---- MODULE ReclaimLoop ----
(***************************************************************************)
(* CanonicalStream._reclaim, loop by loop.  It runs under the stream's     *)
(* lock; what it works on is a record of the frames, the floor and the     *)
(* positions of the readers still attached.  EventRing says in closed form *)
(* what it leaves; LoopsAgree compares the two.  A loop is the function of *)
(* the number of its turns.                                                *)
(***************************************************************************)
EXTENDS CanonicalStream

OverLimit(s) == Cardinality(s.frames) > Limit

ReadFloor(s, end) == IF s.readers = {} THEN end ELSE Least(s.readers)

First(s) == CHOOSE f \in s.frames : \A g \in s.frames : f.seq <= g.seq

PartsOf(frames, step) == {f.seq : f \in {g \in frames : g.kind = "part" /\ g.of = step}}

(* completed: the last Part of each finished step, as found at the call.   *)
Boundaries(frames) ==
    [step \in {e.of : e \in {e \in frames : e.kind = "end" /\ PartsOf(frames, e.of) # {}}} |->
        Greatest(PartsOf(frames, step))]

(* _compact(completed, read_floor) *)
Compact(s, completed, level) ==
    [s EXCEPT !.frames = {f \in @ :
        ~(f.kind = "part" /\ f.of \in DOMAIN completed /\ completed[f.of] <= level)}]

EvictFirst(s) == [s EXCEPT !.frames = @ \ {First(s)}, !.floor = First(s).seq]

BlockedAt(completed, level) == \E step \in DOMAIN completed : completed[step] > level

DropBlocked(s, completed, end) ==
    LET rest == {l \in s.readers : \A step \in DOMAIN completed :
                    completed[step] > ReadFloor(s, end) => l >= completed[step]}
        faster == [s EXCEPT !.readers = rest]
    IN  Compact(faster, completed, ReadFloor(faster, end))

(* The slowest readers overflow, and what the others have acquired goes.   *)
DropSlowest(s, completed, end) ==
    LET faster == [s EXCEPT !.readers = @ \ {ReadFloor(s, end)}]
    IN  Compact(faster, completed, ReadFloor(faster, end))

(* Every turn of a loop drops a frame or a reader, so it has ended by then. *)
MaxTurns(s) == Cardinality(s.frames) + Cardinality(s.readers)

(* A turn of the first loop: what is consumed goes, then the slowest       *)
(* readers do.  The loop has ended when a turn leaves all as it is.        *)
ConsumedTurn(s, completed, end) ==
    IF ~OverLimit(s) THEN s
    ELSE IF First(s).seq <= ReadFloor(s, end) THEN EvictFirst(s)
    ELSE IF BlockedAt(completed, ReadFloor(s, end)) THEN DropSlowest(s, completed, end)
    ELSE s

EvictConsumed(s, completed, end) ==
    LET after[n \in 0 .. MaxTurns(s)] ==
            IF n = 0 THEN s ELSE ConsumedTurn(after[n - 1], completed, end)
    IN  after[MaxTurns(s)]

(* Of the second: the oldest frame goes, and the readers that needed it.   *)
UnreadTurn(s) ==
    LET rest == EvictFirst(s)
    IN  IF OverLimit(s) THEN [rest EXCEPT !.readers = {l \in @ : l >= rest.floor}] ELSE s

EvictUnread(s) ==
    LET after[n \in 0 .. MaxTurns(s)] == IF n = 0 THEN s ELSE UnreadTurn(after[n - 1])
    IN  after[MaxTurns(s)]

Reclaim(s, end) ==
    LET completed == Boundaries(s.frames)
    IN  IF ~OverLimit(s) THEN s
        ELSE EvictUnread(EvictConsumed(Compact(s, completed, ReadFloor(s, end)), completed, end))

(* Frames of two steps, the newest just appended at end: a number is used  *)
(* once, and a step ends once, after its progress.                         *)
Labels == ({"part", "end"} \X {1, 2}) \cup {<<"other", 1>>}

WellFormed(F) ==
    \A e, f \in F : e.kind = "end" /\ f.of = e.of /\ f.kind # "other" /\ f # e =>
        f.kind = "part" /\ f.seq < e.seq

Calls(end) ==
    {F \in UNION {{{Frame(n, label[n][1], label[n][2]) : n \in S \cup {end}} :
                      label \in [S \cup {end} -> Labels]} : S \in SUBSET (1 .. end - 1)} :
        WellFormed(F)}

(* The loops leave the frames, the floor and the readers that the          *)
(* operators of EventRing name.                                            *)
AsLooped(frames, low, end, seqs) ==
    LET left == Reclaim([frames |-> frames, floor |-> low, readers |-> seqs], end)
    IN  /\ left.frames = Reclaimed(frames, end, seqs)
        /\ left.floor = RaisedFloor(frames, low, end, seqs)
        /\ left.readers = {l \in seqs : ~Overflows(frames, low, end, seqs, l)}

(* What the loops leave when frame has been appended.                      *)
Left(frame) ==
    Reclaim([frames |-> ring \cup {frame}, floor |-> floor, readers |-> Positions], frame.seq)

(* The closed form of the ring is what the loops compute (stream.py,       *)
(* _reclaim and _compact): on every call with four frames at most,         *)
(* whatever is in the ring and wherever the readers are, looked at once,   *)
(* before anything is published; and at every publication.                 *)
LoopsAgree ==
    /\ Init => \A frames \in Calls(4), seqs \in SUBSET (0 .. 3) : AsLooped(frames, 0, 4, seqs)
    /\ [][\A kind \in {"part", "end", "other"}, s \in Steps :
             LET frame == Frame(tail + 1, kind, s)
             IN  Append(frame) =>
                     /\ ring' = Left(frame).frames
                     /\ floor' = Left(frame).floor
                     /\ {seq[r] : r \in registered'} = Left(frame).readers]_vars

====
