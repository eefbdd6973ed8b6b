---- MODULE CanonicalStream ----
(***************************************************************************)
(* The stream of one executor's events and its readers                     *)
(* (execution/stream.py).                                                  *)
(*                                                                         *)
(* Writers append frames under the stream's lock, in the transaction that  *)
(* makes them durable.  A reader is a position in the stream and a wakeup: *)
(* its coroutine scans batches under the lock and, with nothing to scan,   *)
(* clears its asyncio.Event and waits; writers ask the reader's loop to    *)
(* run _wake, which sets it.  One request is enough for any number of      *)
(* appends (scheduled).  A reader that is too slow is overflowed: dropped  *)
(* by the ring and told so at its next call.                               *)
(*                                                                         *)
(* Grain.  A section under the lock is one step, so are a callback of the  *)
(* loop and the return of a wait.  Readers match every frame, the budget   *)
(* of a batch counts frames, and a publication appends one frame.          *)
(***************************************************************************)
EXTENDS EventRing

CONSTANTS
    Readers,
    Steps,       \* steps whose progress is published
    BatchSize,   \* frames a reader scans at a time
    MaxTail,     \* bound: frames published
    None         \* no limit of a finished reader

ASSUME BatchAssumption == BatchSize \in Nat \ {0}
ASSUME TailAssumption == MaxTail \in Nat
ASSUME NoneAssumption == None \notin Nat

VARIABLES
    ring,        \* _events
    tail,
    floor,
    closed,      \* the stream's end
    ended,       \* steps whose end is published
    registered,  \* _readers
    connected,   \* readers the signal notifies
    seq,         \* position of each reader
    until,       \* finish(): drain up to here
    overflowed,
    shut,        \* the reader's _closed
    scheduled,   \* a _wake is on its way
    ready,       \* the reader's asyncio.Event
    pc           \* the reader's coroutine

stream == <<ring, tail, floor, closed, ended>>
membership == <<registered, connected, overflowed, shut>>
position == <<seq, until>>
wakeup == <<scheduled, ready>>
vars == <<stream, membership, position, wakeup, pc>>

Frame(n, kind, of) == [seq |-> n, kind |-> kind, of |-> of]

Frames == [seq : 1 .. MaxTail, kind : {"part", "end", "other"}, of : Steps]

(* "idle": not subscribed; "calling": about to enter receive's section;    *)
(* "waiting": in _ready.wait(); "handling": has a batch; "done", "lost",   *)
(* "cut": ended, overflowed, cancelled.                                    *)
Phases == {"idle", "calling", "waiting", "handling", "done", "lost", "cut"}

TypeOK ==
    /\ ring \subseteq Frames
    /\ tail \in 0 .. MaxTail
    /\ floor \in 0 .. tail
    /\ \A f \in ring : floor < f.seq /\ f.seq <= tail
    /\ \A f, g \in ring : f.seq = g.seq => f = g
    /\ closed \in BOOLEAN
    /\ ended \subseteq Steps
    /\ registered \subseteq Readers
    /\ connected \subseteq registered
    /\ seq \in [Readers -> 0 .. MaxTail]
    /\ until \in [Readers -> 0 .. MaxTail \cup {None}]
    /\ overflowed \subseteq Readers
    /\ shut \subseteq Readers
    /\ scheduled \subseteq Readers
    /\ ready \subseteq Readers
    /\ pc \in [Readers -> Phases]

Init ==
    /\ ring = {}
    /\ tail = 0
    /\ floor = 0
    /\ closed = FALSE
    /\ ended = {}
    /\ registered = {}
    /\ connected = {}
    /\ seq = [r \in Readers |-> 0]
    /\ until = [r \in Readers |-> None]
    /\ overflowed = {}
    /\ shut = {}
    /\ scheduled = {}
    /\ ready = {}
    /\ pc = [r \in Readers |-> "idle"]

Positions == {seq[r] : r \in registered}

(* _notify of each reader in R. *)
Notified(R) == scheduled \cup (R \ shut)

----------------------------------------------------------------------------
(* Writers *)

(* publication(): append, reclaim, overflow the readers that are too slow, *)
(* notify the others.                                                      *)
Append(frame) ==
    LET grown == ring \cup {frame}
        slow == {r \in registered :
                   Overflows(grown, floor, frame.seq, Positions, seq[r])}
    IN  /\ ~closed
        /\ tail < MaxTail
        /\ tail' = frame.seq
        /\ ring' = Reclaimed(grown, frame.seq, Positions)
        /\ floor' = RaisedFloor(grown, floor, frame.seq, Positions)
        /\ overflowed' = overflowed \cup slow
        /\ registered' = registered \ slow
        /\ connected' = connected \ slow
        /\ scheduled' = Notified(slow \cup connected)
        /\ UNCHANGED <<closed, shut, position, ready, pc>>

PublishPart(s) ==
    /\ s \notin ended
    /\ Append(Frame(tail + 1, "part", s))
    /\ UNCHANGED ended

PublishEnd(s) ==
    /\ s \notin ended
    /\ Append(Frame(tail + 1, "end", s))
    /\ ended' = ended \cup {s}

PublishOther(s) ==
    /\ Append(Frame(tail + 1, "other", s))
    /\ UNCHANGED ended

(* close(): the readers are woken and disconnected, and may still drain.   *)
CloseStream ==
    /\ ~closed
    /\ closed' = TRUE
    /\ scheduled' = Notified(connected)
    /\ connected' = {}
    /\ UNCHANGED <<ring, tail, floor, ended, registered, overflowed, shut, position, ready, pc>>

----------------------------------------------------------------------------
(* Readers *)

(* subscribe(after): a position below the floor is refused. *)
Subscribe(r, after) ==
    /\ pc[r] = "idle"
    /\ floor <= after /\ after <= tail
    /\ seq' = [seq EXCEPT ![r] = after]
    /\ registered' = registered \cup {r}
    /\ connected' = IF closed THEN connected ELSE connected \cup {r}
    /\ pc' = [pc EXCEPT ![r] = "calling"]
    /\ UNCHANGED <<stream, until, overflowed, shut, wakeup>>

Reached(r) == until[r] # None /\ seq[r] >= until[r]

ShutBeforeNotifying(r) ==
    /\ shut' = shut \cup {r}
    /\ connected' = connected \ {r}
    /\ registered' = registered \ {r}
    /\ UNCHANGED scheduled

(* The reader's close(): a last notification, then nothing reaches it. *)
Shut(r) ==
    /\ scheduled' = Notified({r})
    /\ shut' = shut \cup {r}
    /\ connected' = connected \ {r}
    /\ registered' = registered \ {r}

(* The frames of the next batch. *)
Scanned(r) ==
    LET open == {f \in Unread(ring, seq[r]) : until[r] = None \/ f.seq <= until[r]}
    IN  {f \in open : Cardinality({g \in open : g.seq < f.seq}) < BatchSize}

(* Where the reader is after it. *)
Advanced(r) ==
    IF Scanned(r) # {} THEN Greatest({f.seq : f \in Scanned(r)})
    ELSE IF until[r] = None THEN tail
    ELSE Least({tail, until[r]})

ReceiveOverflow(r) ==
    /\ pc[r] = "calling"
    /\ r \in overflowed
    /\ pc' = [pc EXCEPT ![r] = "lost"]
    /\ UNCHANGED <<stream, membership, position, wakeup>>

ReceiveEnd(r) ==
    /\ pc[r] = "calling"
    /\ r \notin overflowed
    /\ r \in shut \/ Reached(r) \/ (closed /\ seq[r] = tail)
    /\ Shut(r)
    /\ pc' = [pc EXCEPT ![r] = "done"]
    /\ UNCHANGED <<stream, overflowed, position, ready>>

ReceiveBatch(r) ==
    /\ pc[r] = "calling"
    /\ r \notin overflowed \cup shut
    /\ ~Reached(r)
    /\ seq[r] < tail
    /\ seq' = [seq EXCEPT ![r] = Advanced(r)]
    /\ pc' = [pc EXCEPT ![r] = "handling"]
    /\ IF until[r] # None /\ Advanced(r) >= until[r]
       THEN Shut(r)
       ELSE UNCHANGED <<scheduled, shut, connected, registered>>
    /\ UNCHANGED <<stream, overflowed, until, ready>>

ReceiveNothing(r) ==
    /\ pc[r] = "calling"
    /\ r \notin overflowed \cup shut
    /\ ~Reached(r)
    /\ seq[r] = tail
    /\ ~closed
    /\ ready' = ready \ {r}
    /\ pc' = [pc EXCEPT ![r] = "waiting"]
    /\ UNCHANGED <<stream, membership, position, scheduled>>

Receive(r) ==
    ReceiveOverflow(r) \/ ReceiveEnd(r) \/ ReceiveBatch(r) \/ ReceiveNothing(r)

(* _wake, on the reader's loop. *)
Wake(r) ==
    /\ r \in scheduled
    /\ scheduled' = scheduled \ {r}
    /\ ready' = ready \cup {r}
    /\ UNCHANGED <<stream, membership, position, pc>>

Resume(r) ==
    /\ pc[r] = "waiting"
    /\ r \in ready
    /\ pc' = [pc EXCEPT ![r] = "calling"]
    /\ UNCHANGED <<stream, membership, position, wakeup>>

(* The consumer is done with its batch and calls receive again. *)
Handled(r) ==
    /\ pc[r] = "handling"
    /\ pc' = [pc EXCEPT ![r] = "calling"]
    /\ UNCHANGED <<stream, membership, position, wakeup>>

(* finish(): the run is over, its observer drains what is there. *)
Finish(r) ==
    /\ pc[r] \in {"calling", "waiting", "handling"}
    /\ until[r] = None
    /\ r \notin shut
    /\ until' = [until EXCEPT ![r] = tail]
    /\ IF seq[r] >= tail
       THEN Shut(r) /\ UNCHANGED overflowed
       ELSE scheduled' = Notified({r}) /\ UNCHANGED membership
    /\ UNCHANGED <<stream, seq, ready, pc>>

(* The consumer is cancelled, by its own end or by the drain's deadline.   *)
Cancel(r) ==
    /\ pc[r] \in {"calling", "waiting", "handling"}
    /\ IF r \in shut
       THEN UNCHANGED <<scheduled, shut, connected, registered>>
       ELSE Shut(r)
    /\ pc' = [pc EXCEPT ![r] = "cut"]
    /\ UNCHANGED <<stream, overflowed, position, ready>>

----------------------------------------------------------------------------

Next ==
    \/ \E s \in Steps : PublishPart(s) \/ PublishEnd(s) \/ PublishOther(s)
    \/ CloseStream
    \/ \E r \in Readers :
          \/ \E after \in 0 .. tail : Subscribe(r, after)
          \/ Receive(r)
          \/ Wake(r)
          \/ Resume(r)
          \/ Handled(r)
          \/ Finish(r)
          \/ Cancel(r)

Spec == Init /\ [][Next]_vars

----------------------------------------------------------------------------
(* Properties *)

(* The ring keeps its limit, and a reader that is still registered has not *)
(* lost the place it would go on from (_reclaim's two loops).              *)
Retention ==
    /\ Cardinality(ring) <= Limit
    /\ \A r \in registered : floor <= seq[r]

(* Nothing leaves the ring before every reader that stays registered has   *)
(* acquired it: a reader sees each frame or is overflowed (_compact, and   *)
(* the readers _reclaim overflows at a blocked boundary).                  *)
UnreadIsKept ==
    [][\A f \in ring \ ring' : \A r \in registered' : f.seq <= seq[r]]_vars

(* What leaves the ring above the floor is progress of a step whose end is *)
(* still there: a reader that resumes at a retained position misses no     *)
(* structure (docs/design/events.md: finalized steps need no part replay). *)
RemovedIsFinal ==
    [][\A f \in ring \ ring' :
         f.seq > floor' => /\ f.kind = "part"
                           /\ \E e \in ring' : e.kind = "end" /\ e.of = f.of]_vars

(* A reader is overflowed only when more is retained for it than the ring  *)
(* may hold, the frame that is being appended included: one that keeps up  *)
(* is not dropped for the sake of slower ones.                             *)
OnlySlowOverflow ==
    [][\A r \in overflowed' \ overflowed :
         Cardinality(Unread(ring, seq[r])) >= Limit]_vars

(* What a registered reader, or one that resumes, loses to the bound is    *)
(* nothing it needs, and whoever is dropped for it was too slow.           *)
LossIsEarned == UnreadIsKept /\ RemovedIsFinal /\ OnlySlowOverflow

(* A reader that ended without an error has acquired everything: up to the *)
(* run's end if it was finished, or up to the end of the stream.           *)
DoneIsComplete ==
    \A r \in Readers : pc[r] = "done" =>
        IF until[r] = None THEN closed /\ seq[r] = tail ELSE seq[r] >= until[r]

Wanted(r) ==
    r \in overflowed \cup shut \/ Reached(r) \/ seq[r] < tail \/ closed

(* A waiting reader for which there is something to do has been woken, or  *)
(* its wakeup is on its way: none is lost between the check under the lock *)
(* and the wait outside it, because an earlier one is still on its way, or *)
(* in a close, a finish or an overflow.                                    *)
NoLostWakeup ==
    \A r \in Readers :
        pc[r] = "waiting" /\ Wanted(r) => r \in scheduled \cup ready

(* Whoever is done has everything, whoever waits is woken for the rest.    *)
ReadersAreServed == DoneIsComplete /\ NoLostWakeup

====
