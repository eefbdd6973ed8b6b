---- MODULE Subscriptions ----
(***************************************************************************)
(* An HTTP subscriber of an agent's events: attachment, replay or          *)
(* reconstruction, live suffix, and the client's reducer                   *)
(* (execution/subscriptions.py, observation.py, stream_client.py,          *)
(* remote.py).                                                             *)
(*                                                                         *)
(* The events of a run are durable facts, committed with their cursors in  *)
(* the transaction that publishes them, and progress, which only the       *)
(* stream has.  A cursor is an epoch, one per process, and a position.     *)
(* The server captures the stream's boundary and the records in one        *)
(* section under the stream's lock; from them a worker builds the prefix:  *)
(* the cached frames with the context they need, or a replacement of whole *)
(* trees.  The client commits a replacement at its checkpoint, and         *)
(* reconnects from its last cursor.                                        *)
(*                                                                         *)
(* Grain.  A publication, an attachment and a frame given to the client    *)
(* are one step each: what a lost connection had on its way counts as not  *)
(* sent.  What the ring drops is left open within the guarantees of module *)
(* CanonicalStream: the oldest frame moves the floor, and the progress of  *)
(* a finished step goes when the reader has acquired all of it.            *)
(***************************************************************************)
EXTENDS Naturals, FiniteSets, SequencesExt

CONSTANTS
    Runs,       \* root runs; each has at most one step
    Agent,      \* the scope of all runs
    BatchSize,  \* frames scanned at a time
    MaxTail,    \* bound: frames published by a process
    MaxParts,   \* bound: parts of a step
    MaxEpochs,  \* bound: processes, one after the other
    MaxCuts     \* bound: lost connections

ASSUME ScopeAssumption == Agent \notin Runs
ASSUME BoundsAssumption ==
    /\ BatchSize \in Nat \ {0} /\ MaxTail \in Nat /\ MaxParts \in Nat
    /\ MaxEpochs \in Nat \ {0} /\ MaxCuts \in Nat

VARIABLES
    epoch, tail, floor, ring,  \* the stream
    accepted,    \* runs in the records
    alive,       \* runs this process executes
    at,          \* the cursor of each durable fact
    parts,       \* progress published of each run's step
    link,        \* the connection
    reader,      \* its position in the stream
    lost,        \* its reader is overflowed
    prefix, batch,  \* what is to be sent
    mark,        \* where the last batch ended
    active,      \* runs it knows as open
    suppressed,  \* runs whose step it joined in the middle
    cursor,      \* the client's committed position
    view,        \* the structure the client shows
    staged,      \* the replacement it is receiving: none, or one view
    heard,       \* the last part it was shown of each run's step
    missed,      \* history: runs that had ended before it came
    cuts,
    followed     \* the client's scope, chosen once: a run, or Agent

source == <<epoch, tail, floor, ring>>
records == <<accepted, alive, at, parts>>
server == <<link, reader, lost, prefix, batch, mark, active, suppressed>>
client == <<cursor, view, staged, heard>>
vars == <<source, records, server, client, missed, cuts, followed>>

Cursor(e, n) == [e |-> e, n |-> n]
NoCursor == Cursor(0, 0)
Cursors == {NoCursor} \cup [e : 1 .. MaxEpochs, n : 0 .. MaxTail]

Facts == {"run_begin", "step_begin", "step_end", "run_end"} \X Runs

(* Whom the scope matches. *)
InScope == IF followed = Agent THEN Runs ELSE {followed}

Happened(what, r) == at[<<what, r>>] # NoCursor
Ended == {r \in accepted : Happened("run_end", r)}
OpenSteps == {r \in accepted : Happened("step_begin", r) /\ ~Happened("step_end", r)}

Here == Cursor(epoch, tail)
Registered == link \in {"reserved", "open"} /\ ~lost

TypeOK ==
    /\ epoch \in 1 .. MaxEpochs
    /\ tail \in 0 .. MaxTail
    /\ floor \in 0 .. tail
    /\ \A f \in ring : f.n \in floor + 1 .. tail /\ f.of \in accepted
    /\ accepted \subseteq Runs
    /\ alive \subseteq accepted \ Ended
    /\ at \in [Facts -> Cursors]
    /\ parts \in [Runs -> 0 .. MaxParts]
    /\ link \in {"off", "reserved", "open", "over"}
    /\ reader \in 0 .. tail
    /\ lost \in BOOLEAN
    /\ \A f \in ToSet(batch) : f.n <= reader /\ f.of \in InScope
    /\ mark \in 0 .. reader
    /\ active \subseteq InScope
    /\ suppressed \subseteq InScope
    /\ cursor \in Cursors
    /\ \A k \in DOMAIN view : k \in Facts /\ view[k] \in {NoCursor, at[k]}
    /\ heard \in [Runs -> 0 .. MaxParts]
    /\ missed \subseteq Runs
    /\ cuts \in 0 .. MaxCuts
    /\ followed \in Runs \cup {Agent}

Init ==
    /\ epoch = 1 /\ tail = 0 /\ floor = 0 /\ ring = {}
    /\ accepted = {} /\ alive = {}
    /\ at = [k \in Facts |-> NoCursor]
    /\ parts = [r \in Runs |-> 0]
    /\ link = "off" /\ reader = 0 /\ lost = FALSE
    /\ prefix = <<>> /\ batch = <<>> /\ mark = 0
    /\ active = {} /\ suppressed = {}
    /\ cursor = NoCursor /\ view = <<>> /\ staged = <<>>
    /\ heard = [r \in Runs |-> 0]
    /\ missed = {} /\ cuts = 0
    /\ followed \in Runs \cup {Agent}

----------------------------------------------------------------------------
(* The process: records and stream *)

Frame(n, what, r, part) == [n |-> n, what |-> what, of |-> r, part |-> part]

Publish(what, r, part) ==
    /\ r \in alive
    /\ tail < MaxTail
    /\ tail' = tail + 1
    /\ ring' = ring \cup {Frame(tail + 1, what, r, part)}
    /\ at' = IF what = "part" THEN at
             ELSE [at EXCEPT ![<<what, r>>] = Cursor(epoch, tail + 1)]
    /\ UNCHANGED <<epoch, floor, accepted, server, client, missed, cuts, followed>>

(* Another client's run: the row alone, nothing is published. *)
AcceptRun(r) ==
    /\ r \notin accepted
    /\ r # followed
    /\ accepted' = accepted \cup {r}
    /\ alive' = alive \cup {r}
    /\ UNCHANGED <<source, at, parts, server, client, missed, cuts, followed>>

BeginRun(r) ==
    /\ ~Happened("run_begin", r)
    /\ Publish("run_begin", r, 0)
    /\ UNCHANGED <<alive, parts>>

BeginStep(r) ==
    /\ Happened("run_begin", r)
    /\ ~Happened("step_begin", r)
    /\ Publish("step_begin", r, 0)
    /\ UNCHANGED <<alive, parts>>

Emit(r) ==
    /\ r \in OpenSteps
    /\ parts[r] < MaxParts
    /\ Publish("part", r, parts[r] + 1)
    /\ parts' = [parts EXCEPT ![r] = @ + 1]
    /\ UNCHANGED alive

FinishStep(r) ==
    /\ r \in OpenSteps
    /\ Publish("step_end", r, 0)
    /\ UNCHANGED <<alive, parts>>

(* Also of a run that is cancelled, or fails, before it begins. *)
FinishRun(r) ==
    /\ r \notin OpenSteps
    /\ Publish("run_end", r, 0)
    /\ alive' = alive \ {r}
    /\ UNCHANGED parts

(* What _reclaim may do. *)
Evict ==
    /\ \E f \in ring :
          /\ \A g \in ring : f.n <= g.n
          /\ ring' = ring \ {f}
          /\ floor' = f.n
          /\ lost' = (lost \/ (Registered /\ reader < f.n))
    /\ UNCHANGED <<epoch, tail, records, link, reader, prefix, batch, mark,
                   active, suppressed, client, missed, cuts, followed>>

Progress(r) == {f \in ring : f.what = "part" /\ f.of = r}

Compact(r) ==
    /\ \E f \in ring : f.what = "step_end" /\ f.of = r
    /\ Progress(r) # {}
    /\ Registered => \A f \in Progress(r) : f.n <= reader
    /\ ring' = ring \ Progress(r)
    /\ UNCHANGED <<epoch, tail, floor, records, server, client, missed, cuts, followed>>

Overflow ==
    /\ Registered
    /\ reader < tail
    /\ lost' = TRUE
    /\ UNCHANGED <<source, records, link, reader, prefix, batch, mark, active,
                   suppressed, client, missed, cuts, followed>>

----------------------------------------------------------------------------
(* What the server sends *)

Prefill(roots) == [type |-> "prefill", at |-> Here, roots |-> roots]
Context(k) == [type |-> "context", key |-> k, at |-> at[k]]
Source(f) == [type |-> "source", frame |-> f, at |-> Cursor(epoch, f.n)]
Checkpoint(n) == [type |-> "checkpoint", at |-> Cursor(epoch, n)]

(* The members of S in the order of their places, which differ. *)
InOrder(S, place) ==
    [i \in 1 .. Cardinality(S) |->
       CHOOSE x \in S : Cardinality({y \in S : place[y] < place[x]}) = i - 1]

(* Frames in the order of the stream. *)
Ordered(frames) == InOrder(frames, [f \in frames |-> f.n])

SameEpoch == cursor.e = epoch

(* Mutant: the frame next to the cursor need not be there. *)
CachedLate == SameEpoch /\ floor <= cursor.n + 1

Cached == SameEpoch /\ floor <= cursor.n

Cache == {f \in ring : f.of \in InScope /\ cursor.n < f.n}

(* stream_records: the trees that are open, or have changed after the      *)
(* cursor; all of the scope when the cursor is of another process, or the  *)
(* scope is a run.                                                         *)
ChangedAfter(r) ==
    \E k \in Facts : k[2] = r /\ at[k].e = epoch /\ at[k].n > cursor.n

Selected ==
    {r \in accepted \cap InScope :
       \/ followed # Agent
       \/ cursor # NoCursor /\ ~SameEpoch
       \/ r \notin Ended
       \/ SameEpoch /\ ChangedAfter(r)}

(* structural(): what the records say of the trees in R, one after the     *)
(* other.                                                                  *)
Rank(k) ==
    CASE k[1] = "run_begin" -> 0 [] k[1] = "step_begin" -> 1 [] k[1] = "step_end" -> 2
      [] OTHER -> 3

Recorded(R) == {k \in Facts : k[2] \in R /\ (k[1] = "run_begin" \/ Happened(k[1], k[2]))}

TreeOrder(R) == CHOOSE t \in [R -> 1 .. Cardinality(R)] : IsInjective(t)

Contexts(keys) == [i \in DOMAIN keys |-> Context(keys[i])]

Structure(R) ==
    Contexts(InOrder(Recorded(R),
                     [k \in Recorded(R) |-> 4 * TreeOrder(R)[k[2]] + Rank(k)]))

(* ancestors(): what has to be known before a frame. *)
Ancestors(f) ==
    CASE f.what = "run_begin" -> {}
      [] f.what \in {"step_begin", "run_end"} -> {<<"run_begin", f.of>>}
      [] OTHER -> {<<"run_begin", f.of>>, <<"step_begin", f.of>>}

(* Progress of a step that has ended is not replayed. *)
Replayable == {f \in Cache : f.what = "part" => ~Happened("step_end", f.of)}

(* A frame whose ancestor has no cursor, or a later one, is not replayed:  *)
(* the records replace the tree.                                           *)
Gap ==
    \E f \in Replayable : \E k \in Ancestors(f) :
       at[k].e # epoch \/ at[k].n > f.n

(* Mutant: whatever is cached is replayed. *)
JoinedNowhere(r) == FALSE

JoinedMidway(r) == r \in OpenSteps /\ ~\E f \in Cache : f.what = "step_begin" /\ f.of = r

(* replay(): each frame, but the progress of steps that were open before   *)
(* the cursor; a Begin that is not among the frames comes before the first *)
(* that needs it, and at the end the others of what is open.               *)
Replayed == {f \in Replayable : f.what # "part" \/ ~JoinedMidway(f.of)}

Needing(k) == {f \in Replayable : k \in Ancestors(f)}

Lacking(k) == ~\E f \in Replayable : <<f.what, f.of>> = k

Inserted == {k \in Facts : Lacking(k) /\ Needing(k) # {}}

Burst == {Source(f) : f \in Replayed} \cup {Context(k) : k \in Inserted}

BurstPlace(x) ==
    IF x.type = "source" THEN 3 * x.frame.n + 2
    ELSE LET first == CHOOSE f \in Needing(x.key) : \A g \in Needing(x.key) : f.n <= g.n
         IN  3 * first.n + Rank(x.key)

Remaining(what, R) ==
    Contexts(SetToSeq({k \in {what} \X R : Lacking(k) /\ Needing(k) = {}}))

Replay ==
    InOrder(Burst, [x \in Burst |-> BurstPlace(x)])
      \o Remaining("run_begin", Selected \ Ended)
      \o Remaining("step_begin", Selected \cap OpenSteps)

Replacement ==
    <<Prefill(IF cursor # NoCursor /\ ~SameEpoch THEN {Agent} ELSE Selected)>>
       \o Structure(Selected)

(* reserve(): a reader of its own, before the request is admitted. *)
Reserve ==
    /\ link = "off"
    /\ link' = "reserved"
    /\ reader' = tail
    /\ lost' = FALSE
    /\ UNCHANGED <<source, records, prefix, batch, mark, active, suppressed,
                   client, missed, cuts, followed>>

(* attach() to what is there: boundary, records and reader at one moment.  *)
Attach ==
    /\ link = "reserved"
    /\ followed \in accepted \cup {Agent}
    /\ link' = "open"
    /\ reader' = tail
    /\ lost' = FALSE
    /\ prefix' = (IF Cached /\ ~Gap THEN Replay ELSE Replacement) \o <<Checkpoint(tail)>>
    /\ active' = Selected \ Ended
    /\ suppressed' = IF Cached /\ ~Gap THEN {r \in Selected : JoinedMidway(r)}
                     ELSE Selected \cap OpenSteps
    /\ mark' = 0
    /\ missed' = IF cursor = NoCursor /\ followed = Agent THEN Ended ELSE missed
    /\ UNCHANGED <<source, records, batch, client, cuts, followed>>

(* A new run: admission and attach(start = "new") in one turn of the loop. *)
AttachNew ==
    /\ link = "reserved"
    /\ followed \in Runs \ accepted
    /\ accepted' = accepted \cup {followed}
    /\ alive' = alive \cup {followed}
    /\ link' = "open"
    /\ reader' = tail
    /\ prefix' = <<>>
    /\ active' = {followed}
    /\ suppressed' = {}
    /\ mark' = 0
    /\ UNCHANGED <<source, at, parts, lost, batch, client, missed, cuts, followed>>

----------------------------------------------------------------------------
(* What the client does with a frame *)

EndOf(k) == <<IF k[1] = "run_begin" THEN "run_end" ELSE "step_end", k[2]>>

(* _apply: an older fact changes nothing, a Begin with another cursor      *)
(* starts the entity over.                                                 *)
Applied(v, k, c) ==
    LET known == k \in DOMAIN v
        over == /\ known /\ k[1] \in {"run_begin", "step_begin"}
                /\ c # NoCursor /\ c # v[k]
    IN  IF known /\ c.e = v[k].e /\ c.n < v[k].n THEN v
        ELSE [j \in {k} \cup (DOMAIN v \ (IF over THEN {EndOf(k)} ELSE {})) |->
                IF j = k THEN c ELSE v[j]]

(* _replace: the trees that are replaced are taken from what is shown. *)
Replaced(roots) ==
    LET gone == {k \in DOMAIN view :
                   k[2] \in roots \/ (Agent \in roots /\ <<"run_begin", k[2]>> \in DOMAIN view)}
    IN  [k \in DOMAIN view \ gone |-> view[k]]

(* The candidate is kept instead of the frames it is made of: until the    *)
(* checkpoint nothing else changes what is shown.                          *)
FeedReplacement(item) ==
    \/ /\ item.type = "prefill"
       /\ staged' = <<Replaced(item.roots)>>
       /\ UNCHANGED <<cursor, view, heard>>
    \/ /\ item.type = "context" /\ staged # <<>>
       /\ staged' = <<Applied(Head(staged), item.key, item.at)>>
       /\ UNCHANGED <<cursor, view, heard>>
    \/ /\ item.type = "checkpoint"
       /\ cursor' = item.at
       /\ view' = IF staged = <<>> THEN view ELSE Head(staged)
       /\ staged' = <<>>
       /\ UNCHANGED heard

FeedEvent(item) ==
    \/ /\ item.type = "context" /\ staged = <<>>
       /\ view' = Applied(view, item.key, item.at)
       /\ UNCHANGED <<cursor, staged, heard>>
    \/ /\ item.type = "source"
       /\ IF item.at.e = cursor.e /\ item.at.n <= cursor.n
          THEN UNCHANGED client
          ELSE LET f == item.frame
               IN  /\ cursor' = item.at
                   /\ heard' = IF f.what = "part" THEN [heard EXCEPT ![f.of] = f.part] ELSE heard
                   /\ view' = IF f.what = "part" THEN view
                              ELSE Applied(view, <<f.what, f.of>>, item.at)
                   /\ UNCHANGED staged

Feed(item) == FeedReplacement(item) \/ FeedEvent(item)

(* attach(): an unfinished replacement and unfinished parts are forgotten. *)
Dropped ==
    /\ link' = "off"
    /\ prefix' = <<>> /\ batch' = <<>>
    /\ staged' = <<>>
    /\ heard' = [r \in Runs |-> 0]

----------------------------------------------------------------------------
(* Delivery *)

SendPrefix ==
    /\ link = "open" /\ ~lost
    /\ prefix # <<>>
    /\ Feed(Head(prefix))
    /\ prefix' = Tail(prefix)
    /\ UNCHANGED <<source, records, link, reader, lost, batch, mark, active,
                   suppressed, missed, cuts, followed>>

Unread == {f \in ring : f.n > reader}

(* Mutant: what is retained and unread is not looked at. *)
ThroughEarly == followed # Agent /\ followed \notin alive

(* The root scope ends when its runs have and nothing of it is unread. *)
Through ==
    /\ followed # Agent
    /\ active = {}
    /\ \A f \in Unread : f.of \notin InScope

Acquire ==
    /\ link = "open" /\ ~lost
    /\ prefix = <<>> /\ batch = <<>>
    /\ ~Through
    /\ reader < tail
    /\ LET scanned == {f \in Unread : Cardinality({g \in Unread : g.n < f.n}) < BatchSize}
       IN  /\ reader' = IF scanned = {} THEN tail
                        ELSE CHOOSE n \in 1 .. tail :
                               /\ \E f \in scanned : f.n = n
                               /\ \A f \in scanned : f.n <= n
           /\ batch' = Ordered({f \in scanned : f.of \in InScope})
    /\ mark' = reader'
    /\ UNCHANGED <<source, records, link, lost, prefix, active, suppressed,
                   client, missed, cuts, followed>>

(* advance() and the frame, unless its step was joined in the middle. *)
Send ==
    /\ link = "open" /\ ~lost
    /\ prefix = <<>> /\ batch # <<>>
    /\ LET f == Head(batch)
       IN  /\ active' = CASE f.what = "run_begin" -> active \cup {f.of}
                          [] f.what = "run_end" -> active \ {f.of}
                          [] OTHER -> active
           /\ suppressed' = IF f.what \in {"step_begin", "step_end"}
                            THEN suppressed \ {f.of} ELSE suppressed
           /\ IF f.what = "part" /\ f.of \in suppressed
              THEN UNCHANGED client
              ELSE Feed(Source(f))
    /\ batch' = Tail(batch)
    /\ UNCHANGED <<source, records, link, reader, lost, prefix, mark, missed, cuts, followed>>

(* checkpoint(): everything acquired is sent, so the client may pass what  *)
(* was filtered.                                                           *)
Due == batch = <<>> /\ mark # 0 /\ (cursor = NoCursor \/ mark > cursor.n)

SendCheckpoint ==
    /\ link = "open"
    /\ prefix = <<>>
    /\ Due
    /\ Feed(Checkpoint(mark))
    /\ UNCHANGED <<source, records, server, missed, cuts, followed>>

EndStream ==
    /\ link = "open" /\ ~lost
    /\ prefix = <<>> /\ batch = <<>>
    /\ Through
    /\ IF Due THEN Feed(Checkpoint(mark)) ELSE UNCHANGED client
    /\ link' = "over"
    /\ UNCHANGED <<source, records, reader, lost, prefix, batch, mark, active,
                   suppressed, missed, cuts, followed>>

(* Mutant: the client takes it for the end of the stream. *)
SendOverflowAsEnd ==
    /\ link = "open" /\ lost
    /\ link' = "over" /\ prefix' = <<>> /\ batch' = <<>> /\ staged' = <<>>
    /\ UNCHANGED heard
    /\ UNCHANGED <<source, records, reader, lost, mark, active, suppressed,
                   cursor, view, missed, cuts, followed>>

(* stream_error: the client reconnects. *)
SendOverflow ==
    /\ link = "open" /\ lost
    /\ Dropped
    /\ UNCHANGED <<source, records, reader, lost, mark, active, suppressed,
                   cursor, view, missed, cuts, followed>>

(* A lost connection, an expired snapshot, a client that goes away. *)
Disconnect ==
    /\ link \in {"reserved", "open"}
    /\ cuts < MaxCuts
    /\ cuts' = cuts + 1
    /\ Dropped
    /\ UNCHANGED <<source, records, reader, lost, mark, active, suppressed,
                   cursor, view, missed, followed>>

(* The process dies; its runs stay as they are in the records. *)
Restart ==
    /\ epoch < MaxEpochs
    /\ epoch' = epoch + 1
    /\ tail' = 0 /\ floor' = 0 /\ ring' = {}
    /\ alive' = {}
    /\ reader' = 0 /\ mark' = 0
    /\ IF link = "over" THEN UNCHANGED <<link, prefix, batch, staged, heard>> ELSE Dropped
    /\ UNCHANGED <<accepted, at, parts, lost, active, suppressed, cursor, view,
                   missed, cuts, followed>>

----------------------------------------------------------------------------

Serve ==
    \/ Reserve \/ Attach \/ AttachNew \/ SendPrefix \/ Acquire \/ Send
    \/ EndStream \/ SendOverflow

Next ==
    \/ \E r \in Runs :
          \/ AcceptRun(r) \/ BeginRun(r) \/ BeginStep(r) \/ Emit(r)
          \/ FinishStep(r) \/ FinishRun(r) \/ Compact(r)
    \/ Evict
    \/ Overflow
    \/ Serve
    \/ SendCheckpoint
    \/ Disconnect
    \/ Restart

Spec == Init /\ [][Next]_vars

(* The server's coroutine runs, and the client reconnects; nothing else is *)
(* promised, neither of the runs nor of the network.                       *)
FairSpec == Spec /\ WF_vars(Serve)

----------------------------------------------------------------------------
(* Properties *)

Passed(c) == c # NoCursor /\ (c.e < cursor.e \/ (c.e = cursor.e /\ c.n <= cursor.n))

(* Whatever is at or before the client's cursor is in its view, through    *)
(* lost connections, overflows, filtered events and restarts: a client     *)
(* that goes on from its cursor misses no structure (runs that had ended   *)
(* before it first attached to the agent are left out by design).          *)
CursorIsReflected ==
    \A k \in Facts :
       k[2] \in InScope \ missed /\ Passed(at[k]) =>
          k \in DOMAIN view /\ view[k] = at[k]

(* The client's view never holds an end without the begin of the same      *)
(* entity, except of a run that never began.                               *)
ViewIsNested ==
    \A k \in DOMAIN view :
       k[1] \in {"step_begin", "step_end"} =>
          /\ <<"run_begin", k[2]>> \in DOMAIN view
          /\ <<"step_begin", k[2]>> \in DOMAIN view

(* What a client shows at its cursor is what it would have seen live.      *)
ViewIsFaithful == CursorIsReflected /\ ViewIsNested

(* The parts a client is shown of a step on one attachment are the first,  *)
(* the second and so on: whoever joins in the middle, or has missed some,  *)
(* is shown none (docs/design/events.md: partial progress is suppressed).  *)
PartsFromTheStart ==
    [][\A r \in Runs : heard'[r] \in {0, heard[r], heard[r] + 1}]_vars

(* A stream of a run that ends by itself has given the client the end.     *)
EndIsComplete ==
    link = "over" => <<"run_end", followed>> \in DOMAIN view

(* The end of a run reaches the client that follows it.                    *)
FollowerLearnsTheEnd ==
    \A r \in Runs :
       (/\ r \in (Ended \cap InScope) \ missed
        /\ cursor # NoCursor \/ followed # Agent)
          ~> <<"run_end", r>> \in DOMAIN view

====
