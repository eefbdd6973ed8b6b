---- MODULE EventExport ----
(***************************************************************************)
(* An agent publishes its execution events to the hub, and a follower of   *)
(* the hub reads them.                                                     *)
(*                                                                         *)
(* The exporter (teaming/exporter.py) reads the canonical stream of its    *)
(* process.  It first replaces what the hub has: it declares the agent     *)
(* incomplete, reads the structure of the database at a boundary of the    *)
(* stream, stages it and commits it; then it publishes event by event, and *)
(* starts over whenever the hub or its reader says that the two are no     *)
(* longer in step.  A call whose answer is lost is repeated as it was.     *)
(* The follower (teaming/subscriptions.py) attaches by reading the row,    *)
(* the live table and the row again, and then reads the hub's stream.      *)
(*                                                                         *)
(* Grain.  A script of the hub is one step, with the handling of its       *)
(* answer by the exporter, unless the answer is lost or the request is     *)
(* delayed past the timeout of its caller.  The snapshot of the database   *)
(* is pinned under the stream's gate: one step.  One follower, of the      *)
(* whole agent, which attaches anew when it is refused.                    *)
(***************************************************************************)
EXTENDS HubEvents, FiniteSets

CONSTANTS
    MaxFacts,      \* bound: events of the agent
    MaxProcesses,  \* bound: processes of the agent, one after the other
    MaxFaults,     \* bound: lost calls, lost leases, overflows, resets, crashes
    MaxLate        \* bound: requests that outlive their caller

ASSUME BoundsAssumption ==
    /\ MaxFacts \in Nat /\ MaxProcesses \in Nat \ {0}
    /\ MaxFaults \in Nat /\ MaxLate \in Nat

VARIABLES
    facts,     \* events emitted, numbered; the structural ones are durable
    process,   \* the running process of the agent
    stopping,  \* finish() was called: execution has stopped
    hub,
    late,      \* requests on their way whose caller has given up
    pc,        \* the step of the exporter's coroutine
    final,     \* recovering for the last time: run() returns after it
    mirror,    \* what the exporter knows of the hub
    reader,    \* its reader of the stream
    follower,
    faults

exporter == <<pc, final, mirror, reader>>
vars == <<facts, process, stopping, hub, late, exporter, follower, faults>>

(* "off": not registered yet; "done" and "broken": run() has returned, in  *)
(* order or for a dataset that needs repair.                               *)
Steps == {"off", "initialize", "capture", "abandon", "incomplete", "snapshot",
          "stage", "commit", "serve", "publish", "done", "broken"}

(* epoch, generation, highwater, projection of the exporter; the captured  *)
(* row (old, oldStaging) and the reason of a recovery.                     *)
Mirror == [epoch : Nat, generation : Generations \cup {None}, highwater : 0 .. MaxFacts,
           projection : SUBSET (1 .. MaxFacts), reason : Reasons,
           old : Generations \cup {None}, oldStaging : Generations \cup {None}]

(* What the reader has acquired, and whether it was overflowed. *)
Reader == [acquired : 0 .. MaxFacts, lost : BOOLEAN]

(* "out": not attached; "captured", "read": between the reads of the row;  *)
(* complete: what it tells its client; seen: the row it captured.          *)
Follower == [phase : {"out", "captured", "read", "following"}, epoch : Nat,
             token : Nat, generation : Generations \cup {None},
             complete : BOOLEAN, view : SUBSET (1 .. MaxFacts)]

TypeOK ==
    /\ facts \in 0 .. MaxFacts
    /\ process \in 1 .. MaxProcesses
    /\ stopping \in BOOLEAN
    /\ hub \in Hub
    /\ \A op \in late : op \in Operation /\ Cardinality(late) <= MaxLate
    /\ pc \in Steps
    /\ final \in BOOLEAN
    /\ mirror \in Mirror
    /\ reader \in Reader
    /\ follower \in Follower
    /\ faults \in 0 .. MaxFaults

NoMirror == [epoch |-> 0, generation |-> None, highwater |-> 0, projection |-> {},
             reason |-> "initial", old |-> None, oldStaging |-> None]
NoReader == [acquired |-> 0, lost |-> FALSE]
NoFollower == [phase |-> "out", epoch |-> 0, token |-> None, generation |-> None,
               complete |-> FALSE, view |-> {}]

Init ==
    /\ facts = 0
    /\ process = 1
    /\ stopping = FALSE
    /\ hub = EmptyHub(0)
    /\ late = {}
    /\ pc = "off"
    /\ final = FALSE
    /\ mirror = NoMirror
    /\ reader = NoReader
    /\ follower = NoFollower
    /\ faults = 0

Fault == faults < MaxFaults /\ faults' = faults + 1

(* Entries and revisions that nobody reads are not kept. *)
Seen(h) ==
    [h EXCEPT !.entries = IF follower.phase = "out" THEN <<>> ELSE @,
              !.revision = IF follower.phase \in {"captured", "read"} THEN @ ELSE 0]

----------------------------------------------------------------------------
(* Execution *)

(* An event is made durable and put on the stream in one transaction. *)
Emit ==
    /\ facts < MaxFacts
    /\ ~stopping
    /\ facts' = facts + 1
    /\ UNCHANGED <<process, stopping, hub, late, exporter, follower, faults>>

Overflow ==
    /\ Fault
    /\ pc \in {"stage", "commit", "serve", "publish"}
    /\ reader.acquired < facts
    /\ reader' = [reader EXCEPT !.lost = TRUE]
    /\ UNCHANGED <<facts, process, stopping, hub, late, pc, final, mirror, follower>>

(* close() of the teaming loop, after the executor has stopped. *)
Finish ==
    /\ ~stopping
    /\ stopping' = TRUE
    /\ UNCHANGED <<facts, process, hub, late, exporter, follower, faults>>

(* The process dies, or its drain budget ends, and the next one starts. *)
Restart ==
    /\ Fault
    /\ process < MaxProcesses
    /\ process' = process + 1
    /\ stopping' = FALSE
    /\ pc' = "off"
    /\ final' = FALSE
    /\ mirror' = NoMirror
    /\ reader' = NoReader
    /\ UNCHANGED <<facts, hub, late, follower>>

----------------------------------------------------------------------------
(* The lease *)

Register ==
    /\ hub.lease = None
    /\ pc # "done"
    /\ hub' = [hub EXCEPT !.lease = process]
    /\ pc' = IF pc = "off" THEN "initialize" ELSE pc
    /\ UNCHANGED <<facts, process, stopping, late, final, mirror, reader, follower, faults>>

Expires ==
    /\ hub.lease # None
    /\ hub' = [hub EXCEPT !.lease = None]
    /\ UNCHANGED <<facts, process, stopping, late, exporter, follower>>

(* The last thing a process does, when its exporter is done. *)
Unregister ==
    /\ pc = "done"
    /\ hub.lease = process
    /\ Expires
    /\ UNCHANGED faults

ExpireOfDead == hub.lease # process /\ Expires /\ UNCHANGED faults
ExpireOfLive == hub.lease = process /\ Fault /\ Expires

----------------------------------------------------------------------------
(* The exporter *)

Fresh ==
    Generations \ ({g \in Generations : hub.tables[g].present}
                   \cup {hub.generation, hub.staging, hub.last.generation, mirror.old}
                   \cup {op.generation : op \in late} \cup {op.old : op \in late})

Call(kind) == [NoOperation EXCEPT !.kind = kind, !.epoch = mirror.epoch,
                                  !.token = process, !.generation = mirror.generation]

EventCall ==
    [Call("event") EXCEPT !.at = mirror.highwater + 1, !.prior = mirror.highwater]
AbandonCall == [Call("abandon") EXCEPT !.generation = mirror.oldStaging]
IncompleteCall == [Call("incomplete") EXCEPT !.reason = mirror.reason]
StageCall ==
    [Call("stage") EXCEPT !.at = mirror.highwater, !.entities = mirror.projection]
RecoverCall ==
    [Call("recover") EXCEPT
        !.at = mirror.highwater,
        !.old = IF mirror.old = None THEN mirror.generation ELSE mirror.old]

(* recover is entered again, by run or by the loop around it.  What it     *)
(* will overwrite before it reads it is cleared.                           *)
Recovering(reason) ==
    /\ pc' = "initialize"
    /\ mirror' = [NoMirror EXCEPT !.reason = reason]
    /\ reader' = NoReader

Restarted(reason) == final' = FALSE /\ Recovering(reason)

(* The operation of the current step, and the step after an answer "ok". *)
Pending ==
    CASE pc = "abandon" -> AbandonCall
      [] pc = "incomplete" -> IncompleteCall
      [] pc = "stage" -> StageCall
      [] pc = "commit" -> RecoverCall
      [] OTHER -> EventCall

Calling == pc \in {"abandon", "incomplete", "stage", "commit", "publish"}

NoEventLeft == pc = "serve" /\ mirror.highwater = reader.acquired
EventLeft == pc = "serve" /\ mirror.highwater < reader.acquired

(* GET /events/state, which asks for a live lease of this process; an idle *)
(* exporter calls it once a second.                                        *)
StateUnavailable ==
    /\ pc \in {"initialize", "capture"} \/ (NoEventLeft /\ reader.acquired = facts)
    /\ Fault
    /\ Restarted("source_gap")
    /\ UNCHANGED <<facts, process, stopping, hub, late, follower>>

Initialize ==
    /\ pc = "initialize"
    /\ IF hub.lease = process
       THEN /\ pc' = "capture"
            /\ mirror' = [mirror EXCEPT !.epoch = hub.epoch]
            /\ UNCHANGED <<final, reader>>
       ELSE Restarted("source_gap")
    /\ UNCHANGED <<facts, process, stopping, hub, late, follower, faults>>

Capture ==
    /\ pc = "capture"
    /\ IF hub.lease = process
       THEN /\ pc' = IF hub.staging # None THEN "abandon" ELSE "incomplete"
            /\ \E g \in Fresh :
                  /\ \A other \in Fresh : g <= other
                  /\ mirror' = [mirror EXCEPT !.old = hub.generation,
                                              !.oldStaging = hub.staging,
                                              !.generation = g]
            /\ UNCHANGED <<final, reader>>
       ELSE Restarted("source_gap")
    /\ UNCHANGED <<facts, process, stopping, hub, late, follower, faults>>

(* Mutant: the transaction the database is read in was begun earlier. *)
SnapshotStale ==
    /\ pc = "snapshot"
    /\ pc' = "stage"
    /\ \E boundary \in 0 .. facts :
          /\ mirror' = [mirror EXCEPT !.highwater = boundary,
                                      !.projection = Structure(boundary)]
          /\ reader' = [acquired |-> boundary, lost |-> FALSE]
    /\ UNCHANGED <<facts, process, stopping, hub, late, final, follower, faults>>

(* The structure of the database at the boundary, and a reader from there. *)
Snapshot ==
    /\ pc = "snapshot"
    /\ pc' = "stage"
    /\ mirror' = [mirror EXCEPT !.highwater = facts, !.projection = Structure(facts)]
    /\ reader' = [acquired |-> facts, lost |-> FALSE]
    /\ UNCHANGED <<facts, process, stopping, hub, late, final, follower, faults>>

SnapshotLimit ==
    /\ pc = "snapshot"
    /\ Fault
    /\ Restarted("snapshot_limit")
    /\ UNCHANGED <<facts, process, stopping, hub, late, follower>>

(* reader.check() follows the two calls that may take long. *)
Proceeded ==
    \/ /\ pc \in {"abandon", "incomplete"}
       /\ pc' = IF pc = "abandon" THEN "incomplete" ELSE "snapshot"
       /\ UNCHANGED <<final, mirror, reader>>
    \/ /\ pc = "stage" /\ ~reader.lost
       /\ pc' = "commit"
       /\ UNCHANGED <<final, mirror, reader>>
    \/ /\ pc = "commit" /\ ~reader.lost
       /\ pc' = IF final THEN "done" ELSE "serve"
       /\ mirror' = [mirror EXCEPT !.reason = "", !.old = None, !.oldStaging = None]
       /\ UNCHANGED <<final, reader>>
    \/ /\ pc \in {"stage", "commit"} /\ reader.lost
       /\ Restarted("source_gap")
    \/ /\ pc = "publish"
       /\ pc' = "serve"
       /\ mirror' = [mirror EXCEPT !.highwater = @ + 1,
                                   !.projection = @ \cup ({mirror.highwater + 1} \ Parts)]
       /\ UNCHANGED <<final, reader>>

Broken == pc' = "broken" /\ UNCHANGED <<final, mirror, reader>>

Handled(answer) ==
    CASE answer = "ok" -> Proceeded
      [] answer = "recover" -> Restarted("source_gap")
      [] OTHER -> Broken

Answered ==
    /\ Calling
    /\ hub' = Seen(Applied(hub, Pending))
    /\ Handled(Answer(hub, Pending))
    /\ UNCHANGED <<facts, process, stopping, late, follower, faults>>

(* Mutant: a call without an answer is taken for sent. *)
UnavailableAsSent == IF pc = "abandon" THEN Restarted("source_gap") ELSE Proceeded

(* BackendUnavailable: _retry repeats the operation, abandon has no retry. *)
Unavailable ==
    IF pc = "abandon" THEN Restarted("source_gap") ELSE UNCHANGED exporter

AnswerLost ==
    /\ Calling
    /\ Fault
    /\ hub' \in {hub, Seen(Applied(hub, Pending))}
    /\ Unavailable
    /\ UNCHANGED <<facts, process, stopping, late, follower>>

Delayed ==
    /\ Calling
    /\ Fault
    /\ Cardinality(late) < MaxLate
    /\ late' = late \cup {Pending}
    /\ Unavailable
    /\ UNCHANGED <<facts, process, stopping, hub, follower>>

(* commits: the lease ends between the write and the renewal after it. *)
AppliedWithoutRenewal ==
    /\ pc \in {"incomplete", "commit", "publish"}
    /\ Fault
    /\ Answer(hub, Pending) = "ok"
    /\ hub' = [Seen(Applied(hub, Pending)) EXCEPT !.lease = None]
    /\ Restarted("source_gap")
    /\ UNCHANGED <<facts, process, stopping, late, follower>>

Drained == stopping /\ reader.acquired = facts

Receive ==
    /\ NoEventLeft
    /\ \/ /\ reader.lost
          /\ Restarted("source_gap")
       \/ /\ ~reader.lost
          /\ \E n \in reader.acquired + 1 .. facts : reader' = [reader EXCEPT !.acquired = n]
          /\ UNCHANGED <<pc, final, mirror>>
       \/ /\ ~reader.lost /\ Drained
          /\ pc' = "done"
          /\ UNCHANGED <<final, mirror, reader>>
    /\ UNCHANGED <<facts, process, stopping, hub, late, follower, faults>>

Publish ==
    /\ EventLeft
    /\ ~stopping
    /\ pc' = "publish"
    /\ UNCHANGED <<facts, process, stopping, hub, late, final, mirror, reader, follower, faults>>

(* Mutant: the backlog is dropped, without the last recovery. *)
ShutDownAtOnce ==
    /\ EventLeft
    /\ stopping
    /\ pc' = "done"
    /\ UNCHANGED <<facts, process, stopping, hub, late, final, mirror, reader, follower, faults>>

(* Execution has stopped: one last recovery instead of the backlog. *)
ShutDown ==
    /\ EventLeft
    /\ stopping
    /\ final' = TRUE
    /\ Recovering("shutdown")
    /\ UNCHANGED <<facts, process, stopping, hub, late, follower, faults>>

(* Mutant: an idle exporter asks for its lease only. *)
FindsLostLease ==
    /\ NoEventLeft /\ reader.acquired = facts
    /\ ~reader.lost /\ ~stopping
    /\ hub.lease # process
    /\ Restarted("source_gap")
    /\ UNCHANGED <<facts, process, stopping, hub, late, follower, faults>>

(* The check of an idle exporter. *)
FindsReset ==
    /\ NoEventLeft /\ reader.acquired = facts
    /\ ~reader.lost /\ ~stopping
    /\ hub.lease # process \/ hub.epoch # mirror.epoch
    /\ Restarted("source_gap")
    /\ UNCHANGED <<facts, process, stopping, hub, late, follower, faults>>

----------------------------------------------------------------------------
(* The hub *)

Deliver(op) ==
    /\ hub' = Seen(Applied(hub, op))
    /\ late' = late \ {op}
    /\ UNCHANGED <<facts, process, stopping, exporter, follower, faults>>

(* A staged table that is not committed in time. *)
ExpireStaging(g) ==
    /\ Fault
    /\ hub.tables[g].expiring
    /\ hub' = [hub EXCEPT !.tables[g] = NoTable]
    /\ UNCHANGED <<facts, process, stopping, late, exporter, follower>>

(* The backend loses its data. *)
Reset ==
    /\ Fault
    /\ hub' = Seen(EmptyHub(hub.epoch + 1))
    /\ UNCHANGED <<facts, process, stopping, late, exporter, follower>>

----------------------------------------------------------------------------
(* The follower *)

Forgotten(h) == [h EXCEPT !.entries = <<>>, !.revision = 0]

Detached == follower' = NoFollower /\ hub' = Forgotten(hub)

(* capture(): the row, and the end of the stream as the boundary. *)
Attach ==
    /\ follower.phase = "out"
    /\ hub.known
    /\ follower' = [phase |-> "captured", epoch |-> hub.epoch, token |-> hub.token,
                    generation |-> hub.generation,
                    complete |-> hub.status = "complete", view |-> {}]
    /\ hub' = Forgotten(hub)
    /\ UNCHANGED <<facts, process, stopping, late, exporter, faults>>

(* projection() and online_token().  A table that is gone makes it capture *)
(* the row again.                                                          *)
ReadTable ==
    /\ follower.phase = "captured"
    /\ LET live == follower.generation IN
       IF live # None /\ ~hub.tables[live].present
       THEN Detached
       ELSE /\ follower' = [follower EXCEPT
                   !.phase = "read",
                   !.complete = @ /\ hub.lease \in {None, follower.token},
                   !.view = IF live = None THEN {} ELSE hub.tables[live].entities]
            /\ UNCHANGED hub
    /\ UNCHANGED <<facts, process, stopping, late, exporter, faults>>

(* Mutant: the row's revision is not compared. *)
SameRowUnrevised ==
    /\ hub.epoch = follower.epoch
    /\ hub.token = follower.token /\ hub.generation = follower.generation

SameRow ==
    /\ hub.epoch = follower.epoch
    /\ hub.revision = 0
    /\ hub.token = follower.token /\ hub.generation = follower.generation

CheckRow ==
    /\ follower.phase = "read"
    /\ IF SameRow
       THEN follower' = [follower EXCEPT !.phase = "following"] /\ UNCHANGED hub
       ELSE Detached
    /\ UNCHANGED <<facts, process, stopping, late, exporter, faults>>

ReadEvent ==
    /\ follower.phase = "following"
    /\ hub.epoch = follower.epoch
    /\ hub.entries # <<>>
    /\ Head(hub.entries).kind = "event"
    /\ follower' = [follower EXCEPT !.view = @ \cup ({Head(hub.entries).at} \ Parts)]
    /\ hub' = [hub EXCEPT !.entries = Tail(@)]
    /\ UNCHANGED <<facts, process, stopping, late, exporter, faults>>

(* A recovery's entry makes it attach anew, a reset ends the subscription. *)
Detach ==
    /\ follower.phase = "following"
    /\ \/ hub.epoch # follower.epoch
       \/ hub.entries # <<>> /\ Head(hub.entries).kind # "event"
    /\ Detached
    /\ UNCHANGED <<facts, process, stopping, late, exporter, faults>>

----------------------------------------------------------------------------

ExporterStep ==
    \/ Initialize \/ Capture \/ Snapshot \/ Answered \/ Receive \/ Publish
    \/ ShutDown \/ FindsReset

Next ==
    \/ Emit \/ Overflow \/ Finish \/ Restart
    \/ Register \/ Unregister \/ ExpireOfDead \/ ExpireOfLive
    \/ ExporterStep \/ StateUnavailable \/ SnapshotLimit
    \/ AnswerLost \/ Delayed \/ AppliedWithoutRenewal
    \/ \E op \in late : Deliver(op)
    \/ \E g \in Generations : ExpireStaging(g)
    \/ Reset
    \/ Attach \/ ReadTable \/ CheckRow \/ ReadEvent \/ Detach

(* The heartbeat registers, a dead process's lease runs out, the exporter  *)
(* and the follower go on; nobody need emit, stop or fail.                 *)
Fairness ==
    /\ WF_vars(Register) /\ WF_vars(ExpireOfDead)
    /\ WF_vars(ExporterStep)

Spec == Init /\ [][Next]_vars /\ Fairness

----------------------------------------------------------------------------
(* Properties *)

(* What the hub calls complete is the structure of the agent's events up   *)
(* to the position it names, however calls were lost, repeated or late;    *)
(* and the live generation of a recovering agent is still there.           *)
ContentIsExact ==
    hub.generation # None =>
        LET table == hub.tables[hub.generation] IN
        /\ table.present /\ ~table.expiring
        /\ hub.status = "complete" => table.entities = Structure(hub.source)

(* What readers see of the agent, whatever becomes of the exporter and of  *)
(* its calls, is what an outbox promises them: the structure up to a       *)
(* position that the agent has reached, which never goes back within a     *)
(* dataset and moves event by event while the agent is called complete.    *)
Live == IF hub.generation = None \/ ~hub.tables[hub.generation].present THEN {}
        ELSE hub.tables[hub.generation].entities
Outbox == INSTANCE EventOutbox WITH
              emitted <- facts, dataset <- hub.epoch,
              whole <- hub.status = "complete", upto <- hub.source, shown <- Live
KeepsOutbox == Outbox!Spec

(* While the exporter publishes, the hub has what the exporter thinks it   *)
(* has, and at most the event whose answer is outstanding besides.         *)
HubKeepsStep ==
    pc \in {"serve", "publish"} /\ hub.epoch = mirror.epoch =>
        /\ hub.generation = mirror.generation
        /\ hub.source \in {mirror.highwater} \cup
                          (IF pc = "publish" THEN {mirror.highwater + 1} ELSE {})

(* An exporter that has finished left nothing behind: unless the hub says  *)
(* the agent is incomplete, it has all that execution made durable.        *)
FinalIsComplete ==
    pc = "done" /\ hub.epoch = mirror.epoch /\ hub.status = "complete" =>
        hub.tables[hub.generation].entities = Structure(facts)

(* The exporter's repeated and late calls never look like a damaged        *)
(* dataset, which would stop publication for good.                         *)
NeverNeedsRepair == pc # "broken"

OnlyEvents == \A i \in DOMAIN hub.entries : hub.entries[i].kind = "event"
Unread == {hub.entries[i].at : i \in DOMAIN hub.entries} \ Parts

(* A follower's view and the events it has yet to read are the live        *)
(* generation, without a gap and without an event it would see twice.      *)
FollowerIsExact ==
    /\ follower.phase = "following"
    /\ hub.epoch = follower.epoch
    /\ OnlyEvents
    => /\ hub.generation = follower.generation
       /\ follower.complete => hub.status = "complete"
       /\ hub.generation # None =>
             /\ follower.view \cup Unread = hub.tables[hub.generation].entities
             /\ follower.view \cap Unread = {}

AllShown ==
    /\ hub.status = "complete"
    /\ hub.tables[hub.generation].entities = Structure(MaxFacts)

(* A late copy of its first call was taken after the recovery it began:    *)
(* the exporter does not look, and its next event will repair it.          *)
Belied == pc = "serve" /\ hub.epoch = mirror.epoch /\ hub.last.kind = "incomplete"

(* All that execution has emitted is eventually shown, again after every   *)
(* loss, as a complete generation; unless the process is told to stop, or  *)
(* a late call belies it.                                                  *)
EveryEventIsShown == facts = MaxFacts ~> (stopping \/ AllShown \/ Belied)
====
