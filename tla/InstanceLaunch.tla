--------------------------- MODULE InstanceLaunch ---------------------------
(***************************************************************************)
(* Launching, stopping and observing an agent in a container.              *)
(*                                                                         *)
(* Managers are processes of the host.  One at a time owns the management  *)
(* operation of the instance, which is recorded in its status entry; it    *)
(* releases what an earlier launch left, begins a new one, creates the     *)
(* container, and waits until its server answers; or it stops and releases *)
(* the container.  The server in the container reports its own phases.     *)
(* Queries of the host repair the entry of a launch that died.  Managers,  *)
(* the server and the queries write the entry under a claim on its lock,   *)
(* a file that stays behind when its owner is killed.                      *)
(*                                                                         *)
(* A step that changes the entry takes the claim and writes; releasing the *)
(* claim is a step of its own, and a process may be killed before the      *)
(* write, between the two, or at any other step.  Left out: registration   *)
(* files, temporary instances, agents that run on the host itself, and     *)
(* what the launch prepares outside the container and its stage.           *)
(***************************************************************************)
EXTENDS StatusEntry, FiniteSets

CONSTANTS
    Managers,       \* processes that start and stop the agent
    MaxLaunches,    \* bound: generations that are begun
    MaxFaults       \* bound: managers killed and containers that die

ASSUME InstanceLaunchAssumption ==
    /\ Managers \cap {"none", "server", "query"} = {}
    /\ MaxLaunches \in Nat \ {0}
    /\ MaxFaults \in Nat

VARIABLES
    entry,      \* the entry in the status document
    claim,      \* the claim file of the document's lock
    container,  \* the container that has the agent's name
    helpers,    \* launches whose "docker run" has not ended
    stage,      \* the bootstrap directory: its launch, and whether it is torn
    server,     \* how far the server in the container is
    manager,    \* the managers
    query,      \* a query: what it read and what it saw
    faults      \* managers killed and containers that died

vars == <<entry, claim, container, helpers, stage, server, manager, query, faults>>

Launches == 1 .. MaxLaunches
NoClaim == [by |-> "none", launch |-> 0, ref |-> "none"]
NoContainer == [launch |-> 0, state |-> "none"]
NoStage == [launch |-> 0, torn |-> FALSE]
IdleQuery == [at |-> "idle", entry |-> NewEntry]
IdleManager ==
    [at |-> "idle", goal |-> "none", launch |-> 0, ref |-> "none", seen |-> "none", spent |-> FALSE]

\* Where a manager writes the entry next, and the other places of its program.
Updates == {"claim", "retire", "clear", "begin", "intent", "prepared", "bind",
            "rebind", "remember", "dropped", "fail", "abort", "end"}
Releasing == {"load", "probe", "probed", "halt", "halted", "release", "released", "unstage"}
Launching == {"stage", "run", "await", "undo", "ready", "quit", "drop"}
InOperation == (Updates \ {"claim"}) \cup Releasing \cup Launching
Places == InOperation \cup {"claim", "idle", "follow", "dead"}

Init ==
    /\ entry = NewEntry
    /\ claim = NoClaim
    /\ container = NoContainer
    /\ helpers = {}
    /\ stage = NoStage
    /\ server = "none"
    /\ manager = [m \in Managers |-> IdleManager]
    /\ query = IdleQuery
    /\ faults = 0

(***************************************************************************)
(* Docker.  The container's name is the agent's, its label the launch.     *)
(***************************************************************************)

Up == container.state = "up"

\* What a handle's reference finds; a name may find another launch's.
ByName(h) == h.ref # "bound"
Mismatch(h) == ByName(h) /\ container.launch \notin {0, h.launch}
Found(h) == IF container.launch = h.launch THEN container.state ELSE "none"

\* A container that is not running may still be coming.
Pending(h) == ByName(h) /\ helpers # {}

\* Probing in one go, for a claim's owner.
Alive(h) ==
    CASE Mismatch(h) -> "unknown"
      [] Found(h) # "up" /\ Pending(h) -> "unknown"
      [] OTHER -> Found(h)

(***************************************************************************)
(* The claim.  A manager removes one whose owner is known to be dead: a    *)
(* manager's when its process is gone, the server's when its container     *)
(* does not run, for which a manager looks once while it waits.            *)
(***************************************************************************)

OfDeadManager(c) == c.by \in Managers /\ manager[c.by].at = "dead"
\* Mutant: the server's process is looked up in the host's own namespace.
RecoverableUnprobed(m) == OfDeadManager(claim) \/ claim.by = "server"

Recoverable(m) ==
    \/ OfDeadManager(claim)
    \/ claim.by = "server" /\ ~manager[m].spent /\ Alive(claim) \in {"down", "none"}
Enters(m) == claim = NoClaim \/ Recoverable(m)
ClaimOf(p) == [by |-> p, launch |-> 0, ref |-> "none"]

\* A manager's own steps wait until it has released its claim.
On(m, p) == manager[m].at = p /\ claim.by # m
Handle(m) == [launch |-> manager[m].launch, ref |-> manager[m].ref]
Then(m, p) == [manager EXCEPT ![m].at = p, ![m].seen = "none", ![m].spent = FALSE]
Saw(m, p, s) == [manager EXCEPT ![m].at = p, ![m].seen = s]
Idle(m) == [manager EXCEPT ![m] = IdleManager]

\* Manager m finds the lock free, writes e, and holds the claim.
Writes(m, e) ==
    /\ Enters(m)
    /\ entry' = e
    /\ claim' = ClaimOf(m)
    /\ UNCHANGED <<container, helpers, stage, server, query, faults>>

\* A step that touches nothing but the manager.
Only(m, next) ==
    /\ manager' = next
    /\ UNCHANGED <<entry, claim, container, helpers, stage, server, query, faults>>

Leave(m) ==
    /\ manager[m].at # "dead"
    /\ claim.by = m
    /\ claim' = NoClaim
    /\ UNCHANGED <<entry, container, helpers, stage, server, manager, query, faults>>

\* The one probe of a waiting manager finds the server's container running.
Spend(m) ==
    /\ manager[m].at \in Updates /\ claim.by = "server" /\ ~manager[m].spent
    /\ Alive(claim) \in {"up", "unknown"}
    /\ Only(m, [manager EXCEPT ![m].spent = TRUE])

\* A launch's directory is removed with what is in it, unless it is torn: its
\* launch cannot be read from it, and it is not empty.
Unstaged(l) == IF stage.launch = l /\ ~stage.torn THEN NoStage ELSE stage

\* What a removal that is cut short leaves of it can still be read, or is torn.
CutShort(l) ==
    /\ stage # NoStage /\ stage.launch = l /\ ~stage.torn
    /\ stage' \in [launch : {l}, torn : BOOLEAN]

(***************************************************************************)
(* A container ends: with it the server, which may leave its claim behind, *)
(* one it had just taken included.                                         *)
(***************************************************************************)

\* It names the reference that the server read before it waited for the lock.
ServerClaims ==
    [by : {"server"}, launch : {container.launch}, ref : {"prepared", entry.ref}]
ServerEnters == claim = NoClaim /\ entry.launch = container.launch
Left ==
    IF Up /\ server \in {"boot", "starting", "serving", "closing"} /\ ServerEnters
    THEN {claim} \cup ServerClaims ELSE {claim}

\* The container of launch l becomes c, if there is one.
Becomes(l, c) ==
    IF container.launch = l
    THEN /\ container' = c /\ server' = "none" /\ claim' \in Left
    ELSE UNCHANGED <<container, server, claim>>

\* It stops running, and may be removed by that.
Stopped(l) == \E c \in {[launch |-> l, state |-> "down"], NoContainer} : Becomes(l, c)

(***************************************************************************)
(* A manager: the operation, and what an earlier launch left.              *)
(***************************************************************************)

\* A start or a stop is asked for.
Begins(m, goal) ==
    /\ On(m, "idle")
    /\ goal = "start" => entry.launch < MaxLaunches
    /\ Only(m, [manager EXCEPT ![m] = [IdleManager EXCEPT !.at = "claim", !.goal = goal]])

\* Mutant: an owner that is not writing is taken for dead.
AbandonedUnclaimed(e) == e.op \in Managers => claim.by # e.op

\* An entry whose management operation is over, or whose owner is dead.
Abandoned(e) == e.op \in Managers => manager[e.op].at = "dead"

\* management_operation: it is free, or its owner is dead; otherwise wait.
Claim(m) ==
    /\ On(m, "claim") /\ Abandoned(entry)
    /\ Writes(m, [entry EXCEPT !.op = m])
    /\ manager' = Then(m, "load")

EndOperation(m) ==
    /\ On(m, "end")
    /\ Writes(m, IF entry.op = m THEN [entry EXCEPT !.op = "none"] ELSE entry)
    /\ manager' = IF manager[m].goal = "follow" THEN Then(m, "follow") ELSE Idle(m)

\* Where a manager goes when it raises, and when the old launch is gone.
Raised(m) ==
    IF manager[m].goal = "follow" THEN Idle(m) ELSE [Then(m, "end") EXCEPT ![m].goal = "none"]
Gone(m) ==
    CASE manager[m].goal = "start" -> Then(m, "begin")
      [] manager[m].goal = "stop" -> Then(m, "end")
      [] OTHER -> Idle(m)

\* Without a reference, a launch that may have made something cannot be
\* recovered, and a start does not go past a directory that is not its own.
Unrecoverable(goal) ==
    /\ entry.ref = "none"
    /\ \/ entry.phase \in Reporting
       \/ stage # NoStage /\ (goal = "start" \/ entry.phase \in Active)

Load(m) ==
    /\ On(m, "load")
    /\ Only(m,
        IF entry.ref # "none"
        THEN [manager EXCEPT ![m].at = IF manager[m].goal = "start" THEN "probe" ELSE "halt",
                             ![m].launch = entry.launch, ![m].ref = entry.ref]
        ELSE IF Unrecoverable(manager[m].goal) THEN Raised(m)
        ELSE IF entry.phase = "preparing" THEN [Then(m, "retire") EXCEPT ![m].launch = entry.launch]
        ELSE Gone(m))

\* An intent that created nothing is over.
Retire(m) ==
    /\ On(m, "retire")
    /\ Writes(m, Patched(entry, manager[m].launch, "stopped"))
    /\ manager' = Gone(m)

\* The container is looked up, and then the processes that may be creating it.
Inspect(m, p, q) ==
    /\ On(m, p)
    /\ Only(m, IF Mismatch(Handle(m)) THEN Raised(m) ELSE Saw(m, q, Found(Handle(m))))
\* Mutant: a container that is missing is taken for one nobody is creating.
CreationPendingIfDown(m) == manager[m].seen = "down" /\ Pending(Handle(m))

CreationPending(m) == manager[m].seen # "up" /\ Pending(Handle(m))

Probe(m) == Inspect(m, "probe", "probed")
Probed(m) ==
    /\ On(m, "probed")
    /\ Only(m, IF CreationPending(m) \/ manager[m].seen = "up" THEN Raised(m) ELSE Then(m, "release"))

\* What was found is stopped, which may fail.
Halt(m) == Inspect(m, "halt", "halted")
Halted(m) ==
    /\ On(m, "halted")
    /\ \/ CreationPending(m) /\ Only(m, Raised(m))
       \/ ~CreationPending(m) /\ manager[m].seen = "none" /\ Only(m, Then(m, "release"))
       \/ /\ ~CreationPending(m) /\ manager[m].seen # "none" /\ Up
          /\ Stopped(manager[m].launch)
          /\ manager' = Then(m, "release")
          /\ UNCHANGED <<entry, helpers, stage, query, faults>>
       \/ ~CreationPending(m) /\ manager[m].seen # "none" /\ ~Up /\ Only(m, Then(m, "release"))
       \/ ~CreationPending(m) /\ manager[m].seen # "none" /\ Up /\ Only(m, Raised(m))

\* Releasing: the container, then its bootstrap directory, then the reference.
Release(m) == Inspect(m, "release", "released")
Released(m) ==
    /\ On(m, "released")
    /\ \/ CreationPending(m) /\ Only(m, Raised(m))
       \/ ~CreationPending(m) /\ manager[m].seen = "none" /\ Only(m, Then(m, "unstage"))
       \/ /\ ~CreationPending(m) /\ manager[m].seen # "none"
          /\ Becomes(manager[m].launch, NoContainer)
          /\ manager' = Then(m, "unstage")
          /\ UNCHANGED <<entry, helpers, stage, query, faults>>
       \/ ~CreationPending(m) /\ manager[m].seen # "none" /\ Only(m, Raised(m))

Unstage(m) ==
    /\ On(m, "unstage")
    /\ stage' = Unstaged(manager[m].launch)
    /\ manager' = Then(m, "clear")
    /\ UNCHANGED <<entry, claim, container, helpers, server, query, faults>>
UnstageFails(m) ==
    /\ On(m, "unstage") /\ CutShort(manager[m].launch)
    /\ manager' = Raised(m)
    /\ UNCHANGED <<entry, claim, container, helpers, server, query, faults>>

Clear(m) ==
    /\ On(m, "clear")
    /\ Writes(m, Cleared(entry, Handle(m)))
    /\ manager' = Gone(m)

(***************************************************************************)
(* A manager: a new launch.                                                *)
(***************************************************************************)

Begin(m) ==
    /\ On(m, "begin")
    /\ IF entry.launch < MaxLaunches
       THEN /\ Writes(m, Begun(entry, entry.launch + 1))
            /\ manager' = [Then(m, "intent") EXCEPT ![m].launch = entry.launch + 1, ![m].ref = "none"]
       ELSE Only(m, Raised(m))

\* SandboxState.save by the launching manager; it may raise.
Saves(m, p, ref, next, raised) ==
    /\ On(m, p)
    /\ IF Binds(entry, manager[m].launch)
       THEN Writes(m, WithRef(entry, ref)) /\ manager' = Then(m, next)
       ELSE Enters(m) /\ Only(m, Then(m, raised))

Intent(m) == Saves(m, "intent", "intent", "stage", "abort")
Prepared(m) == Saves(m, "prepared", "prepared", "run", "abort")

\* The bootstrap directory is made by the launch alone, or not at all.
Stage(m) ==
    /\ On(m, "stage") /\ stage = NoStage
    /\ stage' = [launch |-> manager[m].launch, torn |-> FALSE]
    /\ manager' = Then(m, "prepared")
    /\ UNCHANGED <<entry, claim, container, helpers, server, query, faults>>

\* What is prepared besides, before and after it, may fail.
PrepareFails(m) ==
    /\ \E p \in {"intent", "stage", "run"} : On(m, p)
    /\ Only(m, Then(m, "abort"))

\* So may filling the directory, and then its removal.
StageFails(m) ==
    /\ On(m, "stage") /\ stage = NoStage
    /\ stage' \in [launch : {manager[m].launch}, torn : BOOLEAN]
    /\ manager' = Then(m, "abort")
    /\ UNCHANGED <<entry, claim, container, helpers, server, query, faults>>

Run(m) ==
    /\ On(m, "run")
    /\ helpers' = helpers \cup {manager[m].launch}
    /\ manager' = Then(m, "await")
    /\ UNCHANGED <<entry, claim, container, stage, server, query, faults>>

\* "docker run" ends, its manager alive or not.  It creates the container if
\* the name is free; one that fails or is canceled may have done so too.
HelperEnds(l, ok) ==
    /\ l \in helpers
    /\ helpers' = helpers \ {l}
    /\ \/ /\ container = NoContainer
          /\ container' = [launch |-> l, state |-> "up"]
          /\ server' = "boot"
       \/ /\ ~ok /\ container = NoContainer
          /\ container' = [launch |-> l, state |-> "down"]
          /\ UNCHANGED server
       \/ ~ok /\ UNCHANGED <<container, server>>
    /\ manager' = [m \in Managers |->
           IF ~(manager[m].at = "await" /\ manager[m].launch = l) THEN manager[m]
           ELSE IF ok THEN [manager[m] EXCEPT !.at = "bind", !.ref = "bound"]
           ELSE [manager[m] EXCEPT !.at = "undo", !.ref = "prepared"]]
    /\ UNCHANGED <<entry, claim, stage, query, faults>>

\* A run that failed removes what it may have created, and its directory; what
\* is left of that is ignored.
Undo(m) ==
    /\ On(m, "undo") /\ ~Mismatch(Handle(m)) /\ ~Pending(Handle(m))
    /\ Becomes(manager[m].launch, NoContainer)
    /\ stage' = Unstaged(manager[m].launch) \/ CutShort(manager[m].launch)
    /\ manager' = Then(m, "quit")
    /\ UNCHANGED <<entry, helpers, query, faults>>
UndoFails(m) == On(m, "undo") /\ Only(m, Then(m, "rebind"))
Rebind(m) == Saves(m, "rebind", "prepared", "quit", "quit")

Bind(m) == Saves(m, "bind", "bound", "ready", "quit")

\* The server answers for this launch; or it ended, or took too long.
Ready(m) ==
    /\ On(m, "ready") /\ server = "serving" /\ container.launch = manager[m].launch
    /\ Only(m, Then(m, "remember"))
NotReady(m) == On(m, "ready") /\ Only(m, Then(m, "quit"))

\* The launch is remembered; a foreground manager follows its server.
Remember(m, goal) ==
    /\ On(m, "remember")
    /\ Writes(m, entry)
    /\ manager' = [Then(m, "end") EXCEPT ![m].goal = goal]

\* A failed launch: stop it if that works, and release it if it stopped.
Quit(m) ==
    /\ On(m, "quit")
    /\ \/ Only(m, Then(m, "drop"))
       \/ /\ ~Mismatch(Handle(m)) /\ Up /\ Stopped(manager[m].launch)
          /\ manager' = Then(m, "drop")
          /\ UNCHANGED <<entry, helpers, stage, query, faults>>
Drop(m) ==
    /\ On(m, "drop")
    /\ \/ Only(m, Then(m, "fail"))
       \/ /\ Alive(Handle(m)) \in {"down", "none"}
          /\ Becomes(manager[m].launch, NoContainer)
          /\ \/ stage' = Unstaged(manager[m].launch) /\ manager' = Then(m, "dropped")
             \/ CutShort(manager[m].launch) /\ manager' = Then(m, "fail")
          /\ UNCHANGED <<entry, helpers, query, faults>>
Dropped(m) ==
    /\ On(m, "dropped")
    /\ Writes(m, Cleared(entry, Handle(m)))
    /\ manager' = Then(m, "fail")

\* It is reported, and tried again if another port may help.
Fail(m) ==
    /\ On(m, "fail")
    /\ \E next \in {Raised(m), Then(m, "load")} :
          IF entry.launch = manager[m].launch /\ entry.ref = "none" /\ entry.phase \notin Reporting
          THEN Writes(m, Patched(entry, manager[m].launch, "failed")) /\ manager' = next
          ELSE Only(m, next)

\* A launch that failed before its container leaves its reference.
Abort(m) ==
    /\ On(m, "abort")
    /\ Writes(m, Patched(entry, manager[m].launch, "failed"))
    /\ manager' = Raised(m)

\* The server's end is waited for, or the manager is interrupted.
Follow(m) ==
    /\ On(m, "follow")
    /\ \/ Found(Handle(m)) # "up" /\ Only(m, Then(m, "release"))
       \/ Only(m, Then(m, "halt"))

\* A manager is killed: it leaves its claim, one it just took included, and
\* may leave a directory it was filling.
Kill(m) ==
    /\ manager[m].at \notin {"idle", "dead"} /\ faults < MaxFaults
    /\ faults' = faults + 1
    /\ manager' = [manager EXCEPT ![m] = [IdleManager EXCEPT !.at = "dead"]]
    /\ \/ UNCHANGED <<claim, stage>>
       \/ /\ manager[m].at \in Updates /\ Enters(m)
          /\ claim' = ClaimOf(m) /\ UNCHANGED stage
       \/ /\ manager[m].at = "stage" /\ stage = NoStage
          /\ stage' = [launch |-> manager[m].launch, torn |-> TRUE] /\ UNCHANGED claim
    /\ UNCHANGED <<entry, container, helpers, server, query>>

\* Or it is killed while it removes the directory, the container being gone.
KillUnstaging(m) ==
    /\ faults < MaxFaults /\ faults' = faults + 1
    /\ manager' = [manager EXCEPT ![m] = [IdleManager EXCEPT !.at = "dead"]]
    /\ \/ On(m, "unstage") /\ UNCHANGED <<container, server, claim>>
       \/ /\ On(m, "undo") /\ ~Mismatch(Handle(m)) /\ ~Pending(Handle(m))
          /\ Becomes(manager[m].launch, NoContainer)
       \/ /\ On(m, "drop") /\ Alive(Handle(m)) \in {"down", "none"}
          /\ Becomes(manager[m].launch, NoContainer)
    /\ CutShort(manager[m].launch)
    /\ UNCHANGED <<entry, helpers, query>>

(***************************************************************************)
(* The server in the container.  What it writes it writes for its launch,  *)
(* and it waits for the lock: it knows no other's death.                   *)
(***************************************************************************)

ServerAt(p) == server = p /\ ~(claim.by = "server" /\ claim.launch = container.launch)
ServerOnly(next) ==
    /\ server' = next
    /\ UNCHANGED <<entry, claim, container, helpers, stage, manager, query, faults>>
ServerWrites(phase, next, raised) ==
    /\ ServerEnters
    /\ IF Patches(entry, container.launch, phase)
       THEN /\ entry' = Patched(entry, container.launch, phase)
            /\ claim' \in ServerClaims
            /\ server' = next
       ELSE UNCHANGED <<entry, claim>> /\ server' = raised
    /\ UNCHANGED <<container, helpers, stage, manager, query, faults>>
Fenced == entry.launch # container.launch

ServerStarts ==
    /\ ServerAt("boot")
    /\ ServerWrites("starting", "starting", "done") \/ (Fenced /\ ServerOnly("done"))
ServerServes ==
    /\ ServerAt("starting")
    /\ ServerWrites("running", "serving", "closing") \/ (Fenced /\ ServerOnly("serving"))

\* A patch of what the model leaves out, under the claim like any other.
ServerPatches(next) ==
    /\ ServerEnters
    /\ claim' \in ServerClaims
    /\ server' = next
    /\ UNCHANGED <<entry, container, helpers, stage, manager, query, faults>>

\* It records why, unless that fails or another launch has the entry.
ServerCloses ==
    /\ ServerAt("starting") \/ ServerAt("serving")
    /\ ServerPatches("closing") \/ ServerOnly("closing")

\* It is made to outlive its clients.
ServerPromotes == ServerAt("serving") /\ ServerPatches("serving")

\* finalize_runtime does not wait: a server that finds the lock taken leaves
\* its entry to the queries.
ServerFinalizes ==
    /\ ServerAt("closing")
    /\ IF claim = NoClaim /\ Finalizes(entry, container.launch)
       THEN /\ \E phase \in Terminal : entry' = [entry EXCEPT !.phase = phase]
            /\ claim' \in ServerClaims
            /\ server' = "done"
            /\ UNCHANGED <<container, helpers, stage, manager, query, faults>>
       ELSE ServerOnly("done")

ServerLeaves ==
    /\ claim.by = "server" /\ claim.launch = container.launch /\ Up
    /\ claim' = NoClaim
    /\ UNCHANGED <<entry, container, helpers, stage, server, manager, query, faults>>

\* The server ends, and with it its container; or the container dies.
ServerExits ==
    /\ ServerAt("done") /\ Stopped(container.launch)
    /\ UNCHANGED <<entry, helpers, stage, manager, query, faults>>
ContainerDies ==
    /\ Up /\ faults < MaxFaults /\ faults' = faults + 1
    /\ Stopped(container.launch)
    /\ UNCHANGED <<entry, helpers, stage, manager, query>>

(***************************************************************************)
(* A query of the host: it reads the entry, probes the container it refers *)
(* to, and marks a launch that died stopped, if the entry is the same.     *)
(* Reading and looking are one step: the whole entry is compared again     *)
(* before it is changed, and a container seen running changes nothing.     *)
(***************************************************************************)

QueryOnly(next) ==
    /\ query' = next
    /\ UNCHANGED <<entry, claim, container, helpers, stage, server, manager, faults>>

\* recover_control_write_lock: only a dead manager's claim, and no entry.
QueryRecovers ==
    /\ OfDeadManager(claim)
    /\ claim' = NoClaim
    /\ UNCHANGED <<entry, container, helpers, stage, server, manager, query, faults>>

QueryReads ==
    /\ query.at = "idle" /\ entry.ref # "none" /\ entry.phase \in Active
    /\ ~Mismatch(entry) /\ Found(entry) # "up"
    /\ QueryOnly([at |-> "inspected", entry |-> entry])

\* It is dead unless it may be coming, or its operation's owner is alive.
QueryLooks ==
    /\ query.at = "inspected"
    /\ QueryOnly(IF Pending(query.entry) THEN IdleQuery ELSE [query EXCEPT !.at = "looked"])
QueryJudges ==
    /\ query.at = "looked"
    /\ QueryOnly(IF Abandoned(query.entry) THEN [query EXCEPT !.at = "repair"] ELSE IdleQuery)

\* The evidence against the launch counts against its claim too.
Evidence == claim.launch = query.entry.launch /\ claim.ref = query.entry.ref
QueryEnters ==
    \/ claim = NoClaim \/ OfDeadManager(claim)
    \/ claim.by = "server" /\ (Evidence \/ Alive(claim) \in {"down", "none"})
\* Mutant: the entry that was probed is not compared with the one found.
RepairUncompared ==
    /\ query.at = "repair" /\ QueryEnters
    /\ entry' = Over(entry)
    /\ claim' = ClaimOf("query")
    /\ query' = IdleQuery
    /\ UNCHANGED <<container, helpers, stage, server, manager, faults>>

Repair ==
    /\ query.at = "repair" /\ QueryEnters /\ entry = query.entry
    /\ entry' = Over(entry)
    /\ claim' = ClaimOf("query")
    /\ query' = IdleQuery
    /\ UNCHANGED <<container, helpers, stage, server, manager, faults>>
Defer ==
    /\ query.at = "repair" /\ ~(QueryEnters /\ entry = query.entry)
    /\ claim' = IF QueryEnters THEN NoClaim ELSE claim
    /\ query' = IdleQuery
    /\ UNCHANGED <<entry, container, helpers, stage, server, manager, faults>>
QueryLeaves ==
    /\ claim.by = "query"
    /\ claim' = NoClaim
    /\ UNCHANGED <<entry, container, helpers, stage, server, manager, query, faults>>

Manages(m) ==
    \/ Claim(m) \/ EndOperation(m) \/ Load(m) \/ Retire(m)
    \/ Probe(m) \/ Probed(m) \/ Halt(m) \/ Halted(m)
    \/ Release(m) \/ Released(m) \/ Unstage(m) \/ UnstageFails(m) \/ Clear(m)
    \/ Begin(m) \/ Intent(m) \/ Stage(m) \/ StageFails(m) \/ PrepareFails(m)
    \/ Prepared(m) \/ Run(m)
    \/ Undo(m) \/ UndoFails(m) \/ Rebind(m) \/ Bind(m) \/ Ready(m) \/ NotReady(m)
    \/ (\E goal \in {"none", "follow"} : Remember(m, goal))
    \/ Quit(m) \/ Drop(m) \/ Dropped(m) \/ Fail(m) \/ Abort(m) \/ Leave(m)
Serves ==
    \/ ServerStarts \/ ServerServes \/ ServerPromotes
    \/ ServerFinalizes \/ ServerLeaves \/ ServerExits
Queries ==
    \/ QueryReads \/ QueryLooks \/ QueryJudges \/ Repair \/ Defer
    \/ QueryRecovers \/ QueryLeaves

Next ==
    \/ \E m \in Managers :
          \/ Begins(m, "start") \/ Begins(m, "stop")
          \/ Manages(m) \/ Follow(m) \/ Spend(m) \/ Kill(m) \/ KillUnstaging(m)
    \/ \E l \in helpers, ok \in BOOLEAN : HelperEnds(l, ok)
    \/ Serves \/ ServerCloses \/ ContainerDies
    \/ Queries

Spec == Init /\ [][Next]_vars

(***************************************************************************)
(* Properties.                                                             *)
(***************************************************************************)

\* Every variable has its type.
TypeOK ==
    /\ entry \in [launch : 0..MaxLaunches, op : Managers \cup {"none"}, ref : Refs, phase : Phases]
    /\ claim \in [by : Managers \cup {"none", "server", "query"}, launch : 0..MaxLaunches, ref : Refs]
    /\ container \in [launch : 0..MaxLaunches, state : {"none", "up", "down"}]
    /\ helpers \subseteq Launches
    /\ stage \in [launch : 0..MaxLaunches, torn : BOOLEAN]
    /\ server \in {"none", "boot", "starting", "serving", "closing", "done"}
    /\ manager \in [Managers -> [at : Places, goal : {"none", "start", "stop", "follow"},
                                 launch : 0..MaxLaunches, ref : Refs,
                                 seen : {"none", "up", "down"}, spent : BOOLEAN]]
    /\ query.at \in {"idle", "inspected", "looked", "repair"} /\ faults \in 0..MaxFaults

\* A follower stops and releases what it launched without the operation.
Inside(m) ==
    /\ manager[m].at \in InOperation
    /\ ~(manager[m].goal = "follow" /\ manager[m].at \in Releasing \cup {"clear"})

\* One manager at a time is inside the operation that management_operation
\* records in the entry, whoever was killed there.
OneManager == \A m, n \in Managers : Inside(m) /\ Inside(n) => m = n

\* Whatever exists of a launch, the container, a "docker run" that may yet
\* create it, or the directory, the entry refers to: a manager that is killed
\* between any two steps leaves what the next one finds.
Leftovers ==
    ({container.launch, IF stage.torn THEN 0 ELSE stage.launch} \ {0}) \cup helpers
ResourcesAreReferenced ==
    \A l \in Leftovers : entry.launch = l /\ entry.ref # "none"

\* No start or stop meets an entry that _release_stopped_locked or
\* _recover_unreferenced refuses, a torn directory aside.
NeverStuck == \A goal \in {"start", "stop"} : Unrecoverable(goal) => stage.torn

\* A manager that begins a launch, or that has stopped the agent, left nothing
\* of an earlier one: no container, and no "docker run" that may create it.
NothingIsLeft ==
    \A m \in Managers :
        manager[m].at = "begin" \/ (manager[m].at = "end" /\ manager[m].goal = "stop")
        => Leftovers = {} /\ entry.ref = "none"

\* A launch that is stopped or failed stays so, whoever writes the entry late:
\* its server, its manager, a query (update_instance).
TerminalIsFinal ==
    [][entry.phase \in Terminal /\ entry'.launch = entry.launch => entry'.phase \in Terminal]_vars

\* The manager that launched it was killed before it bound the container.
Orphaned(ref) == ref # "bound" /\ \E m \in Managers : manager[m].at = "dead"

\* repair_registration marks no launch stopped whose container runs, unless
\* the manager that created the container was killed before it bound it.
RetiredIsDead ==
    [][Repair /\ Up /\ container.launch = entry.launch => Orphaned(entry.ref)]_vars

\* A server's claim is taken away by nobody while its container runs, with the
\* same exception (LockRecovery.dead).
LiveKeepsClaim ==
    [][claim.by = "server" /\ claim' # claim =>
          ServerLeaves \/ ~Up \/ ~Up' \/ Orphaned(claim.ref)]_vars

\* What there is of the entry's launch, and what the entry says of it.
Preparing == {"intent", "stage", "prepared", "run"}
Busy == \E m \in Managers : manager[m].at \in Preparing
Life ==
    CASE helpers # {} -> "coming"
      [] helpers = {} /\ container # NoContainer -> "there"
      [] helpers = {} /\ container = NoContainer /\ Busy -> "begun"
      [] helpers = {} /\ container = NoContainer /\ ~Busy -> "gone"
Said ==
    CASE entry.phase = "preparing" -> "begun"
      [] entry.phase \in Reporting -> "serving"
      [] entry.phase \notin Active -> "over"

\* The entry, the container and the managers behave as LaunchContract promises.
Contract == INSTANCE LaunchContract WITH
    launch <- entry.launch, life <- Life, report <- Said, known <- entry.ref # "none"

KeepsLaunchContract == Contract!Spec
=============================================================================
