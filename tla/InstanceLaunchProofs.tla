------------------------ MODULE InstanceLaunchProofs ------------------------
(***************************************************************************)
(* Proofs about the launching of an agent, for any number of managers, of  *)
(* launches and of faults.                                                 *)
(***************************************************************************)
EXTENDS InstanceLaunch, TLAPS

Entries ==
    [launch : 0..MaxLaunches, op : Managers \cup {"none"}, ref : Refs, phase : Phases]
Claims == [by : Managers \cup {"none", "server", "query"}, launch : 0..MaxLaunches, ref : Refs]
Containers == [launch : 0..MaxLaunches, state : {"none", "up", "down"}]
Stages == [launch : 0..MaxLaunches, torn : BOOLEAN]
Servers == {"none", "boot", "starting", "serving", "closing", "done"}
QueryStates == [at : {"idle", "inspected", "looked", "repair"}, entry : Entries]
ManagerStates ==
    [at : Places, goal : {"none", "start", "stop", "follow"}, launch : 0..MaxLaunches,
     ref : Refs, seen : {"none", "up", "down"}, spent : BOOLEAN]

(***************************************************************************)
(* What the writers make of the entry.                                     *)
(***************************************************************************)

(* A change keeps the operation, and of the same launch it leaves one that *)
(* is over as it is.                                                       *)
Final(e, f) == e.phase \in Terminal /\ f.launch = e.launch => f.phase \in Terminal
Amends(e, f) == f \in Entries /\ f.op = e.op /\ Final(e, f)

LEMMA SameAmends == ASSUME NEW e \in Entries PROVE Amends(e, e)
  BY DEF Amends, Final

LEMMA PatchedAmends ==
    ASSUME NEW e \in Entries, NEW l, NEW p \in Active \cup Terminal
    PROVE  Amends(e, Patched(e, l, p))
  BY DEF Amends, Final, Patched, Patches, Entries, Phases, Active, Terminal

LEMMA OverAmends == ASSUME NEW e \in Entries PROVE Amends(e, Over(e))
  BY DEF Amends, Final, Over, Entries, Phases, Active, Terminal

LEMMA WithRefAmends ==
    ASSUME NEW e \in Entries, NEW ref \in Refs PROVE Amends(e, WithRef(e, ref))
  BY DEF Amends, Final, WithRef, Entries

LEMMA ClearedAmends == ASSUME NEW e \in Entries, NEW h PROVE Amends(e, Cleared(e, h))
<1> DEFINE w == WithRef(e, "none")
<1>1. w \in Entries /\ w.op = e.op /\ w.launch = e.launch /\ w.phase = e.phase
  BY DEF WithRef, Entries, Refs
<1>2. Amends(w, Over(w))
  BY <1>1, OverAmends
<1> HIDE DEF w
<1>3. Amends(e, Over(w))
  BY <1>1, <1>2 DEF Amends, Final
<1> QED
  BY <1>3, SameAmends DEF Cleared, w

LEMMA BegunAmends ==
    ASSUME NEW e \in Entries, e.launch + 1 \in 0..MaxLaunches
    PROVE  Amends(e, Begun(e, e.launch + 1))
<1> DEFINE b == Begun(e, e.launch + 1)
<1>1. b \in Entries /\ b.op = e.op /\ b.launch = e.launch + 1
  BY DEF Begun, Entries, Phases, Active
<1>2. e.launch + 1 # e.launch
  BY DEF Entries
<1> QED
  BY <1>1, <1>2 DEF Amends, Final

(***************************************************************************)
(* The moves of a manager.                                                 *)
(***************************************************************************)

(* f is the managers with another state of m.                              *)
Moves(m, f) ==
    /\ f \in [Managers -> ManagerStates]
    /\ \A n \in Managers \ {m} : f[n] = manager[n]

LEMMA ThenMoves ==
    ASSUME manager \in [Managers -> ManagerStates], NEW m \in Managers, NEW p \in Places
    PROVE  /\ Moves(m, Then(m, p))
           /\ Then(m, p)[m].at = p /\ Then(m, p)[m].goal = manager[m].goal
           /\ Then(m, p)[m].launch = manager[m].launch
  BY DEF Moves, Then, ManagerStates

LEMMA SawMoves ==
    ASSUME manager \in [Managers -> ManagerStates], NEW m \in Managers, NEW p \in Places,
           NEW s \in {"none", "up", "down"}
    PROVE  /\ Moves(m, Saw(m, p, s))
           /\ Saw(m, p, s)[m].at = p /\ Saw(m, p, s)[m].goal = manager[m].goal
           /\ Saw(m, p, s)[m].launch = manager[m].launch
  BY DEF Moves, Saw, ManagerStates

LEMMA IdleTyped ==
    IdleManager \in ManagerStates /\ IdleManager.at = "idle" /\ IdleManager.goal = "none"
  BY InstanceLaunchAssumption DEF IdleManager, ManagerStates, Places, Refs

LEMMA IdleMoves ==
    ASSUME manager \in [Managers -> ManagerStates], NEW m \in Managers
    PROVE  /\ Moves(m, Idle(m))
           /\ Idle(m)[m].at = "idle" /\ Idle(m)[m].goal = "none"
  BY IdleTyped DEF Moves, Idle

LEMMA RaisedMoves ==
    ASSUME manager \in [Managers -> ManagerStates], NEW m \in Managers
    PROVE  /\ Moves(m, Raised(m))
           /\ \/ manager[m].goal = "follow" /\ Raised(m)[m].at = "idle" /\ Raised(m)[m].goal = "none"
              \/ manager[m].goal # "follow" /\ Raised(m)[m].at = "end" /\ Raised(m)[m].goal = "none"
<1>1. CASE manager[m].goal = "follow"
  BY <1>1, IdleMoves DEF Raised
<1>2. CASE manager[m].goal # "follow"
  <2>1. Moves(m, Then(m, "end"))
    BY ThenMoves DEF Places, InOperation, Updates
  <2>2. Raised(m) = [Then(m, "end") EXCEPT ![m].goal = "none"]
    BY <1>2 DEF Raised
  <2>3. Then(m, "end")[m].at = "end"
    BY ThenMoves DEF Places, InOperation, Updates
  <2> QED
    BY <1>2, <2>1, <2>2, <2>3 DEF Moves, ManagerStates
<1> QED
  BY <1>1, <1>2

LEMMA GoneMoves ==
    ASSUME manager \in [Managers -> ManagerStates], NEW m \in Managers
    PROVE  /\ Moves(m, Gone(m))
           /\ \/ manager[m].goal = "start" /\ Gone(m)[m].at = "begin" /\ Gone(m)[m].goal = "start"
              \/ manager[m].goal = "stop" /\ Gone(m)[m].at = "end" /\ Gone(m)[m].goal = "stop"
              \/ manager[m].goal \notin {"start", "stop"} /\ Gone(m)[m].at = "idle" /\ Gone(m)[m].goal = "none"
  BY ThenMoves, IdleMoves DEF Gone, Places, InOperation, Updates

(* A follower stops and releases without the operation, nobody else        *)
(* follows, and what is prepared is of a launch that has begun.            *)
Loosely == {"halt", "halted", "release", "released", "unstage", "clear"}
Proper(x) ==
    /\ x.goal = "follow" => x.at \in Loosely \cup {"end", "follow"}
    /\ x.at = "follow" => x.goal = "follow"
    /\ x.at \in Preparing => x.launch # 0
Within(x) == x.at \in InOperation /\ ~(x.goal = "follow" /\ x.at \in Releasing \cup {"clear"})

(* A move of m that does not enter the operation.                          *)
Turns(m, f) ==
    /\ Moves(m, f)
    /\ Proper(f[m])
    /\ Within(f[m]) => Within(manager[m])

LEMMA MovesTurn ==
    ASSUME manager \in [Managers -> ManagerStates], NEW m \in Managers,
           Proper(manager[m]), manager[m].at \in InOperation \ {"end"},
           NEW p \in InOperation, manager[m].at \in Loosely => p \in Loosely,
           p \in Preparing => manager[m].at \in Preparing,
           NEW s \in {"none", "up", "down"}
    PROVE  Turns(m, Then(m, p)) /\ Turns(m, Saw(m, p, s))
<1>1. p \in Places
  BY DEF Places
<1>2. /\ Then(m, p)[m].at = p /\ Then(m, p)[m].goal = manager[m].goal
      /\ Saw(m, p, s)[m].at = p /\ Saw(m, p, s)[m].goal = manager[m].goal
      /\ Then(m, p)[m].launch = manager[m].launch /\ Saw(m, p, s)[m].launch = manager[m].launch
      /\ Moves(m, Then(m, p)) /\ Moves(m, Saw(m, p, s))
  BY <1>1, ThenMoves, SawMoves
<1>3. Loosely \subseteq Releasing \cup {"clear"}
  BY DEF Loosely, Releasing
<1>4. p # "follow" /\ manager[m].at # "follow"
  BY DEF InOperation, Updates, Releasing, Launching
<1> QED
  BY <1>2, <1>3, <1>4 DEF Turns, Proper, Within

LEMMA EndsTurn ==
    ASSUME manager \in [Managers -> ManagerStates], NEW m \in Managers,
           Proper(manager[m]), manager[m].at \in InOperation \ {"end"}
    PROVE  Turns(m, Raised(m)) /\ Turns(m, Gone(m))
<1>1. manager[m].at # "follow" /\ {"idle", "begin", "end"} \cap Preparing = {}
      /\ "idle" \notin InOperation
  BY DEF InOperation, Updates, Releasing, Launching, Preparing
<1>2. Turns(m, Raised(m))
  BY <1>1, RaisedMoves DEF Turns, Proper, Within
<1>3. Turns(m, Gone(m))
  BY <1>1, GoneMoves DEF Turns, Proper, Within
<1> QED
  BY <1>2, <1>3

(***************************************************************************)
(* Types.                                                                  *)
(***************************************************************************)

Typed ==
    /\ entry \in Entries /\ claim \in Claims /\ container \in Containers
    /\ helpers \subseteq Launches /\ stage \in Stages /\ server \in Servers
    /\ manager \in [Managers -> ManagerStates]
    /\ query \in QueryStates /\ faults \in 0..MaxFaults

LEMMA TypedIsTypeOK == Typed => TypeOK
  BY DEF Typed, TypeOK, Entries, Claims, Containers, Stages, Servers, ManagerStates, QueryStates

LEMMA ClaimsTyped ==
    /\ NoClaim \in Claims
    /\ \A p \in Managers \cup {"server", "query"} : ClaimOf(p) \in Claims
  BY InstanceLaunchAssumption DEF NoClaim, ClaimOf, Claims, Refs

LEMMA WritesTyped ==
    ASSUME Typed, NEW m \in Managers, NEW e \in Entries, Writes(m, e),
           manager' \in [Managers -> ManagerStates]
    PROVE  Typed' /\ entry' = e
  BY ClaimsTyped DEF Typed, Writes, Entries, Claims, Containers, Stages, Servers

LEMMA OnlyTyped ==
    ASSUME Typed, NEW m \in Managers, NEW f \in [Managers -> ManagerStates], Only(m, f)
    PROVE  Typed' /\ entry' = entry /\ manager' = f
  BY DEF Typed, Only

LEMMA BecomesTyped ==
    ASSUME Typed, NEW l \in 0..MaxLaunches, NEW c \in Containers, Becomes(l, c)
    PROVE  container' \in Containers /\ server' \in Servers /\ claim' \in Claims
<1>1. Left \subseteq Claims
  BY DEF Typed, Left, ServerClaims, Claims, Entries, Containers, Refs
<1> QED
  BY <1>1 DEF Typed, Becomes, Servers

LEMMA StoppedTyped ==
    ASSUME Typed, NEW l \in 0..MaxLaunches, Stopped(l)
    PROVE  container' \in Containers /\ server' \in Servers /\ claim' \in Claims
<1>1. PICK c \in {[launch |-> l, state |-> "down"], NoContainer} : Becomes(l, c)
  BY DEF Stopped
<1>2. c \in Containers
  BY InstanceLaunchAssumption DEF NoContainer, Containers
<1> QED
  BY <1>1, <1>2, BecomesTyped

(***************************************************************************)
(* The steps of a manager inside the operation, or of a follower, that     *)
(* neither take nor end it.                                                *)
(***************************************************************************)

Amid(m) ==
    /\ Typed /\ m \in Managers
    /\ Proper(manager[m]) /\ manager[m].at \in InOperation \ {"end"}
Steps(m) == Typed' /\ Turns(m, manager') /\ Amends(entry, entry')

LEMMA OnlySteps ==
    ASSUME NEW m, Amid(m), NEW f, Only(m, f), Turns(m, f) PROVE Steps(m)
  BY OnlyTyped, SameAmends DEF Amid, Steps, Turns, Moves, Typed

LEMMA WritesSteps ==
    ASSUME NEW m, Amid(m), NEW e, Amends(entry, e), Writes(m, e), Turns(m, manager')
    PROVE  Steps(m)
  BY WritesTyped DEF Amid, Steps, Turns, Moves, Amends

(* Where a step at p may go: to q, keeping to the places of a follower.    *)
LEMMA GoesOn ==
    ASSUME NEW m, Amid(m), NEW q \in InOperation,
           manager[m].at \in Loosely => q \in Loosely,
           q \in Preparing => manager[m].at \in Preparing,
           NEW s \in {"none", "up", "down"}
    PROVE  Turns(m, Then(m, q)) /\ Turns(m, Saw(m, q, s))
  BY MovesTurn DEF Amid, Typed

LEMMA GoesOut ==
    ASSUME NEW m, Amid(m) PROVE Turns(m, Raised(m)) /\ Turns(m, Gone(m))
  BY EndsTurn DEF Amid, Typed

LEMMA LoadSteps == ASSUME NEW m, Amid(m), Load(m) PROVE Steps(m)
<1> DEFINE p == IF manager[m].goal = "start" THEN "probe" ELSE "halt"
           f == [manager EXCEPT ![m].at = p, ![m].launch = entry.launch, ![m].ref = entry.ref]
           g == [Then(m, "retire") EXCEPT ![m].launch = entry.launch]
<1>1. manager[m].goal # "follow" /\ manager[m].at = "load"
  BY DEF Load, On, Amid, Proper, Loosely
<1>2. f \in [Managers -> ManagerStates] /\ g \in [Managers -> ManagerStates]
  <2>1. entry.launch \in 0..MaxLaunches /\ entry.ref \in Refs
    BY DEF Amid, Typed, Entries
  <2>2. manager \in [Managers -> ManagerStates] /\ m \in Managers
    BY DEF Amid, Typed
  <2>3. p \in Places /\ "retire" \in Places
    BY DEF Places, InOperation, Updates, Releasing
  <2>4. f \in [Managers -> ManagerStates]
    <3> HIDE DEF p
    <3> QED
      BY <2>1, <2>2, <2>3 DEF ManagerStates
  <2>5. Then(m, "retire") \in [Managers -> ManagerStates]
    BY <2>2, <2>3, ThenMoves DEF Moves
  <2>6. g \in [Managers -> ManagerStates]
    BY <2>1, <2>2, <2>5 DEF ManagerStates
  <2> QED
    BY <2>4, <2>6
<1>3. /\ \A n \in Managers \ {m} : f[n] = manager[n] /\ g[n] = manager[n]
      /\ f[m].at \in {"probe", "halt"} /\ f[m].goal = manager[m].goal
      /\ g[m].at = "retire" /\ g[m].goal = manager[m].goal
  BY DEF Amid, Typed, ManagerStates, Then
<1>4. Turns(m, f) /\ Turns(m, g)
  BY <1>1, <1>2, <1>3 DEF Turns, Moves, Proper, Within, Preparing, InOperation, Releasing
<1> HIDE DEF f, g
<1>5. \/ Only(m, f) \/ Only(m, g) \/ Only(m, Raised(m)) \/ Only(m, Gone(m))
  BY DEF Load, f, g
<1> QED
  BY <1>4, <1>5, OnlySteps, GoesOut

LEMMA InspectSteps ==
    ASSUME NEW m, Amid(m), NEW p \in InOperation, NEW q \in InOperation,
           p \in Loosely => q \in Loosely, q \notin Preparing, Inspect(m, p, q)
    PROVE  Steps(m)
<1>1. Found(Handle(m)) \in {"none", "up", "down"}
  BY DEF Amid, Typed, Containers, Found
<1>2. Turns(m, Raised(m)) /\ Turns(m, Saw(m, q, Found(Handle(m))))
  BY <1>1, GoesOn, GoesOut DEF Inspect, On
<1> QED
  BY <1>2, OnlySteps DEF Inspect

LEMMA SavesSteps ==
    ASSUME NEW m, Amid(m), NEW p, NEW ref \in Refs, NEW next \in InOperation,
           NEW raised \in InOperation, p \notin Loosely,
           next \in Preparing => p \in Preparing, raised \notin Preparing,
           Saves(m, p, ref, next, raised)
    PROVE  Steps(m)
<1>1. Turns(m, Then(m, next)) /\ Turns(m, Then(m, raised))
  BY GoesOn DEF Saves, On
<1>2. Amends(entry, WithRef(entry, ref))
  BY WithRefAmends DEF Amid, Typed
<1> QED
  BY <1>1, <1>2, OnlySteps, WritesSteps DEF Saves

LEMMA StageTyped ==
    ASSUME NEW m, Amid(m), NEW l \in 0..MaxLaunches
    PROVE  /\ Unstaged(l) \in Stages
           /\ \A torn \in BOOLEAN : [launch |-> l, torn |-> torn] \in Stages
           /\ manager[m].launch \in 0..MaxLaunches
           /\ NoContainer \in Containers
  BY InstanceLaunchAssumption
     DEF Amid, Typed, Unstaged, NoStage, Stages, NoContainer, Containers, ManagerStates

(* The container or the directory changes, the entry does not.             *)
LEMMA ReleasingSteps ==
    ASSUME NEW m, Amid(m),
           \/ UNCHANGED <<container, server, claim>>
           \/ Becomes(manager[m].launch, NoContainer)
           \/ Stopped(manager[m].launch),
           \/ UNCHANGED stage
           \/ stage' = Unstaged(manager[m].launch)
           \/ \E torn \in BOOLEAN : stage' = [launch |-> manager[m].launch, torn |-> torn],
           Turns(m, manager'),
           helpers' \in {helpers, helpers \cup {manager[m].launch}},
           manager[m].launch # 0 \/ UNCHANGED helpers,
           UNCHANGED <<entry, query, faults>>
    PROVE  Steps(m)
<1>1. manager[m].launch \in 0..MaxLaunches /\ NoContainer \in Containers
  BY StageTyped, InstanceLaunchAssumption DEF Amid, Typed, ManagerStates
<1>2. container' \in Containers /\ server' \in Servers /\ claim' \in Claims
  BY <1>1, BecomesTyped, StoppedTyped DEF Amid, Typed
<1>3. stage' \in Stages
  BY <1>1, StageTyped DEF Amid, Typed
<1>4. helpers' \subseteq Launches
  BY <1>1 DEF Amid, Typed, Launches
<1>5. Amends(entry, entry') /\ entry' \in Entries
  BY SameAmends DEF Amid, Typed
<1> QED
  BY <1>2, <1>3, <1>4, <1>5 DEF Amid, Typed, Steps, Turns, Moves

(* A removal that is cut short leaves a directory of the same launch.      *)
LEMMA CutShortLeaves ==
    ASSUME NEW l, CutShort(l)
    PROVE  \E torn \in BOOLEAN : stage' = [launch |-> l, torn |-> torn]
  BY DEF CutShort

(* What an earlier launch left.                                            *)
LEMMA RetireSteps == ASSUME NEW m, Amid(m), Retire(m) PROVE Steps(m)
<1>1. Amends(entry, Patched(entry, manager[m].launch, "stopped"))
  BY PatchedAmends DEF Amid, Typed, Terminal
<1> QED
  BY <1>1, GoesOut, WritesSteps DEF Retire

LEMMA ProbingSteps ==
    ASSUME NEW m, Amid(m), Probe(m) \/ Halt(m) \/ Release(m) PROVE Steps(m)
  BY InspectSteps DEF Probe, Halt, Release, InOperation, Releasing, Loosely, Preparing

LEMMA ProbedSteps == ASSUME NEW m, Amid(m), Probed(m) PROVE Steps(m)
<1>1. Turns(m, Then(m, "release"))
  BY GoesOn DEF Probed, On, InOperation, Releasing, Loosely, Preparing
<1>2. Only(m, Raised(m)) \/ Only(m, Then(m, "release"))
  BY DEF Probed
<1> QED
  BY <1>1, <1>2, GoesOut, OnlySteps

LEMMA HaltedSteps == ASSUME NEW m, Amid(m), Halted(m) PROVE Steps(m)
<1>1. Turns(m, Then(m, "release"))
  BY GoesOn DEF Halted, On, InOperation, Releasing, Loosely, Preparing
<1>2. CASE Only(m, Raised(m)) \/ Only(m, Then(m, "release"))
  BY <1>1, <1>2, GoesOut, OnlySteps
<1>3. CASE /\ Stopped(manager[m].launch) /\ manager' = Then(m, "release")
           /\ UNCHANGED <<entry, helpers, stage, query, faults>>
  BY <1>1, <1>3, ReleasingSteps
<1> QED
  BY <1>2, <1>3 DEF Halted

LEMMA ReleasedSteps == ASSUME NEW m, Amid(m), Released(m) PROVE Steps(m)
<1>1. Turns(m, Then(m, "unstage"))
  BY GoesOn DEF Released, On, InOperation, Releasing, Loosely, Preparing
<1>2. CASE Only(m, Raised(m)) \/ Only(m, Then(m, "unstage"))
  BY <1>1, <1>2, GoesOut, OnlySteps
<1>3. CASE /\ Becomes(manager[m].launch, NoContainer) /\ manager' = Then(m, "unstage")
           /\ UNCHANGED <<entry, helpers, stage, query, faults>>
  BY <1>1, <1>3, ReleasingSteps
<1> QED
  BY <1>2, <1>3 DEF Released

LEMMA UnstageSteps == ASSUME NEW m, Amid(m), Unstage(m) PROVE Steps(m)
<1>1. Turns(m, Then(m, "clear"))
  BY GoesOn DEF Unstage, On, InOperation, Updates, Loosely, Preparing
<1> QED
  BY <1>1, ReleasingSteps DEF Unstage

LEMMA UnstageFailsSteps == ASSUME NEW m, Amid(m), UnstageFails(m) PROVE Steps(m)
<1>1. Turns(m, Raised(m)) /\ manager' = Raised(m)
  BY GoesOut DEF UnstageFails
<1>2. \E torn \in BOOLEAN : stage' = [launch |-> manager[m].launch, torn |-> torn]
  BY CutShortLeaves DEF UnstageFails
<1> QED
  BY <1>1, <1>2, ReleasingSteps DEF UnstageFails

LEMMA ClearSteps == ASSUME NEW m, Amid(m), Clear(m) PROVE Steps(m)
<1>1. Amends(entry, Cleared(entry, Handle(m)))
  BY ClearedAmends DEF Amid, Typed
<1> QED
  BY <1>1, GoesOut, WritesSteps DEF Clear

(* A new launch.                                                           *)
LEMMA BeginSteps == ASSUME NEW m, Amid(m), Begin(m) PROVE Steps(m)
<1>1. CASE Only(m, Raised(m))
  BY <1>1, GoesOut, OnlySteps
<1>2. CASE /\ entry.launch < MaxLaunches
           /\ Writes(m, Begun(entry, entry.launch + 1))
           /\ manager' = [Then(m, "intent") EXCEPT ![m].launch = entry.launch + 1, ![m].ref = "none"]
  <2> DEFINE f == Then(m, "intent")
             l == entry.launch + 1
  <2>1. l \in 0..MaxLaunches /\ l # 0
    BY <1>2, InstanceLaunchAssumption DEF Amid, Typed, Entries
  <2>2. Amends(entry, Begun(entry, l))
    BY <2>1, BegunAmends DEF Amid, Typed
  <2>3. /\ Moves(m, f) /\ f[m].at = "intent" /\ f[m].goal = manager[m].goal
        /\ manager[m].at = "begin" /\ m \in Managers
    BY ThenMoves DEF Amid, Typed, Begin, On, Places, InOperation, Updates
  <2>4. manager' = [f EXCEPT ![m].launch = l, ![m].ref = "none"]
    BY <1>2
  <2> HIDE DEF f, l
  <2>5. manager' \in [Managers -> ManagerStates]
    <3>1. f \in [Managers -> ManagerStates] /\ "none" \in Refs
      BY <2>3 DEF Moves, Refs
    <3>2. [f[m] EXCEPT !.launch = l, !.ref = "none"] \in ManagerStates
      BY <2>1, <2>3, <3>1 DEF ManagerStates
    <3>3. manager' = [f EXCEPT ![m] = [f[m] EXCEPT !.launch = l, !.ref = "none"]]
      BY <2>3, <2>4, <3>1 DEF ManagerStates
    <3> QED
      BY <3>1, <3>2, <3>3
  <2>6. /\ manager'[m].at = "intent" /\ manager'[m].goal = manager[m].goal
        /\ manager'[m].launch = l
        /\ \A n \in Managers \ {m} : manager'[n] = manager[n]
    BY <2>3, <2>4 DEF Moves, ManagerStates
  <2>7. manager[m].goal # "follow"
    BY <2>3 DEF Amid, Proper, Loosely
  <2>8. Turns(m, manager')
    BY <2>1, <2>3, <2>5, <2>6, <2>7 DEF Turns, Moves, Proper, Within, InOperation, Updates
  <2> QED
    BY <1>2, <2>2, <2>8, WritesSteps DEF l
<1> QED
  BY <1>1, <1>2 DEF Begin

LEMMA SavingSteps ==
    ASSUME NEW m, Amid(m), Intent(m) \/ Prepared(m) \/ Rebind(m) \/ Bind(m)
    PROVE  Steps(m)
  BY SavesSteps DEF Intent, Prepared, Rebind, Bind, Refs, InOperation, Updates, Launching,
                    Loosely, Preparing

LEMMA StageSteps == ASSUME NEW m, Amid(m), Stage(m) PROVE Steps(m)
<1>1. Turns(m, Then(m, "prepared"))
  BY GoesOn DEF Stage, On, InOperation, Updates, Loosely, Preparing
<1>2. stage' = [launch |-> manager[m].launch, torn |-> FALSE]
  BY DEF Stage
<1> QED
  BY <1>1, <1>2, ReleasingSteps DEF Stage

LEMMA StageFailsSteps == ASSUME NEW m, Amid(m), StageFails(m) PROVE Steps(m)
<1>1. Turns(m, Then(m, "abort"))
  BY GoesOn DEF StageFails, On, InOperation, Updates, Launching, Loosely, Preparing
<1>2. \E torn \in BOOLEAN : stage' = [launch |-> manager[m].launch, torn |-> torn]
  BY DEF StageFails
<1> QED
  BY <1>1, <1>2, ReleasingSteps DEF StageFails

LEMMA RunSteps == ASSUME NEW m, Amid(m), Run(m) PROVE Steps(m)
<1>1. Turns(m, Then(m, "await"))
  BY GoesOn DEF Run, On, InOperation, Launching, Loosely, Preparing
<1>2. manager[m].launch # 0
  BY DEF Run, On, Amid, Proper, Preparing
<1> QED
  BY <1>1, <1>2, ReleasingSteps DEF Run

LEMMA UndoSteps == ASSUME NEW m, Amid(m), Undo(m) PROVE Steps(m)
<1>1. Turns(m, Then(m, "quit"))
  BY GoesOn DEF Undo, On, InOperation, Launching, Loosely, Preparing
<1>2. \/ stage' = Unstaged(manager[m].launch)
      \/ \E torn \in BOOLEAN : stage' = [launch |-> manager[m].launch, torn |-> torn]
  BY CutShortLeaves DEF Undo
<1> QED
  BY <1>1, <1>2, ReleasingSteps DEF Undo

(* Steps that only go on.                                                  *)
LEMMA WaitingSteps ==
    ASSUME NEW m, Amid(m), PrepareFails(m) \/ UndoFails(m) \/ Ready(m) \/ NotReady(m)
    PROVE  Steps(m)
<1>1. manager[m].at \in {"intent", "stage", "run", "undo", "ready"}
  BY DEF PrepareFails, UndoFails, Ready, NotReady, On
<1>2. \A q \in {"abort", "rebind", "remember", "quit"} : Turns(m, Then(m, q))
  BY <1>1, GoesOn DEF InOperation, Updates, Launching, Loosely, Preparing
<1>3. \E q \in {"abort", "rebind", "remember", "quit"} : Only(m, Then(m, q))
  BY DEF PrepareFails, UndoFails, Ready, NotReady
<1> QED
  BY <1>2, <1>3, OnlySteps

LEMMA RememberSteps ==
    ASSUME NEW m, Amid(m), NEW goal \in {"none", "follow"}, Remember(m, goal)
    PROVE  Steps(m)
<1> DEFINE f == Then(m, "end")
<1>1. /\ Moves(m, f) /\ f[m].at = "end" /\ m \in Managers
      /\ manager[m].at = "remember"
  BY ThenMoves DEF Amid, Typed, Remember, On, Places, InOperation, Updates
<1>2. manager' = [f EXCEPT ![m].goal = goal] /\ Writes(m, entry)
  BY DEF Remember
<1> HIDE DEF f
<1>3. manager' \in [Managers -> ManagerStates]
  BY <1>1, <1>2 DEF Moves, ManagerStates
<1>4. /\ manager'[m].at = "end"
      /\ \A n \in Managers \ {m} : manager'[n] = manager[n]
  BY <1>1, <1>2 DEF Moves, ManagerStates
<1>5. Within(manager[m])
  BY <1>1 DEF Within, InOperation, Updates, Releasing
<1>6. Turns(m, manager')
  BY <1>3, <1>4, <1>5 DEF Turns, Moves, Proper, Preparing
<1>7. Amends(entry, entry)
  BY SameAmends DEF Amid, Typed
<1> QED
  BY <1>2, <1>6, <1>7, WritesSteps

(* A launch that failed.                                                   *)
LEMMA QuitSteps == ASSUME NEW m, Amid(m), Quit(m) PROVE Steps(m)
<1>1. Turns(m, Then(m, "drop"))
  BY GoesOn DEF Quit, On, InOperation, Launching, Loosely, Preparing
<1>2. CASE Only(m, Then(m, "drop"))
  BY <1>1, <1>2, OnlySteps
<1>3. CASE /\ Stopped(manager[m].launch) /\ manager' = Then(m, "drop")
           /\ UNCHANGED <<entry, helpers, stage, query, faults>>
  BY <1>1, <1>3, ReleasingSteps
<1> QED
  BY <1>2, <1>3 DEF Quit

LEMMA DropSteps == ASSUME NEW m, Amid(m), Drop(m) PROVE Steps(m)
<1>1. Turns(m, Then(m, "fail")) /\ Turns(m, Then(m, "dropped"))
  BY GoesOn DEF Drop, On, InOperation, Updates, Loosely, Preparing
<1>2. CASE Only(m, Then(m, "fail"))
  BY <1>1, <1>2, OnlySteps
<1>3. CASE /\ Becomes(manager[m].launch, NoContainer)
           /\ stage' = Unstaged(manager[m].launch)
           /\ manager' = Then(m, "dropped")
           /\ UNCHANGED <<entry, helpers, query, faults>>
  BY <1>1, <1>3, ReleasingSteps
<1>4. CASE /\ Becomes(manager[m].launch, NoContainer)
           /\ CutShort(manager[m].launch)
           /\ manager' = Then(m, "fail")
           /\ UNCHANGED <<entry, helpers, query, faults>>
  BY <1>1, <1>4, CutShortLeaves, ReleasingSteps
<1> QED
  BY <1>2, <1>3, <1>4 DEF Drop

LEMMA DroppedSteps == ASSUME NEW m, Amid(m), Dropped(m) PROVE Steps(m)
<1>1. Turns(m, Then(m, "fail"))
  BY GoesOn DEF Dropped, On, InOperation, Updates, Loosely, Preparing
<1>2. Amends(entry, Cleared(entry, Handle(m)))
  BY ClearedAmends DEF Amid, Typed
<1> QED
  BY <1>1, <1>2, WritesSteps DEF Dropped

LEMMA FailSteps == ASSUME NEW m, Amid(m), Fail(m) \/ Abort(m) PROVE Steps(m)
<1>1. Amends(entry, Patched(entry, manager[m].launch, "failed"))
  BY PatchedAmends DEF Amid, Typed, Terminal
<1>2. CASE Fail(m)
  <2>1. Turns(m, Then(m, "load"))
    BY <1>2, GoesOn DEF Fail, On, InOperation, Releasing, Loosely, Preparing
  <2>2. PICK next \in {Raised(m), Then(m, "load")} :
           \/ Only(m, next)
           \/ Writes(m, Patched(entry, manager[m].launch, "failed")) /\ manager' = next
    BY <1>2 DEF Fail
  <2>3. Turns(m, next)
    BY <2>1, GoesOut
  <2> QED
    BY <1>1, <2>2, <2>3, OnlySteps, WritesSteps
<1>3. CASE Abort(m)
  BY <1>1, <1>3, GoesOut, WritesSteps DEF Abort
<1> QED
  BY <1>2, <1>3

(***************************************************************************)
(* The steps of a manager elsewhere, other than taking the operation.      *)
(***************************************************************************)

LEMMA BeginsSteps ==
    ASSUME Typed, NEW m \in Managers, NEW goal \in {"start", "stop"}, Begins(m, goal)
    PROVE  Steps(m)
<1> DEFINE x == [IdleManager EXCEPT !.at = "claim", !.goal = goal]
           f == [manager EXCEPT ![m] = x]
<1>1. x \in ManagerStates /\ x.at = "claim" /\ x.goal = goal
  <2>1. "claim" \in Places
    BY DEF Places
  <2> QED
    BY <2>1, IdleTyped DEF ManagerStates
<1>2. Proper(x) /\ ~Within(x)
  BY <1>1 DEF Proper, Within, Preparing, InOperation, Updates, Releasing, Launching
<1> HIDE DEF x
<1>3. Turns(m, f)
  BY <1>1, <1>2 DEF Typed, Turns, Moves
<1>4. Only(m, f)
  BY DEF Begins, x
<1> QED
  BY <1>3, <1>4, OnlyTyped, SameAmends DEF Steps, Typed, Turns, Moves

LEMMA LeaveSteps ==
    ASSUME Typed, NEW m \in Managers, Proper(manager[m]), Leave(m) PROVE Steps(m)
<1>1. Turns(m, manager')
  BY DEF Leave, Typed, Turns, Moves
<1> QED
  BY <1>1, ClaimsTyped, SameAmends DEF Leave, Typed, Steps

LEMMA SpendSteps ==
    ASSUME Typed, NEW m \in Managers, Proper(manager[m]), Spend(m) PROVE Steps(m)
<1> DEFINE f == [manager EXCEPT ![m].spent = TRUE]
<1>1. f \in [Managers -> ManagerStates] /\ \A n \in Managers \ {m} : f[n] = manager[n]
  BY DEF Typed, ManagerStates
<1>2. f[m].at = manager[m].at /\ f[m].goal = manager[m].goal /\ f[m].launch = manager[m].launch
  BY DEF Typed, ManagerStates
<1>3. Only(m, f)
  BY DEF Spend
<1> HIDE DEF f
<1>4. Turns(m, f)
  BY <1>1, <1>2 DEF Turns, Moves, Proper, Within
<1> QED
  BY <1>3, <1>4, OnlyTyped, SameAmends DEF Steps, Typed, Turns, Moves

(* A follower goes on to places that it may be at outside the operation.   *)
LEMMA FollowSteps ==
    ASSUME Typed, NEW m \in Managers, Proper(manager[m]), Follow(m) PROVE Steps(m)
<1>1. \A q \in {"release", "halt"} : Turns(m, Then(m, q))
  <2> TAKE q \in {"release", "halt"}
  <2>1. Moves(m, Then(m, q)) /\ Then(m, q)[m].at = q /\ Then(m, q)[m].goal = manager[m].goal
    BY ThenMoves DEF Typed, Places, InOperation, Releasing
  <2>2. manager[m].goal = "follow"
    BY DEF Follow, On, Proper
  <2> QED
    BY <2>1, <2>2 DEF Turns, Proper, Within, Loosely, Preparing, Releasing
<1>2. PICK q \in {"release", "halt"} : Only(m, Then(m, q))
  BY DEF Follow
<1> QED
  BY <1>1, <1>2, OnlyTyped, SameAmends DEF Steps, Typed, Turns, Moves

LEMMA KillSteps ==
    ASSUME Typed, NEW m \in Managers, Kill(m) PROVE Steps(m)
<1> DEFINE x == [IdleManager EXCEPT !.at = "dead"]
<1>1. x \in ManagerStates /\ x.at = "dead" /\ x.goal = "none"
  <2>1. "dead" \in Places
    BY DEF Places
  <2> QED
    BY <2>1, IdleTyped DEF ManagerStates
<1>2. Proper(x) /\ ~Within(x)
  BY <1>1 DEF Proper, Within, Preparing, InOperation, Updates, Releasing, Launching
<1>3. manager' = [manager EXCEPT ![m] = x]
  BY DEF Kill
<1> HIDE DEF x
<1>4. Turns(m, manager')
  BY <1>1, <1>2, <1>3 DEF Typed, Turns, Moves
<1>5. claim' \in Claims
  BY ClaimsTyped DEF Kill, Typed
<1>6. stage' \in Stages
  <2>1. manager[m].launch \in 0..MaxLaunches
    BY DEF Typed, ManagerStates
  <2>2. stage' \in {stage, [launch |-> manager[m].launch, torn |-> TRUE]}
    BY DEF Kill
  <2>3. [launch |-> manager[m].launch, torn |-> TRUE] \in Stages
    BY <2>1 DEF Stages
  <2> QED
    BY <2>2, <2>3 DEF Typed
<1>7. faults' \in 0..MaxFaults
  BY InstanceLaunchAssumption DEF Kill, Typed
<1>8. UNCHANGED <<entry, container, helpers, server, query>>
  BY DEF Kill
<1> QED
  BY <1>4, <1>5, <1>6, <1>7, <1>8, SameAmends DEF Typed, Steps, Turns, Moves

LEMMA KillUnstagingSteps ==
    ASSUME Typed, NEW m \in Managers, KillUnstaging(m) PROVE Steps(m)
<1> DEFINE x == [IdleManager EXCEPT !.at = "dead"]
<1>1. x \in ManagerStates /\ x.at = "dead" /\ x.goal = "none"
  <2>1. "dead" \in Places
    BY DEF Places
  <2> QED
    BY <2>1, IdleTyped DEF ManagerStates
<1>2. Proper(x) /\ ~Within(x)
  BY <1>1 DEF Proper, Within, Preparing, InOperation, Updates, Releasing, Launching
<1>3. manager' = [manager EXCEPT ![m] = x]
  BY DEF KillUnstaging
<1> HIDE DEF x
<1>4. Turns(m, manager')
  BY <1>1, <1>2, <1>3 DEF Typed, Turns, Moves
<1>5. manager[m].launch \in 0..MaxLaunches /\ NoContainer \in Containers
  BY InstanceLaunchAssumption DEF Typed, ManagerStates, NoContainer, Containers
<1>6. container' \in Containers /\ server' \in Servers /\ claim' \in Claims
  <2>1. CASE UNCHANGED <<container, server, claim>>
    BY <2>1 DEF Typed
  <2>2. CASE Becomes(manager[m].launch, NoContainer)
    BY <1>5, <2>2, BecomesTyped
  <2> QED
    BY <2>1, <2>2 DEF KillUnstaging
<1>7. stage' \in Stages
  BY <1>5, CutShortLeaves DEF KillUnstaging, Stages
<1>8. faults' \in 0..MaxFaults
  BY InstanceLaunchAssumption DEF KillUnstaging, Typed
<1>9. UNCHANGED <<entry, helpers, query>>
  BY DEF KillUnstaging
<1> QED
  BY <1>4, <1>6, <1>7, <1>8, <1>9, SameAmends DEF Typed, Steps, Turns, Moves

(***************************************************************************)
(* The steps of the server and of the queries.                             *)
(***************************************************************************)

Aside == Typed' /\ UNCHANGED manager /\ Amends(entry, entry')

LEMMA ServerClaimsTyped == ASSUME Typed PROVE ServerClaims \subseteq Claims
  BY DEF Typed, ServerClaims, Claims, Entries, Containers, Refs

LEMMA ServerOnlyAside ==
    ASSUME Typed, NEW next \in Servers, ServerOnly(next) PROVE Aside
  BY SameAmends DEF Typed, Aside, ServerOnly

LEMMA ServerPatchesAside ==
    ASSUME Typed, NEW next \in Servers, ServerPatches(next) PROVE Aside
  BY ServerClaimsTyped, SameAmends DEF Typed, Aside, ServerPatches

LEMMA ServerWritesAside ==
    ASSUME Typed, NEW phase \in Active, NEW next \in Servers, NEW raised \in Servers,
           ServerWrites(phase, next, raised)
    PROVE  Aside
<1>1. Amends(entry, Patched(entry, container.launch, phase)) /\ Amends(entry, entry)
  BY PatchedAmends, SameAmends DEF Typed
<1>2. claim' \in Claims /\ server' \in Servers /\ Amends(entry, entry')
  BY <1>1, ServerClaimsTyped DEF Typed, ServerWrites
<1> QED
  BY <1>2 DEF Typed, Aside, ServerWrites, Amends

LEMMA ServerFinalizesAside == ASSUME Typed, ServerFinalizes PROVE Aside
<1>1. CASE ServerOnly("done")
  BY <1>1, ServerOnlyAside DEF Servers
<1>2. CASE /\ \E phase \in Terminal : entry' = [entry EXCEPT !.phase = phase]
           /\ claim' \in ServerClaims
           /\ server' = "done"
           /\ UNCHANGED <<container, helpers, stage, manager, query, faults>>
  <2>1. Amends(entry, entry')
    BY <1>2 DEF Typed, Amends, Final, Entries, Phases
  <2>2. claim' \in Claims /\ server' \in Servers
    BY <1>2, ServerClaimsTyped DEF Servers
  <2> QED
    BY <1>2, <2>1, <2>2 DEF Typed, Aside, Amends
<1> QED
  BY <1>1, <1>2 DEF ServerFinalizes

LEMMA EndingAside == ASSUME Typed, ServerExits \/ ContainerDies PROVE Aside
<1>1. Stopped(container.launch) /\ container.launch \in 0..MaxLaunches
  BY DEF ServerExits, ContainerDies, Typed, Containers
<1>2. container' \in Containers /\ server' \in Servers /\ claim' \in Claims
  BY <1>1, StoppedTyped
<1>3. faults' \in 0..MaxFaults
  BY InstanceLaunchAssumption DEF ServerExits, ContainerDies, Typed
<1>4. UNCHANGED <<entry, helpers, stage, manager, query>>
  BY DEF ServerExits, ContainerDies
<1> QED
  BY <1>2, <1>3, <1>4, SameAmends DEF Typed, Aside

LEMMA ServesAside ==
    ASSUME Typed, Serves \/ ServerCloses \/ ContainerDies PROVE Aside
<1>1. ASSUME ServerStarts PROVE Aside
  BY <1>1, ServerWritesAside, ServerOnlyAside DEF ServerStarts, Active, Servers
<1>2. ASSUME ServerServes PROVE Aside
  BY <1>2, ServerWritesAside, ServerOnlyAside DEF ServerServes, Active, Servers
<1>3. ASSUME ServerCloses \/ ServerPromotes PROVE Aside
  BY <1>3, ServerOnlyAside, ServerPatchesAside DEF ServerCloses, ServerPromotes, Servers
<1>4. ASSUME ServerLeaves PROVE Aside
  BY <1>4, ClaimsTyped, SameAmends DEF ServerLeaves, Typed, Aside
<1> QED
  BY <1>1, <1>2, <1>3, <1>4, ServerFinalizesAside, EndingAside DEF Serves

LEMMA IdleQueryTyped == IdleQuery \in QueryStates
  BY InstanceLaunchAssumption DEF IdleQuery, NewEntry, QueryStates, Entries, Refs, Phases

LEMMA RepairAside == ASSUME Typed, Repair PROVE Aside
<1>1. Amends(entry, entry')
  BY OverAmends DEF Typed, Repair
<1>2. claim' \in Claims /\ query' \in QueryStates
  BY ClaimsTyped, IdleQueryTyped DEF Repair
<1> QED
  BY <1>1, <1>2 DEF Typed, Aside, Repair, Amends

LEMMA QueriesAside == ASSUME Typed, Queries PROVE Aside
<1>1. ASSUME NEW next \in QueryStates, QueryOnly(next) PROVE Aside
  BY <1>1, SameAmends DEF Typed, Aside, QueryOnly
<1>2. ASSUME QueryReads PROVE Aside
  BY <1>1, <1>2 DEF QueryReads, Typed, QueryStates
<1>3. ASSUME QueryLooks PROVE Aside
  <2>1. IdleQuery \in QueryStates /\ [query EXCEPT !.at = "looked"] \in QueryStates
    BY IdleQueryTyped DEF Typed, QueryStates
  <2> QED
    BY <1>1, <1>3, <2>1 DEF QueryLooks
<1>4. ASSUME QueryJudges PROVE Aside
  <2>1. IdleQuery \in QueryStates /\ [query EXCEPT !.at = "repair"] \in QueryStates
    BY IdleQueryTyped DEF Typed, QueryStates
  <2> QED
    BY <1>1, <1>4, <2>1 DEF QueryJudges
<1>5. ASSUME Defer PROVE Aside
  BY <1>5, ClaimsTyped, IdleQueryTyped, SameAmends DEF Defer, Typed, Aside
<1>6. ASSUME QueryRecovers \/ QueryLeaves PROVE Aside
  BY <1>6, ClaimsTyped, SameAmends DEF QueryRecovers, QueryLeaves, Typed, Aside
<1> QED
  BY <1>2, <1>3, <1>4, <1>5, <1>6, RepairAside DEF Queries

(***************************************************************************)
(* The invariant: who is inside the operation is its recorded owner.       *)
(***************************************************************************)

Owned == \A m \in Managers : Proper(manager[m]) /\ (Within(manager[m]) => entry.op = m)
Inv == Typed /\ Owned

LEMMA InitInv == Init => Inv
<1> SUFFICES ASSUME Init PROVE Inv
  OBVIOUS
<1>1. Typed
  <2>1. entry \in Entries /\ claim \in Claims /\ query \in QueryStates
    BY ClaimsTyped, IdleQueryTyped DEF Init, QueryStates, IdleQuery
  <2>2. container \in Containers /\ stage \in Stages /\ server \in Servers
    BY InstanceLaunchAssumption
       DEF Init, NoContainer, Containers, NoStage, Stages, Servers
  <2>3. manager \in [Managers -> ManagerStates] /\ helpers \subseteq Launches
    BY IdleTyped DEF Init
  <2>4. faults \in 0..MaxFaults
    BY InstanceLaunchAssumption DEF Init
  <2> QED
    BY <2>1, <2>2, <2>3, <2>4 DEF Typed
<1>2. Proper(IdleManager) /\ ~Within(IdleManager)
  BY IdleTyped DEF Proper, Within, Preparing, InOperation, Updates, Releasing, Launching
<1>3. Owned
  BY <1>2 DEF Init, Owned
<1> QED
  BY <1>1, <1>3 DEF Inv

(* Every action of a manager inside the operation.                         *)
LEMMA OperationSteps ==
    ASSUME NEW m \in Managers, Inv, Manages(m), ~Claim(m), ~EndOperation(m), ~Leave(m)
    PROVE  Steps(m)
<1>1. manager[m].at \in InOperation \ {"end"}
  BY DEF Manages, Load, Retire, Probe, Probed, Halt, Halted, Release, Released, Unstage,
         UnstageFails, Clear, Begin, Intent, Stage, StageFails, PrepareFails, Prepared, Run, Undo, UndoFails, Rebind,
         Bind, Ready, NotReady, Remember, Quit, Drop, Dropped, Fail, Abort, Inspect, Saves,
         On, InOperation, Updates, Releasing, Launching
<1>2. Amid(m)
  BY <1>1 DEF Amid, Inv, Owned
<1> QED
  BY <1>2, LoadSteps, RetireSteps, ProbingSteps, ProbedSteps, HaltedSteps, ReleasedSteps,
     UnstageSteps, UnstageFailsSteps, ClearSteps, BeginSteps, SavingSteps, StageSteps,
     StageFailsSteps, RunSteps, UndoSteps,
     WaitingSteps, RememberSteps, QuitSteps, DropSteps, DroppedSteps, FailSteps DEF Manages

LEMMA ManagerSteps ==
    ASSUME NEW m \in Managers, Inv,
           \/ Begins(m, "start") \/ Begins(m, "stop")
           \/ Manages(m) /\ ~Claim(m) /\ ~EndOperation(m)
           \/ Follow(m) \/ Spend(m) \/ Kill(m) \/ KillUnstaging(m)
    PROVE  Steps(m)
<1>1. Typed /\ Proper(manager[m])
  BY DEF Inv, Owned
<1> QED
  BY <1>1, OperationSteps, BeginsSteps, LeaveSteps, SpendSteps, FollowSteps, KillSteps,
     KillUnstagingSteps

LEMMA StepsKeep == ASSUME Inv, NEW m \in Managers, Steps(m) PROVE Inv'
  BY DEF Inv, Owned, Steps, Turns, Moves, Amends

LEMMA AsideKeeps == ASSUME Inv, Aside PROVE Inv'
  BY DEF Inv, Owned, Aside, Amends

(* Taking the operation: it is free, or its owner is dead.                 *)
LEMMA ClaimKeeps ==
    ASSUME Inv, NEW m \in Managers, Claim(m) PROVE Inv' /\ Final(entry, entry')
<1> DEFINE e == [entry EXCEPT !.op = m]
<1>1. e \in Entries /\ Final(entry, e) /\ e.op = m
  BY DEF Inv, Typed, Entries, Final
<1>2. Moves(m, manager') /\ manager'[m].at = "load" /\ manager'[m].goal = manager[m].goal
  BY ThenMoves DEF Inv, Typed, Claim, Places, InOperation, Releasing
<1>3. Typed' /\ entry' = e
  BY <1>1, <1>2, WritesTyped DEF Inv, Claim, Moves
<1>4. \A n \in Managers : ~Within(manager[n])
  <2>1. SUFFICES ASSUME NEW n \in Managers, Within(manager[n]) PROVE FALSE
    OBVIOUS
  <2>2. entry.op = n
    BY <2>1 DEF Inv, Owned
  <2>3. manager[n].at = "dead"
    BY <2>2 DEF Claim, Abandoned
  <2> QED
    BY <2>1, <2>3 DEF Within, InOperation, Updates, Releasing, Launching
<1>5. Proper(manager'[m])
  BY <1>2 DEF Inv, Owned, Claim, On, Proper, Loosely, Preparing
<1>6. Owned'
  BY <1>1, <1>2, <1>3, <1>4, <1>5 DEF Inv, Owned, Moves
<1> QED
  BY <1>1, <1>3, <1>6 DEF Inv

(* Ending it: nobody else was inside.                                      *)
LEMMA EndOperationKeeps ==
    ASSUME Inv, NEW m \in Managers, EndOperation(m) PROVE Inv' /\ Final(entry, entry')
<1> DEFINE e == IF entry.op = m THEN [entry EXCEPT !.op = "none"] ELSE entry
<1>1. e \in Entries /\ Final(entry, e)
  BY DEF Inv, Typed, Entries, Final
<1>2. /\ Moves(m, manager')
      /\ Proper(manager'[m]) /\ ~Within(manager'[m])
  <2>1. CASE manager[m].goal = "follow" /\ manager' = Then(m, "follow")
    <3>1. /\ Moves(m, manager')
          /\ manager'[m].at = "follow" /\ manager'[m].goal = "follow"
      BY <2>1, ThenMoves DEF Inv, Typed, Places
    <3> QED
      BY <3>1 DEF Proper, Within, Preparing, InOperation, Updates, Releasing, Launching
  <2>2. CASE manager' = Idle(m)
    <3>1. /\ Moves(m, manager')
          /\ manager'[m].at = "idle" /\ manager'[m].goal = "none"
      BY <2>2, IdleMoves DEF Inv, Typed
    <3> QED
      BY <3>1 DEF Proper, Within, Preparing, InOperation, Updates, Releasing, Launching
  <2> QED
    BY <2>1, <2>2 DEF EndOperation
<1>3. Typed' /\ entry' = e
  BY <1>1, <1>2, WritesTyped DEF Inv, EndOperation, Moves
<1>4. Within(manager[m]) /\ entry.op = m
  BY DEF Inv, Owned, EndOperation, On, Within, InOperation, Updates, Releasing
<1>5. \A n \in Managers \ {m} : ~Within(manager[n])
  BY <1>4 DEF Inv, Owned
<1>6. Owned'
  BY <1>2, <1>5 DEF Inv, Owned, Moves
<1> QED
  BY <1>1, <1>3, <1>6 DEF Inv

(* The end of "docker run" moves whoever waits for it.                     *)
LEMMA HelperEndsKeeps ==
    ASSUME Inv, NEW l \in helpers, NEW ok \in BOOLEAN, HelperEnds(l, ok)
    PROVE  Inv' /\ Final(entry, entry')
<1> DEFINE Waits(m) == manager[m].at = "await" /\ manager[m].launch = l
<1>1. l \in 0..MaxLaunches
  BY DEF Inv, Typed, Launches
<1>2. container' \in Containers /\ server' \in Servers /\ helpers' \subseteq Launches
  <2>1. \A state \in {"up", "down"} : [launch |-> l, state |-> state] \in Containers
    BY <1>1 DEF Containers
  <2>2. container' \in {container, [launch |-> l, state |-> "up"], [launch |-> l, state |-> "down"]}
    BY DEF HelperEnds
  <2>3. server' \in {server, "boot"} /\ helpers' \subseteq helpers
    BY DEF HelperEnds
  <2> QED
    BY <2>1, <2>2, <2>3 DEF Inv, Typed, Servers
<1>3. UNCHANGED <<entry, claim, stage, query, faults>>
  BY DEF HelperEnds
<1>4. {"bind", "undo"} \subseteq Places \cap InOperation /\ {"bound", "prepared"} \subseteq Refs
  BY DEF Places, InOperation, Updates, Launching, Refs
<1>5. ASSUME NEW m \in Managers
      PROVE  /\ manager'[m] \in ManagerStates
             /\ Proper(manager'[m])
             /\ Within(manager'[m]) => Within(manager[m])
  <2>1. manager[m] \in ManagerStates /\ Proper(manager[m])
    BY DEF Inv, Owned, Typed
  <2>2. CASE ~Waits(m)
    <3>1. manager'[m] = manager[m]
      BY <2>2 DEF HelperEnds
    <3> QED
      BY <2>1, <3>1
  <2>3. CASE Waits(m)
    <3>1. PICK at \in {"bind", "undo"}, ref \in {"bound", "prepared"} :
             manager'[m] = [manager[m] EXCEPT !.at = at, !.ref = ref]
      BY <2>3 DEF HelperEnds
    <3>2. /\ manager'[m] \in ManagerStates
          /\ manager'[m].at = at /\ manager'[m].goal = manager[m].goal
      BY <1>4, <2>1, <3>1 DEF ManagerStates
    <3>3. Within(manager[m]) /\ manager[m].goal # "follow"
      BY <2>1, <2>3 DEF Within, Proper, InOperation, Updates, Launching, Releasing, Loosely
    <3> QED
      BY <3>2, <3>3 DEF Proper, Preparing
  <2> QED
    BY <2>2, <2>3
<1>6. manager' \in [Managers -> ManagerStates]
  BY <1>5 DEF HelperEnds
<1>7. Typed'
  BY <1>2, <1>3, <1>6 DEF Inv, Typed
<1>8. Owned'
  BY <1>3, <1>5 DEF Inv, Owned
<1> QED
  BY <1>3, <1>7, <1>8 DEF Inv, Final

LEMMA NextKeeps ==
    ASSUME Inv, [Next]_vars PROVE Inv' /\ Final(entry, entry')
<1>1. CASE UNCHANGED vars
  BY <1>1 DEF vars, Inv, Owned, Typed, Final
<1>2. ASSUME NEW m \in Managers, Steps(m) PROVE Inv' /\ Final(entry, entry')
  BY <1>2, StepsKeep DEF Steps, Amends
<1>3. ASSUME Aside PROVE Inv' /\ Final(entry, entry')
  BY <1>3, AsideKeeps DEF Aside, Amends
<1>4. ASSUME NEW m \in Managers,
             \/ Begins(m, "start") \/ Begins(m, "stop")
             \/ Manages(m) \/ Follow(m) \/ Spend(m) \/ Kill(m) \/ KillUnstaging(m)
      PROVE  Inv' /\ Final(entry, entry')
  BY <1>2, <1>4, ManagerSteps, ClaimKeeps, EndOperationKeeps
<1>5. ASSUME Serves \/ ServerCloses \/ ContainerDies \/ Queries
      PROVE  Inv' /\ Final(entry, entry')
  BY <1>3, <1>5, ServesAside, QueriesAside DEF Inv
<1> QED
  BY <1>1, <1>4, <1>5, HelperEndsKeeps DEF Next

LEMMA InvAlways == Spec => []Inv
<1>1. Init => Inv
  BY InitInv
<1>2. Inv /\ [Next]_vars => Inv'
  BY NextKeeps
<1> QED
  BY <1>1, <1>2, PTL DEF Spec

(***************************************************************************)
(* The theorems.                                                           *)
(***************************************************************************)

(* Every variable of InstanceLaunch has its type in every reachable state. *)
THEOREM LaunchTypes == Spec => []TypeOK
<1>1. Inv => TypeOK
  BY TypedIsTypeOK DEF Inv
<1> QED
  BY <1>1, InvAlways, PTL

(* management_operation lets one manager at a time inside, however many    *)
(* there are and whichever of them are killed: whoever is inside is the    *)
(* owner that the entry records, and it is replaced only when it is dead.  *)
THEOREM OneManagerAtATime == Spec => []OneManager
<1>1. Inv => OneManager
  <2>1. SUFFICES ASSUME Inv, NEW m \in Managers, NEW n \in Managers, Inside(m), Inside(n)
                 PROVE  m = n
    BY DEF OneManager
  <2>2. Within(manager[m]) /\ Within(manager[n])
    BY <2>1 DEF Inside, Within
  <2> QED
    BY <2>1, <2>2 DEF Inv, Owned
<1> QED
  BY <1>1, InvAlways, PTL

(* A launch that is stopped or failed stays so, whichever of the writers   *)
(* of the entry, the managers, the server and the queries, comes late.     *)
THEOREM TerminalStays == Spec => TerminalIsFinal
<1>1. Inv /\ [Next]_vars =>
        [entry.phase \in Terminal /\ entry'.launch = entry.launch => entry'.phase \in Terminal]_vars
  BY NextKeeps DEF Final
<1> QED
  BY <1>1, InvAlways, PTL DEF Spec, TerminalIsFinal

(***************************************************************************)
(* The invariant of what exists of a launch: what the entry, the container,*)
(* the "docker run"s and the directory are at each place of a manager.     *)
(***************************************************************************)

(* Where a launching manager is after its "docker run" has ended.          *)
Ran == {"undo", "rebind", "bind", "ready", "remember", "quit", "drop", "dropped"}
Afoot == {"stage", "prepared", "run", "await"}
Mine(x) == x.launch = entry.launch

(* Who launches the agent does it in the generation that it began.         *)
OwnLaunch(x) ==
    /\ x.launch <= entry.launch
    /\ x.at \in {"intent"} \cup Afoot \cup Ran => Mine(x) /\ x.launch # 0
    /\ x.at = "intent" => entry.ref = "none"
    /\ x.at \in Afoot => entry.ref \in {"intent", "prepared"}
    /\ x.at \in Preparing => container.launch = 0 /\ helpers = {}
    /\ x.at = "dropped" => Leftovers = {}

(* Nothing of the launch that is released is being made.                   *)
Looked(x) == x.at \in {"probed", "halted"} /\ x.seen # "none"
Calm(x) ==
    x.goal = "follow" \/ Looked(x) \/ x.at \in Ran \cup {"release", "released", "unstage", "clear"}
    => (Mine(x) => helpers = {})

(* What is released is gone before its reference is.                       *)
Releases(x) ==
    /\ (x.at = "released" /\ x.seen = "none") \/ x.at \in {"unstage", "clear"}
       => (Mine(x) => container.launch = 0)
    /\ x.at = "clear" => (Mine(x) => Leftovers = {})
    /\ x.goal # "follow" /\ x.at \in (Releasing \ {"load"}) \cup {"clear"}
       => Mine(x) /\ entry.ref \in {x.ref, "none"}
    /\ x.at \in {"begin", "retire"} \/ (x.at = "end" /\ x.goal = "stop") => entry.ref = "none"

ManagersInv ==
    \A m \in Managers : OwnLaunch(manager[m]) /\ Calm(manager[m]) /\ Releases(manager[m])

(* Whom a manager follows is of an earlier launch than what another makes. *)
FollowersInv ==
    \A m, n \in Managers :
        m # n /\ manager[m].goal = "follow" /\ manager[n].at \in Preparing \cup {"await"}
        => manager[m].launch < entry.launch

SomeDead == \E m \in Managers : manager[m].at = "dead"

ResourcesInv ==
    /\ container.launch = 0 <=> container.state = "none"
    /\ server # "none" => Up
    /\ container.launch # 0 \/ entry.ref = "bound" => helpers = {}
    /\ helpers # {} => SomeDead \/ \E m \in Managers : manager[m].at = "await"
    /\ ResourcesAreReferenced

EntryInv ==
    /\ entry.ref # "none" => entry.launch # 0
    /\ entry.ref = "none" => entry.phase \notin Reporting
    /\ claim.by = "server" => claim.launch = entry.launch

(* A launch whose container does not run and that nobody is making.        *)
Settled(l) ==
    /\ l \notin helpers /\ ~(Up /\ container.launch = l)
    /\ \A m \in Managers : manager[m].at \in Preparing => manager[m].launch # l
QueryInv ==
    query.at # "idle" =>
        LET e == query.entry IN
        /\ e.launch <= entry.launch
        /\ e.op = "none" \/ e.ref = "bound" => Settled(e.launch) \/ (e.ref # "bound" /\ SomeDead)
        /\ query.at = "repair" => Abandoned(e)

(* A manager that fits its place.                                         *)
Fits(x) == OwnLaunch(x) /\ Calm(x) /\ Releases(x)

(* A change that makes nothing new: the entry's launch and reference stay, *)
(* the container may end or go, the directory may go or be torn.           *)
Ends(c) == c = NoContainer \/ (c.launch = container.launch /\ c.state = "down")
Shrinks ==
    /\ entry'.launch = entry.launch /\ entry'.ref = entry.ref
    /\ entry'.phase \in Reporting =>
          entry.phase \in Reporting \/ (container.launch = entry.launch /\ container.launch # 0)
    /\ helpers' = helpers
    /\ stage' = stage \/ stage' = NoStage \/ stage'.torn
    /\ \/ container' = container /\ (server' # "none" => server # "none")
       \/ container.launch # 0 /\ Ends(container') /\ server' = "none"
    /\ claim'.by = "server" => claim' = claim \/ claim'.launch = entry.launch

(* Where a manager may come from.                                          *)
Goes(x, y) ==
    /\ x.at = "dead" => y.at = "dead"
    /\ x.at = "await" => y.at \in {"await", "dead"}
    /\ y.at = "await" => x.at = "await"
    /\ y.at \in Preparing => x.at \in Preparing /\ y.launch = x.launch

(* Nothing more is left of a launch.                                       *)
LEMMA LeftoversShrink ==
    ASSUME Shrinks PROVE Leftovers' \subseteq Leftovers /\ (container.launch = 0 => container'.launch = 0)
<1>1. container'.launch \in {0, container.launch}
  BY DEF Shrinks, Ends, NoContainer
<1>2. (IF stage.torn THEN 0 ELSE stage.launch)' \in {0, IF stage.torn THEN 0 ELSE stage.launch}
  BY DEF Shrinks, NoStage
<1>3. helpers' = helpers
  BY DEF Shrinks
<1> QED BY <1>1, <1>2, <1>3 DEF Leftovers

(* A manager that fits its place still does.                               *)
LEMMA ShrinkFits == ASSUME NEW x, Fits(x), Shrinks PROVE Fits(x)'
<1>1. /\ entry'.launch = entry.launch /\ entry'.ref = entry.ref /\ helpers' = helpers
      /\ Mine(x)' <=> Mine(x)
  BY DEF Shrinks, Mine
<1>2. OwnLaunch(x)'
  BY <1>1, LeftoversShrink DEF Fits, OwnLaunch
<1>3. Calm(x)'
  BY <1>1 DEF Fits, Calm, Looked
<1>4. Releases(x)'
  BY <1>1, LeftoversShrink DEF Fits, Releases
<1> QED BY <1>2, <1>3, <1>4 DEF Fits

(* What exists is still referred to.                                       *)
LEMMA ShrinkResources ==
    ASSUME Typed, ResourcesInv, Shrinks, \A n \in Managers : Goes(manager[n], manager'[n])
    PROVE  ResourcesInv'
<1>1. container'.launch = 0 <=> container'.state = "none"
  BY DEF Shrinks, Ends, NoContainer, ResourcesInv
<1>2. server' # "none" => Up'
  BY DEF Shrinks, Up, ResourcesInv
<1>3. container'.launch # 0 \/ entry'.ref = "bound" => helpers' = {}
  BY LeftoversShrink DEF Shrinks, ResourcesInv
<1>4. helpers' # {} => SomeDead' \/ \E m \in Managers : manager'[m].at = "await"
  BY DEF Shrinks, ResourcesInv, Goes, SomeDead
<1>5. ResourcesAreReferenced'
  BY LeftoversShrink DEF Shrinks, ResourcesInv, ResourcesAreReferenced
<1> QED BY <1>1, <1>2, <1>3, <1>4, <1>5 DEF ResourcesInv

(* What the entry says of itself still holds.                              *)
LEMMA ShrinkEntry == ASSUME EntryInv, ResourcesInv, Shrinks PROVE EntryInv'
<1>1. entry.ref = "none" => container.launch = 0
  BY DEF ResourcesInv, ResourcesAreReferenced, Leftovers
<1> QED BY <1>1 DEF EntryInv, Shrinks

(* Nobody follows, or launches, who did not before.                        *)
Trails(x, y) ==
    /\ y.goal = "follow" => x.goal = "follow" /\ y.launch = x.launch
    /\ y.at \in Preparing \cup {"await"} => x.at \in Preparing \cup {"await"}

(* Whoever follows still follows an earlier launch.                        *)
LEMMA ShrinkFollowers ==
    ASSUME FollowersInv, Shrinks, \A n \in Managers : Trails(manager[n], manager'[n])
    PROVE  FollowersInv'
BY DEF FollowersInv, Trails, Shrinks

(* A launch that is settled stays so.                                      *)
LEMMA ShrinkSettled ==
    ASSUME NEW l, Settled(l), Shrinks, \A n \in Managers : Goes(manager[n], manager'[n])
    PROVE  Settled(l)'
<1>1. l \notin helpers'
  BY DEF Shrinks, Settled
<1>2. ~(Up /\ container.launch = l)'
  BY DEF Shrinks, Settled, Ends, NoContainer, Up
<1>3. \A m \in Managers : manager'[m].at \in Preparing => manager'[m].launch # l
  BY DEF Settled, Goes
<1> QED BY <1>1, <1>2, <1>3 DEF Settled

(* What a query knows stays true while the launches that are settled stay  *)
(* so.                                                                     *)
LEMMA QueryKeeps ==
    ASSUME QueryInv, query' = query, entry.launch <= entry'.launch, entry.launch \in Nat,
           entry'.launch \in Nat, query.entry.launch \in Nat,
           \A n \in Managers : manager[n].at = "dead" => manager'[n].at = "dead",
           \A l \in 0..entry.launch : Settled(l) => Settled(l)'
    PROVE  QueryInv'
<1> SUFFICES ASSUME query.at # "idle", NEW e, e = query.entry
             PROVE  /\ e.launch <= entry'.launch
                    /\ e.op = "none" \/ e.ref = "bound" => Settled(e.launch)' \/ (e.ref # "bound" /\ SomeDead')
                    /\ query.at = "repair" => Abandoned(e)'
  BY DEF QueryInv
<1>1. e.launch \in 0..entry.launch /\ e.launch <= entry'.launch
  BY DEF QueryInv
<1>2. PICK l : l = e.launch
  OBVIOUS
<1>3. SomeDead => SomeDead'
  BY DEF SomeDead
<1>4. e.op = "none" \/ e.ref = "bound" => Settled(l)' \/ (e.ref # "bound" /\ SomeDead')
  BY <1>1, <1>2, <1>3 DEF QueryInv
<1>5. query.at = "repair" => Abandoned(e)'
  BY DEF QueryInv, Abandoned
<1> QED BY <1>1, <1>2, <1>4, <1>5

(* Such a change is one of these.                                          *)
LEMMA ShrinkQuery ==
    ASSUME Typed, QueryInv, Shrinks, query' = query, \A n \in Managers : Goes(manager[n], manager'[n])
    PROVE  QueryInv'
<1>1. entry.launch \in Nat /\ query.entry.launch \in Nat
  BY DEF Typed, Entries, QueryStates
<1>2. entry'.launch = entry.launch
  BY DEF Shrinks
<1>3. \A n \in Managers : manager[n].at = "dead" => manager'[n].at = "dead"
  BY DEF Goes
<1> QED BY <1>1, <1>2, <1>3, ShrinkSettled, QueryKeeps

(* A change of one manager that makes nothing new keeps the invariant.     *)
LaunchInv == ManagersInv /\ FollowersInv /\ ResourcesInv /\ EntryInv /\ QueryInv

(* A manager that does not move.                                           *)
LEMMA SameGoes == ASSUME NEW x PROVE Goes(x, x) /\ Trails(x, x)
BY DEF Goes, Trails

(* Such a change and the move of one manager keep the invariant, who       *)
(* follows aside.                                                          *)
LEMMA ShrinkKeepsButFollowers ==
    ASSUME Typed, LaunchInv, Shrinks, query' = query, NEW m \in Managers, Moves(m, manager'),
           Goes(manager[m], manager'[m]), FollowersInv', Fits(manager[m])'
    PROVE  LaunchInv'
<1>1. \A n \in Managers : Goes(manager[n], manager'[n])
  BY SameGoes DEF Moves
<1>2. ASSUME NEW n \in Managers PROVE Fits(manager[n])'
  <2>1. CASE n = m
    BY <2>1
  <2>2. CASE n # m
    <3>1. PICK x : x = manager[n]
      OBVIOUS
    <3>2. Fits(x) /\ manager'[n] = x
      BY <2>2, <3>1 DEF Moves, LaunchInv, ManagersInv, Fits
    <3>3. Fits(x)'
      BY <3>2, ShrinkFits
    <3> QED BY <3>2, <3>3
  <2> QED BY <2>1, <2>2
<1>3. ManagersInv'
  BY <1>2 DEF ManagersInv, Fits
<1> QED
  BY <1>1, <1>3, ShrinkResources, ShrinkEntry, ShrinkQuery DEF LaunchInv

(* They keep all of it when nobody begins to follow or to launch.          *)
LEMMA ShrinkKeeps ==
    ASSUME Typed, LaunchInv, Shrinks, query' = query, NEW m \in Managers, Moves(m, manager'),
           Goes(manager[m], manager'[m]), Trails(manager[m], manager'[m]), Fits(manager[m])'
    PROVE  LaunchInv'
<1>1. \A n \in Managers : Trails(manager[n], manager'[n])
  BY SameGoes DEF Moves
<1> QED
  BY <1>1, ShrinkFollowers, ShrinkKeepsButFollowers DEF LaunchInv

(* Such a change while no manager moves.                                   *)
LEMMA ShrinkAside ==
    ASSUME Typed, LaunchInv, Shrinks, manager' = manager
    PROVE  ManagersInv' /\ FollowersInv' /\ ResourcesInv' /\ EntryInv' /\ (query' = query => LaunchInv')
<1>1. \A n \in Managers : Goes(manager[n], manager'[n]) /\ Trails(manager[n], manager'[n])
  BY SameGoes
<1>2. ASSUME NEW n \in Managers PROVE Fits(manager[n])'
  <2>1. PICK x : x = manager[n]
    OBVIOUS
  <2>2. Fits(x) /\ manager'[n] = x
    BY <2>1 DEF LaunchInv, ManagersInv, Fits
  <2>3. Fits(x)'
    BY <2>2, ShrinkFits
  <2> QED BY <2>2, <2>3
<1>3. ManagersInv'
  BY <1>2 DEF ManagersInv, Fits
<1> QED
  BY <1>1, <1>3, ShrinkFollowers, ShrinkResources, ShrinkEntry, ShrinkQuery DEF LaunchInv

(* Where nothing changes but a manager, and where the entry is written and *)
(* keeps its launch and its reference.                                     *)
LEMMA OnlyShrinks == ASSUME EntryInv, NEW m, NEW f, Only(m, f) PROVE Shrinks /\ query' = query
<1>1. /\ entry' = entry /\ claim' = claim /\ container' = container /\ helpers' = helpers
      /\ stage' = stage /\ server' = server /\ query' = query
  BY DEF Only
<1>2. claim'.by = "server" => claim' = claim
  BY <1>1
<1> QED BY <1>1, <1>2 DEF Shrinks

(* A manager writes the entry for the same launch and reference.           *)
LEMMA WritesShrinks ==
    ASSUME NEW m \in Managers, NEW e, Writes(m, e), e.launch = entry.launch, e.ref = entry.ref,
           e.phase \in Reporting => entry.phase \in Reporting
    PROVE  Shrinks /\ query' = query
<1>1. claim'.by # "server"
  BY InstanceLaunchAssumption DEF Writes, ClaimOf
<1>2. UNCHANGED <<container, helpers, stage, server, query>> /\ entry' = e
  BY DEF Writes
<1>3. entry'.launch = entry.launch /\ entry'.ref = entry.ref
      /\ (entry'.phase \in Reporting => entry.phase \in Reporting)
  BY <1>2
<1> QED BY <1>1, <1>2, <1>3 DEF Shrinks

(* The states a manager moves to.                                          *)
LEMMA ThenIs ==
    ASSUME Typed, NEW m \in Managers, NEW p, NEW f, f = Then(m, p)
    PROVE  /\ f[m].at = p /\ f[m].goal = manager[m].goal /\ f[m].launch = manager[m].launch
           /\ f[m].ref = manager[m].ref /\ f[m].seen = "none"
BY DEF Typed, ManagerStates, Then

(* One that has looked the container up.                                   *)
LEMMA SawIs ==
    ASSUME Typed, NEW m \in Managers, NEW p, NEW s, NEW f, f = Saw(m, p, s)
    PROVE  /\ f[m].at = p /\ f[m].goal = manager[m].goal /\ f[m].launch = manager[m].launch
           /\ f[m].ref = manager[m].ref /\ f[m].seen = s
BY DEF Typed, ManagerStates, Saw

(* One that is done.                                                       *)
LEMMA IdleIs ==
    ASSUME Typed, NEW m \in Managers, NEW f, f = Idle(m) PROVE f[m] = IdleManager
BY DEF Typed, Idle

(* Nothing is asked of a manager that is out of the operation.             *)
LEMMA IdleFits ==
    ASSUME Typed, NEW y, y.launch = 0, y.goal # "follow", y.at \in {"idle", "dead", "claim"}
    PROVE  Fits(y)
<1>1. y.launch <= entry.launch
  BY DEF Typed, Entries
<1> QED
  BY <1>1 DEF Fits, OwnLaunch, Calm, Releases, Looked, Afoot, Ran, Preparing, Releasing

(* A manager that raises.                                                  *)
LEMMA RaisedFits ==
    ASSUME Typed, NEW m \in Managers, Fits(manager[m]), NEW f, f = Raised(m)
    PROVE  Fits(f[m]) /\ f[m].at \in {"idle", "end"} /\ f[m].goal = "none"
<1>1. CASE manager[m].goal = "follow"
  <2>1. f[m] = IdleManager
    BY <1>1, IdleIs DEF Raised
  <2> QED BY <2>1, IdleFits DEF IdleManager
<1>2. CASE manager[m].goal # "follow"
  <2>1. PICK g : g = Then(m, "end")
    OBVIOUS
  <2>2. g[m].at = "end" /\ g[m].launch = manager[m].launch /\ f = [g EXCEPT ![m].goal = "none"]
        /\ g \in [Managers -> ManagerStates]
    BY <1>2, <2>1, ThenIs, ThenMoves DEF Raised, Moves, Typed, Places, InOperation, Updates
  <2>3. f[m].at = "end" /\ f[m].launch = manager[m].launch /\ f[m].goal = "none"
    BY <2>2 DEF ManagerStates
  <2>4. Fits(f[m])
    BY <2>3 DEF Fits, OwnLaunch, Calm, Releases, Looked, Afoot, Ran, Preparing, Releasing
  <2> QED BY <2>3, <2>4
<1> QED BY <1>1, <1>2

(* One that has released an earlier launch.                                *)
LEMMA GoneFits ==
    ASSUME Typed, NEW m \in Managers, Fits(manager[m]), NEW f, f = Gone(m),
           entry.ref = "none" \/ manager[m].goal = "follow"
    PROVE  Fits(f[m]) /\ f[m].at \in {"idle", "begin", "end"} /\ f[m].goal # "follow"
<1>1. CASE manager[m].goal = "start"
  <2>1. f[m].at = "begin" /\ f[m].goal = "start" /\ f[m].launch = manager[m].launch
    BY <1>1, ThenIs DEF Gone
  <2> QED BY <1>1, <2>1 DEF Fits, OwnLaunch, Calm, Releases, Looked, Afoot, Ran, Preparing, Releasing
<1>2. CASE manager[m].goal = "stop"
  <2>1. f[m].at = "end" /\ f[m].goal = "stop" /\ f[m].launch = manager[m].launch
    BY <1>2, ThenIs DEF Gone
  <2> QED BY <1>2, <2>1 DEF Fits, OwnLaunch, Calm, Releases, Looked, Afoot, Ran, Preparing, Releasing
<1>3. CASE manager[m].goal \notin {"start", "stop"}
  <2>1. f[m] = IdleManager
    BY <1>3, IdleIs DEF Gone
  <2> QED BY <2>1, IdleFits DEF IdleManager
<1> QED BY <1>1, <1>2, <1>3

(* A move of m while nothing else changes, or while it writes the entry.   *)
LEMMA MoveKeeps ==
    ASSUME Inv, LaunchInv, NEW m \in Managers, Steps(m), Shrinks, query' = query,
           Goes(manager[m], manager'[m]), Trails(manager[m], manager'[m]),
           NEW y, y = manager'[m], Fits(y)
    PROVE  LaunchInv'
<1>1. Fits(y)'
  BY ShrinkFits
<1> QED BY <1>1, ShrinkKeeps DEF Steps, Turns, Inv

(* A step that touches nothing but the manager.                            *)
LEMMA OnlyKeeps ==
    ASSUME Inv, LaunchInv, NEW m \in Managers, Steps(m), NEW f, Only(m, f),
           Goes(manager[m], f[m]), Trails(manager[m], f[m]), Fits(f[m])
    PROVE  LaunchInv'
<1>1. Shrinks /\ query' = query /\ manager' = f
  BY OnlyShrinks DEF LaunchInv, Only
<1>2. PICK y : y = f[m]
  OBVIOUS
<1> QED BY <1>1, <1>2, MoveKeeps

(* A step that writes the entry for the same launch and reference.         *)
LEMMA WritesKeeps ==
    ASSUME Inv, LaunchInv, NEW m \in Managers, Steps(m), NEW e, Writes(m, e),
           e.launch = entry.launch, e.ref = entry.ref,
           e.phase \in Reporting => entry.phase \in Reporting, NEW f, manager' = f,
           Goes(manager[m], f[m]), Trails(manager[m], f[m]), Fits(f[m])
    PROVE  LaunchInv'
<1>1. Shrinks /\ query' = query
  BY WritesShrinks
<1>2. PICK y : y = f[m]
  OBVIOUS
<1> QED BY <1>1, <1>2, MoveKeeps

(* Where no manager waits or prepares.                                     *)
LEMMA FarGoes ==
    ASSUME NEW x, NEW y, x.at \notin {"await", "dead"}, y.at \notin Preparing \cup {"await"}
    PROVE  /\ Goes(x, y)
           /\ (y.goal = "follow" => x.goal = "follow" /\ y.launch = x.launch) => Trails(x, y)
BY DEF Goes, Trails

(* What is known of a manager.                                             *)
LEMMA ManagerFacts ==
    ASSUME Inv, LaunchInv, NEW m \in Managers
    PROVE  /\ Typed /\ Fits(manager[m]) /\ Proper(manager[m]) /\ manager[m] \in ManagerStates
           /\ entry.launch \in 0..MaxLaunches /\ manager[m].launch \in 0..MaxLaunches
BY DEF Inv, Owned, LaunchInv, ManagersInv, Fits, Typed, Entries, ManagerStates

(* A manager raises, or has released what there was.                       *)
LEMMA RaisedKeeps ==
    ASSUME Inv, LaunchInv, NEW m \in Managers, Steps(m),
           manager[m].at \notin {"await", "dead"}, Only(m, Raised(m))
    PROVE  LaunchInv'
<1>1. PICK f : f = Raised(m)
  OBVIOUS
<1>2. Fits(f[m]) /\ f[m].at \in {"idle", "end"} /\ f[m].goal = "none"
  BY <1>1, ManagerFacts, RaisedFits
<1>3. f[m].at \notin Preparing \cup {"await"}
  BY <1>2 DEF Preparing
<1> QED BY <1>1, <1>2, <1>3, FarGoes, OnlyKeeps

(* It has released what there was, and goes where its goal leads.          *)
LEMMA GoneKeeps ==
    ASSUME Inv, LaunchInv, NEW m \in Managers, Steps(m),
           manager[m].at \notin {"await", "dead"}, Only(m, Gone(m)),
           entry.ref = "none"
    PROVE  LaunchInv'
<1>1. PICK f : f = Gone(m)
  OBVIOUS
<1>2. Fits(f[m]) /\ f[m].at \in {"idle", "begin", "end"} /\ f[m].goal # "follow"
  BY <1>1, ManagerFacts, GoneFits
<1>3. f[m].at \notin Preparing \cup {"await"}
  BY <1>2 DEF Preparing
<1> QED BY <1>1, <1>2, <1>3, FarGoes, OnlyKeeps

(* It goes on to p.                                                        *)
Reaches(m, p, y) ==
    /\ y.at = p /\ y.goal = manager[m].goal /\ y.launch = manager[m].launch
    /\ y.ref = manager[m].ref /\ y.seen = "none"

(* It goes on to p, where it fits, while nothing else changes.             *)
LEMMA ThenKeeps ==
    ASSUME Inv, LaunchInv, NEW m \in Managers, Steps(m), NEW p,
           manager[m].at \notin {"await", "dead"}, p \notin Preparing \cup {"await"},
           Only(m, Then(m, p)),
           \A y : Reaches(m, p, y) => Fits(y)
    PROVE  LaunchInv'
<1>1. PICK f : f = Then(m, p)
  OBVIOUS
<1>2. /\ f[m].at = p /\ f[m].goal = manager[m].goal /\ f[m].launch = manager[m].launch
      /\ f[m].ref = manager[m].ref /\ f[m].seen = "none"
  BY <1>1, ManagerFacts, ThenIs
<1>3. PICK y : y = f[m]
  OBVIOUS
<1>4. Fits(y)
  BY <1>2, <1>3 DEF Reaches
<1> QED BY <1>1, <1>2, <1>3, <1>4, FarGoes, OnlyKeeps

----------------------------------------------------------------------------
(* The operation, and what an earlier launch left.                         *)

(* A start or a stop is asked for.                                         *)
LEMMA BeginsKeeps ==
    ASSUME Inv, LaunchInv, NEW m \in Managers, Begins(m, "start") \/ Begins(m, "stop")
    PROVE  LaunchInv'
<1>0. PICK goal \in {"start", "stop"} : Begins(m, goal)
  OBVIOUS
<1>1. Steps(m)
  BY <1>0, ManagerSteps
<1>2. PICK x : x = [IdleManager EXCEPT !.at = "claim", !.goal = goal]
  OBVIOUS
<1>3. PICK f : f = [manager EXCEPT ![m] = x]
  OBVIOUS
<1>4. f[m] = x /\ Only(m, f) /\ manager[m].at = "idle"
  BY <1>0, <1>2, <1>3, ManagerFacts DEF Begins, On, Typed
<1>5. x.at = "claim" /\ x.goal = goal /\ x.launch = 0
  BY <1>2 DEF IdleManager
<1>6. Fits(x) /\ Goes(manager[m], x) /\ Trails(manager[m], x)
  BY <1>4, <1>5, IdleFits, FarGoes, ManagerFacts DEF Preparing
<1> QED BY <1>1, <1>4, <1>6, OnlyKeeps

(* A manager that follows fits wherever it follows.                        *)
LEMMA EndFits ==
    ASSUME Inv, LaunchInv, NEW m \in Managers, manager[m].goal = "follow",
           NEW y, y.goal = "follow", y.at \in {"follow", "halt"}, y.launch = manager[m].launch
    PROVE  Fits(y)
BY ManagerFacts DEF Fits, OwnLaunch, Calm, Releases, Looked, Afoot, Ran, Preparing, Releasing, Mine

(* What the entry says of an earlier launch is loaded.                     *)
LEMMA LoadKeeps ==
    ASSUME Inv, LaunchInv, NEW m \in Managers, Load(m) PROVE LaunchInv'
<1>1. Steps(m) /\ manager[m].at = "load" /\ manager[m].goal # "follow"
  BY ManagerSteps, ManagerFacts DEF Manages, Load, On, Claim, EndOperation, Proper, Loosely
<1>2. CASE entry.ref # "none"
  <2> DEFINE p == IF manager[m].goal = "start" THEN "probe" ELSE "halt"
  <2>1. PICK f : f = [manager EXCEPT ![m].at = p, ![m].launch = entry.launch, ![m].ref = entry.ref]
    OBVIOUS
  <2>2. /\ f[m].at = p /\ f[m].launch = entry.launch /\ f[m].ref = entry.ref
        /\ f[m].goal = manager[m].goal /\ Only(m, f)
    BY <1>2, <2>1, ManagerFacts DEF Typed, ManagerStates, Load
  <2>3. p \in {"probe", "halt"}
    OBVIOUS
  <2> HIDE DEF p
  <2>4. Fits(f[m])
    BY <1>1, <2>2, <2>3, ManagerFacts
       DEF Fits, OwnLaunch, Calm, Releases, Looked, Afoot, Ran, Preparing, Releasing, Mine
  <2>5. p \notin Preparing \cup {"await"}
    BY <2>3 DEF Preparing
  <2> QED BY <1>1, <2>2, <2>4, <2>5, FarGoes, OnlyKeeps
<1>3. CASE entry.ref = "none" /\ Only(m, [Then(m, "retire") EXCEPT ![m].launch = entry.launch])
  <2>1. PICK g : g = Then(m, "retire")
    OBVIOUS
  <2>2. /\ g[m].at = "retire" /\ g[m].goal = manager[m].goal /\ g \in [Managers -> ManagerStates]
    BY <2>1, ManagerFacts, ThenIs, ThenMoves DEF Typed, Moves, Places, InOperation, Updates
  <2>3. PICK f : f = [g EXCEPT ![m].launch = entry.launch]
    OBVIOUS
  <2>4. /\ f[m].at = "retire" /\ f[m].goal = manager[m].goal /\ f[m].launch = entry.launch
    BY <2>2, <2>3 DEF ManagerStates
  <2>5. Fits(f[m])
    BY <1>1, <1>3, <2>4, ManagerFacts
       DEF Fits, OwnLaunch, Calm, Releases, Looked, Afoot, Ran, Preparing, Releasing, Mine
  <2>6. f[m].at \notin Preparing \cup {"await"}
    BY <2>4 DEF Preparing
  <2> QED BY <1>1, <1>3, <2>1, <2>3, <2>4, <2>5, <2>6, FarGoes, OnlyKeeps
<1> QED BY <1>1, <1>2, <1>3, RaisedKeeps, GoneKeeps DEF Load

(* An intent that created nothing is over.                                 *)
LEMMA RetireKeeps ==
    ASSUME Inv, LaunchInv, NEW m \in Managers, Retire(m) PROVE LaunchInv'
<1>1. Steps(m) /\ manager[m].at = "retire" /\ entry.ref = "none"
  BY ManagerSteps, ManagerFacts DEF Manages, Retire, On, Claim, EndOperation, Fits, Releases
<1>2. PICK f : f = Gone(m)
  OBVIOUS
<1>3. Fits(f[m]) /\ f[m].at \in {"idle", "begin", "end"} /\ f[m].goal # "follow"
  BY <1>1, <1>2, ManagerFacts, GoneFits
<1>4. f[m].at \notin Preparing \cup {"await"}
  BY <1>3 DEF Preparing
<1>5. PICK e : e = Patched(entry, manager[m].launch, "stopped")
  OBVIOUS
<1>6. e.launch = entry.launch /\ e.ref = entry.ref /\ (e.phase \in Reporting => entry.phase \in Reporting)
  BY <1>5, ManagerFacts DEF Patched, Reporting, Typed, Entries
<1>7. Writes(m, e) /\ manager' = f
  BY <1>2, <1>5 DEF Retire
<1> QED BY <1>1, <1>3, <1>4, <1>6, <1>7, FarGoes, WritesKeeps

(* What is looked up is there, or is not being made.                       *)
LEMMA InspectKeeps ==
    ASSUME Inv, LaunchInv, NEW m \in Managers, NEW p, NEW q, Inspect(m, p, q), Steps(m),
           <<p, q>> \in {<<"probe", "probed">>, <<"halt", "halted">>, <<"release", "released">>}
    PROVE  LaunchInv'
<1>1. manager[m].at = p /\ p \notin {"await", "dead"} /\ q \notin Preparing \cup {"await"}
  BY DEF Inspect, On, Preparing
<1>2. CASE Only(m, Saw(m, q, Found(Handle(m))))
  <2>1. PICK f : f = Saw(m, q, Found(Handle(m)))
    OBVIOUS
  <2>2. PICK s : s = Found(Handle(m))
    OBVIOUS
  <2>3. /\ f[m].at = q /\ f[m].goal = manager[m].goal /\ f[m].launch = manager[m].launch
        /\ f[m].ref = manager[m].ref /\ f[m].seen = s
    BY <2>1, <2>2, ManagerFacts, SawIs
  <2>4. s # "none" => helpers = {}
    BY <2>2 DEF LaunchInv, ResourcesInv, Found
  <2>5. s = "none" /\ Mine(manager[m]) => container.launch = 0
    BY <2>2 DEF LaunchInv, ResourcesInv, ResourcesAreReferenced, Leftovers, Found, Handle, Mine
  <2>6. Fits(f[m])
    <3>1. OwnLaunch(f[m])
      BY <1>1, <2>3, ManagerFacts DEF Fits, OwnLaunch, Afoot, Ran, Preparing
    <3>2. Calm(f[m])
      BY <1>1, <2>3, <2>4, ManagerFacts DEF Fits, Calm, Looked, Ran, Mine
    <3>3. Releases(f[m])
      BY <1>1, <2>3, <2>5, ManagerFacts DEF Fits, Releases, Releasing, Mine
    <3> QED BY <3>1, <3>2, <3>3 DEF Fits
  <2> QED BY <1>1, <1>2, <2>1, <2>3, <2>6, FarGoes, OnlyKeeps
<1> QED BY <1>1, <1>2, RaisedKeeps DEF Inspect

(* The container is looked up.                                             *)
LEMMA ProbesKeep ==
    ASSUME Inv, LaunchInv, NEW m \in Managers, Probe(m) \/ Halt(m) \/ Release(m)
    PROVE  LaunchInv'
<1>1. Steps(m)
  BY ManagerSteps DEF Manages, Probe, Halt, Release, Inspect, On, Claim, EndOperation
<1> QED BY <1>1, InspectKeeps DEF Probe, Halt, Release

(* Nothing is being made of what is not up and not pending.                *)
LEMMA NotPending ==
    ASSUME Inv, LaunchInv, NEW m \in Managers, manager[m].at \in {"probed", "halted", "released"},
           ~CreationPending(m), manager[m].at = "probed" => manager[m].seen # "up"
    PROVE  Mine(manager[m]) => helpers = {}
<1>1. CASE manager[m].goal = "follow" \/ manager[m].at = "released" \/ Looked(manager[m])
  BY <1>1, ManagerFacts DEF Fits, Calm
<1>2. CASE manager[m].goal # "follow" /\ manager[m].seen = "none"
  <2>1. manager[m].ref = "bound" \/ helpers = {}
    BY <1>2 DEF CreationPending, Pending, Handle, ByName
  <2>2. entry.ref \in {manager[m].ref, "none"}
    BY <1>2, ManagerFacts DEF Fits, Releases, Releasing
  <2>3. entry.ref = "none" => helpers = {}
    BY DEF LaunchInv, ResourcesInv, ResourcesAreReferenced, Leftovers
  <2> QED BY <2>1, <2>2, <2>3 DEF LaunchInv, ResourcesInv
<1> QED BY <1>1, <1>2 DEF Looked

(* A start goes on to release what does not run and is not pending.        *)
LEMMA ProbedKeeps ==
    ASSUME Inv, LaunchInv, NEW m \in Managers, Probed(m) PROVE LaunchInv'
<1>1. Steps(m) /\ manager[m].at = "probed"
  BY ManagerSteps DEF Manages, Probed, On, Claim, EndOperation
<1>2. CASE ~CreationPending(m) /\ manager[m].seen # "up" /\ Only(m, Then(m, "release"))
  <2>1. Mine(manager[m]) => helpers = {}
    BY <1>1, <1>2, NotPending
  <2>2. ASSUME NEW y, Reaches(m, "release", y) PROVE Fits(y)
    BY <1>1, <2>1, <2>2, ManagerFacts
       DEF Reaches, Fits, OwnLaunch, Calm, Releases, Looked, Afoot, Ran, Preparing, Releasing, Mine
  <2> QED BY <1>1, <1>2, <2>2, ThenKeeps DEF Preparing
<1> QED BY <1>1, <1>2, RaisedKeeps DEF Probed

(* A container that ends, or is removed.                                   *)
LEMMA BecomesShrinks ==
    ASSUME Typed, ResourcesInv, EntryInv, NEW l, NEW c,
           c = NoContainer \/ (c = [launch |-> l, state |-> "down"] /\ Up), Becomes(l, c),
           entry' = entry, helpers' = helpers, stage' = stage \/ stage' = NoStage \/ stage'.torn
    PROVE  /\ container'.launch \in {0, container.launch}
           /\ c = NoContainer => (container.launch = l => container'.launch = 0)
           /\ Shrinks
<1>1. CASE UNCHANGED <<container, server, claim>> /\ container.launch # l
  <2>1. claim'.by = "server" => claim' = claim
    BY <1>1
  <2>2. container' = container /\ server' = server
    BY <1>1
  <2> QED BY <1>1, <2>1, <2>2 DEF Shrinks
<1>2. CASE container.launch = l /\ container' = c /\ server' = "none" /\ claim' \in Left
  <2>1. claim'.by = "server" => claim' = claim \/ claim'.launch = entry.launch
    BY <1>2 DEF Left, ServerClaims, ServerEnters
  <2>2. container.launch = 0 => container' = container /\ server = "none"
    BY <1>2 DEF ResourcesInv, Up, NoContainer, Typed, Containers
  <2>3. Ends(container')
    BY <1>2 DEF Ends
  <2>4. container'.launch \in {0, l}
    BY <1>2 DEF NoContainer
  <2>5. c = NoContainer => container'.launch = 0
    BY <1>2 DEF NoContainer
  <2>6. \/ container' = container /\ (server' # "none" => server # "none")
        \/ container.launch # 0 /\ Ends(container') /\ server' = "none"
    BY <1>2, <2>2, <2>3
  <2> QED BY <1>2, <2>1, <2>4, <2>5, <2>6 DEF Shrinks
<1> QED BY <1>1, <1>2 DEF Becomes

(* A container that runs is stopped.                                       *)
LEMMA StoppedShrinks ==
    ASSUME Typed, ResourcesInv, EntryInv, NEW l, Up, Stopped(l),
           entry' = entry, helpers' = helpers, stage' = stage
    PROVE  Shrinks
<1>1. PICK c \in {[launch |-> l, state |-> "down"], NoContainer} : Becomes(l, c)
  BY DEF Stopped
<1> QED BY <1>1, BecomesShrinks

(* A stop goes on to release what it stopped.                              *)
LEMMA HaltedKeeps ==
    ASSUME Inv, LaunchInv, NEW m \in Managers, Halted(m) PROVE LaunchInv'
<1>1. Steps(m) /\ manager[m].at = "halted"
  BY ManagerSteps DEF Manages, Halted, On, Claim, EndOperation
<1>2. CASE Only(m, Raised(m))
  BY <1>1, <1>2, RaisedKeeps
<1>3. CASE ~CreationPending(m)
  <2>1. Mine(manager[m]) => helpers = {}
    BY <1>1, <1>3, NotPending
  <2>2. ASSUME NEW y, Reaches(m, "release", y) PROVE Fits(y)
    BY <1>1, <2>1, <2>2, ManagerFacts
       DEF Reaches, Fits, OwnLaunch, Calm, Releases, Looked, Afoot, Ran, Preparing, Releasing, Mine
  <2>3. CASE Only(m, Then(m, "release"))
    BY <1>1, <2>2, <2>3, ThenKeeps DEF Preparing
  <2>4. CASE /\ Up /\ Stopped(manager[m].launch) /\ manager' = Then(m, "release")
             /\ UNCHANGED <<entry, helpers, stage, query, faults>>
    <3>1. PICK f : f = Then(m, "release")
      OBVIOUS
    <3>2. PICK y : y = f[m]
      OBVIOUS
    <3>3. Reaches(m, "release", y)
      BY <3>1, <3>2, ManagerFacts, ThenIs DEF Reaches
    <3>4. Fits(y) /\ manager'[m] = y
      BY <2>2, <2>4, <3>1, <3>2, <3>3
    <3>5. Shrinks /\ query' = query
      BY <2>4, ManagerFacts, StoppedShrinks DEF LaunchInv
    <3>6. Goes(manager[m], y) /\ Trails(manager[m], y)
      BY <1>1, <3>3, FarGoes DEF Preparing, Reaches
    <3> QED BY <1>1, <3>4, <3>5, <3>6, MoveKeeps
  <2> QED BY <1>2, <2>3, <2>4 DEF Halted
<1> QED BY <1>2, <1>3 DEF Halted

(* It goes on to p while something ends.                                   *)
LEMMA ShrinkThen ==
    ASSUME Inv, LaunchInv, NEW m \in Managers, Steps(m), Shrinks, query' = query, NEW p,
           manager[m].at \notin {"await", "dead"}, p \notin Preparing \cup {"await"},
           manager' = Then(m, p),
           \A y : Reaches(m, p, y) => Fits(y)'
    PROVE  LaunchInv'
<1>1. PICK f : f = Then(m, p)
  OBVIOUS
<1>2. PICK y : y = f[m]
  OBVIOUS
<1>3. Reaches(m, p, y)
  BY <1>1, <1>2, ManagerFacts, ThenIs DEF Reaches
<1>4. Fits(y)' /\ manager'[m] = y
  BY <1>1, <1>2, <1>3
<1>5. Goes(manager[m], y) /\ Trails(manager[m], y)
  BY <1>3, FarGoes DEF Reaches
<1> QED BY <1>4, <1>5, ShrinkKeeps DEF Steps, Turns, Inv

(* The container that was found is removed; none of the launch is left.    *)
LEMMA ReleasedKeeps ==
    ASSUME Inv, LaunchInv, NEW m \in Managers, Released(m) PROVE LaunchInv'
<1>1. Steps(m) /\ manager[m].at = "released"
  BY ManagerSteps DEF Manages, Released, On, Claim, EndOperation
<1>2. CASE Only(m, Raised(m))
  BY <1>1, <1>2, RaisedKeeps
<1>3. CASE manager[m].seen = "none" /\ Only(m, Then(m, "unstage"))
  <2>1. ASSUME NEW y, Reaches(m, "unstage", y) PROVE Fits(y)
    BY <1>1, <1>3, <2>1, ManagerFacts
       DEF Reaches, Fits, OwnLaunch, Calm, Releases, Looked, Afoot, Ran, Preparing, Releasing, Mine
  <2> QED BY <1>1, <1>3, <2>1, ThenKeeps DEF Preparing
<1>4. CASE /\ Becomes(manager[m].launch, NoContainer) /\ manager' = Then(m, "unstage")
           /\ UNCHANGED <<entry, helpers, stage, query, faults>>
  <2>1. /\ Shrinks /\ query' = query
        /\ container.launch = manager[m].launch => container'.launch = 0
        /\ container'.launch \in {0, container.launch}
    BY <1>4, ManagerFacts, BecomesShrinks DEF LaunchInv
  <2>2. Mine(manager[m]) => container'.launch = 0
    BY <2>1 DEF LaunchInv, ResourcesInv, ResourcesAreReferenced, Leftovers, Mine
  <2>3. helpers' = helpers /\ entry' = entry
    BY <1>4
  <2>4. ASSUME NEW y, Reaches(m, "unstage", y) PROVE Fits(y)'
    BY <1>1, <2>2, <2>3, <2>4, ManagerFacts
       DEF Reaches, Fits, OwnLaunch, Calm, Releases, Looked, Afoot, Ran, Preparing, Releasing, Mine
  <2> QED BY <1>1, <1>4, <2>1, <2>4, ShrinkThen DEF Preparing
<1> QED BY <1>2, <1>3, <1>4 DEF Released

(* The directory of the launch that is there, with nothing else left.      *)
LEMMA UnstagedIsClear ==
    ASSUME Typed, ResourcesInv, NEW l, l = entry.launch, stage' = Unstaged(l),
           container'.launch = 0, helpers' = {}
    PROVE  Leftovers' = {}
<1>1. stage.torn \/ stage.launch \in {0, l}
  BY DEF ResourcesInv, ResourcesAreReferenced, Leftovers
<1>2. stage'.torn \/ stage'.launch = 0
  BY <1>1 DEF Unstaged, NoStage
<1> QED BY <1>2 DEF Leftovers

(* A directory is removed or left as it is.                                *)
LEMMA UnstagedShrinks ==
    ASSUME NEW l, stage' = Unstaged(l) PROVE stage' = stage \/ stage' = NoStage
BY DEF Unstaged

(* Or it is torn.                                                          *)
LEMMA CutShortShrinks ==
    ASSUME Typed, NEW l, CutShort(l) PROVE stage' = stage \/ stage'.torn
BY DEF CutShort, Typed, Stages

(* The directory goes after the container: then nothing is left of the     *)
(* launch.                                                                 *)
LEMMA UnstageKeeps ==
    ASSUME Inv, LaunchInv, NEW m \in Managers, Unstage(m) PROVE LaunchInv'
<1>1. Steps(m) /\ manager[m].at = "unstage"
  BY ManagerSteps DEF Manages, Unstage, On, Claim, EndOperation
<1>2. /\ stage' = Unstaged(manager[m].launch) /\ manager' = Then(m, "clear")
      /\ entry' = entry /\ claim' = claim /\ container' = container /\ helpers' = helpers
      /\ server' = server /\ query' = query
  BY DEF Unstage
<1>3. Shrinks
  BY <1>2, UnstagedShrinks DEF Shrinks
<1>4. Mine(manager[m]) => container.launch = 0 /\ helpers = {}
  BY <1>1, ManagerFacts DEF Fits, Calm, Releases, Ran
<1>5. Mine(manager[m]) => Leftovers' = {}
  BY <1>2, <1>4, ManagerFacts, UnstagedIsClear DEF Mine, LaunchInv
<1>6. ASSUME NEW y, Reaches(m, "clear", y) PROVE Fits(y)'
  BY <1>1, <1>2, <1>4, <1>5, <1>6, ManagerFacts
     DEF Reaches, Fits, OwnLaunch, Calm, Releases, Looked, Afoot, Ran, Preparing, Releasing, Mine
<1> QED BY <1>1, <1>2, <1>3, <1>6, ShrinkThen DEF Preparing

(* A removal that fails is the manager's failure.                          *)
LEMMA UnstageFailsKeeps ==
    ASSUME Inv, LaunchInv, NEW m \in Managers, UnstageFails(m) PROVE LaunchInv'
<1>1. Steps(m) /\ manager[m].at = "unstage"
  BY ManagerSteps DEF Manages, UnstageFails, On, Claim, EndOperation
<1>2. /\ entry' = entry /\ claim' = claim /\ container' = container /\ helpers' = helpers
      /\ server' = server /\ query' = query
  BY DEF UnstageFails
<1>3. stage' = stage \/ stage'.torn
  BY CutShortShrinks DEF UnstageFails, Inv
<1>4. Shrinks
  BY <1>2, <1>3 DEF Shrinks
<1>5. PICK f : f = Raised(m)
  OBVIOUS
<1>6. PICK y : y = f[m]
  OBVIOUS
<1>7. Fits(y) /\ y.at \in {"idle", "end"} /\ y.goal = "none"
  BY <1>5, <1>6, ManagerFacts, RaisedFits
<1>8. y.at \notin Preparing \cup {"await"}
  BY <1>7 DEF Preparing
<1>9. Goes(manager[m], y) /\ Trails(manager[m], y)
  BY <1>1, <1>7, <1>8, FarGoes
<1>10. y = manager'[m]
  BY <1>5, <1>6 DEF UnstageFails
<1> QED BY <1>1, <1>2, <1>4, <1>7, <1>9, <1>10, MoveKeeps

----------------------------------------------------------------------------
(* Steps that only go on, and what a failed launch does.                   *)

(* Preparations, removals and waits that end or fail.                      *)
LEMMA WaitingKeeps ==
    ASSUME Inv, LaunchInv, NEW m \in Managers,
           PrepareFails(m) \/ UndoFails(m) \/ Ready(m) \/ NotReady(m)
    PROVE  LaunchInv'
<1>1. Steps(m)
  BY ManagerSteps
     DEF Manages, PrepareFails, UndoFails, Ready, NotReady, On, Claim, EndOperation
<1>2. PICK p \in {"abort", "rebind", "remember", "quit"} :
        /\ Only(m, Then(m, p))
        /\ p # "abort" => manager[m].at \in {"undo", "ready"}
        /\ manager[m].at \in {"intent", "stage", "run", "undo", "ready"}
  BY DEF PrepareFails, UndoFails, Ready, NotReady, On
<1>3. ASSUME NEW y, Reaches(m, p, y) PROVE Fits(y)
  BY <1>2, <1>3, ManagerFacts
     DEF Reaches, Fits, OwnLaunch, Calm, Releases, Looked, Afoot, Ran, Preparing, Releasing, Mine
<1> QED BY <1>1, <1>2, <1>3, ThenKeeps DEF Preparing

(* A run that failed removes what it may have created.                     *)
LEMMA UndoKeeps ==
    ASSUME Inv, LaunchInv, NEW m \in Managers, Undo(m) PROVE LaunchInv'
<1>1. Steps(m) /\ manager[m].at = "undo"
  BY ManagerSteps DEF Manages, Undo, On, Claim, EndOperation
<1>2. /\ manager' = Then(m, "quit") /\ entry' = entry /\ helpers' = helpers
      /\ query' = query /\ Becomes(manager[m].launch, NoContainer)
  BY DEF Undo
<1>5. stage' = stage \/ stage' = NoStage \/ stage'.torn
  BY ManagerFacts, UnstagedShrinks, CutShortShrinks DEF Undo
<1>3. Shrinks
  BY <1>2, <1>5, ManagerFacts, BecomesShrinks DEF LaunchInv
<1>4. ASSUME NEW y, Reaches(m, "quit", y) PROVE Fits(y)'
  BY <1>1, <1>2, <1>4, ManagerFacts
     DEF Reaches, Fits, OwnLaunch, Calm, Releases, Looked, Afoot, Ran, Preparing, Releasing, Mine
<1> QED BY <1>1, <1>2, <1>3, <1>4, ShrinkThen DEF Preparing

(* A launch that failed is stopped, if that works.                         *)
LEMMA QuitKeeps ==
    ASSUME Inv, LaunchInv, NEW m \in Managers, Quit(m) PROVE LaunchInv'
<1>1. Steps(m) /\ manager[m].at = "quit"
  BY ManagerSteps DEF Manages, Quit, On, Claim, EndOperation
<1>2. ASSUME NEW y, Reaches(m, "drop", y) PROVE Fits(y)
  BY <1>1, <1>2, ManagerFacts
     DEF Reaches, Fits, OwnLaunch, Calm, Releases, Looked, Afoot, Ran, Preparing, Releasing, Mine
<1>3. CASE Only(m, Then(m, "drop"))
  BY <1>1, <1>2, <1>3, ThenKeeps DEF Preparing
<1>4. CASE /\ Up /\ Stopped(manager[m].launch) /\ manager' = Then(m, "drop")
           /\ UNCHANGED <<entry, helpers, stage, query, faults>>
  <2>1. Shrinks /\ query' = query
    BY <1>4, ManagerFacts, StoppedShrinks DEF LaunchInv
  <2>2. ASSUME NEW y, Reaches(m, "drop", y) PROVE Fits(y)'
    BY <1>2, <2>1, <2>2, ShrinkFits
  <2> QED BY <1>1, <1>4, <2>1, <2>2, ShrinkThen DEF Preparing
<1> QED BY <1>3, <1>4 DEF Quit

(* A launch that stopped is released: nothing is left of it.               *)
LEMMA DropKeeps ==
    ASSUME Inv, LaunchInv, NEW m \in Managers, Drop(m) PROVE LaunchInv'
<1>1. Steps(m) /\ manager[m].at = "drop"
  BY ManagerSteps DEF Manages, Drop, On, Claim, EndOperation
<1>2. CASE Only(m, Then(m, "fail"))
  <2>1. ASSUME NEW y, Reaches(m, "fail", y) PROVE Fits(y)
    BY <1>1, <2>1, ManagerFacts
       DEF Reaches, Fits, OwnLaunch, Calm, Releases, Looked, Afoot, Ran, Preparing, Releasing, Mine
  <2> QED BY <1>1, <1>2, <2>1, ThenKeeps DEF Preparing
<1>3. CASE /\ Becomes(manager[m].launch, NoContainer)
           /\ stage' = Unstaged(manager[m].launch)
           /\ manager' = Then(m, "dropped")
           /\ UNCHANGED <<entry, helpers, query, faults>>
  <2>1. /\ Shrinks /\ query' = query /\ entry' = entry /\ helpers' = helpers
        /\ container.launch = manager[m].launch => container'.launch = 0
        /\ container'.launch \in {0, container.launch}
    BY <1>3, ManagerFacts, UnstagedShrinks, BecomesShrinks DEF LaunchInv
  <2>2. Mine(manager[m]) /\ helpers = {}
    BY <1>1, ManagerFacts DEF Fits, OwnLaunch, Calm, Ran
  <2>3. container'.launch = 0
    BY <2>1, <2>2 DEF LaunchInv, ResourcesInv, ResourcesAreReferenced, Leftovers, Mine
  <2>4. Leftovers' = {}
    BY <1>3, <2>1, <2>2, <2>3, ManagerFacts, UnstagedIsClear DEF Mine, LaunchInv
  <2>5. ASSUME NEW y, Reaches(m, "dropped", y) PROVE Fits(y)'
    BY <1>1, <2>1, <2>2, <2>4, <2>5, ManagerFacts
       DEF Reaches, Fits, OwnLaunch, Calm, Releases, Looked, Afoot, Ran, Preparing, Releasing, Mine
  <2> QED BY <1>1, <1>3, <2>1, <2>5, ShrinkThen DEF Preparing
<1>4. CASE /\ Becomes(manager[m].launch, NoContainer)
           /\ CutShort(manager[m].launch)
           /\ manager' = Then(m, "fail")
           /\ UNCHANGED <<entry, helpers, query, faults>>
  <2>1. Shrinks /\ query' = query
    BY <1>4, ManagerFacts, CutShortShrinks, BecomesShrinks DEF LaunchInv
  <2>2. ASSUME NEW y, Reaches(m, "fail", y) PROVE Fits(y)
    BY <1>1, <2>2, ManagerFacts
       DEF Reaches, Fits, OwnLaunch, Calm, Releases, Looked, Afoot, Ran, Preparing, Releasing, Mine
  <2>3. ASSUME NEW y, Reaches(m, "fail", y) PROVE Fits(y)'
    BY <2>1, <2>2, <2>3, ShrinkFits
  <2> QED BY <1>1, <1>4, <2>1, <2>3, ShrinkThen DEF Preparing
<1> QED BY <1>2, <1>3, <1>4 DEF Drop

(* A launch reported over keeps its number and its reference.              *)
LEMMA PatchedKeeps ==
    ASSUME Typed, NEW l, NEW e, e = Patched(entry, l, "failed") \/ e = Patched(entry, l, "stopped")
    PROVE  /\ e.launch = entry.launch /\ e.ref = entry.ref
           /\ e.phase \in Reporting => entry.phase \in Reporting
BY DEF Patched, Reporting, Typed, Entries

(* A failed launch is reported, and may be tried again.                    *)
LEMMA FailKeeps ==
    ASSUME Inv, LaunchInv, NEW m \in Managers, Fail(m) \/ Abort(m) PROVE LaunchInv'
<1>1. Steps(m) /\ manager[m].at \in {"fail", "abort"}
  BY ManagerSteps DEF Manages, Fail, Abort, On, Claim, EndOperation
<1>2. PICK e : e = Patched(entry, manager[m].launch, "failed")
  OBVIOUS
<1>3. PICK next \in {Raised(m), Then(m, "load")} :
        Only(m, next) \/ (Writes(m, e) /\ manager' = next)
  BY <1>2 DEF Fail, Abort
<1>4. PICK f : f = next
  OBVIOUS
<1>5. /\ Fits(f[m]) /\ f[m].at \notin Preparing \cup {"await"}
      /\ f[m].goal = "follow" => manager[m].goal = "follow" /\ f[m].launch = manager[m].launch
  <2>1. CASE f = Raised(m)
    BY <2>1, ManagerFacts, RaisedFits DEF Preparing
  <2>2. CASE f = Then(m, "load")
    <3>1. Reaches(m, "load", f[m])
      BY <2>2, ManagerFacts, ThenIs DEF Reaches
    <3>2. PICK y : y = f[m]
      OBVIOUS
    <3>3. Fits(y)
      BY <1>1, <3>1, <3>2, ManagerFacts
         DEF Reaches, Fits, OwnLaunch, Calm, Releases, Looked, Afoot, Ran, Preparing, Releasing, Mine,
             Proper, Loosely
    <3> QED BY <3>1, <3>2, <3>3 DEF Preparing, Reaches
  <2> QED BY <1>3, <1>4, <2>1, <2>2
<1>6. Goes(manager[m], f[m]) /\ Trails(manager[m], f[m])
  BY <1>1, <1>5, FarGoes
<1>7. CASE Only(m, f)
  BY <1>1, <1>5, <1>6, <1>7, OnlyKeeps
<1>8. CASE Writes(m, e) /\ manager' = f
  BY <1>1, <1>2, <1>5, <1>6, <1>8, PatchedKeeps, ManagerFacts, WritesKeeps
<1> QED BY <1>3, <1>4, <1>7, <1>8

(* Releasing the claim, and waiting for it.                                *)
LEMMA LeaveKeeps ==
    ASSUME Inv, LaunchInv, NEW m \in Managers, Leave(m) PROVE LaunchInv'
<1>1. /\ entry' = entry /\ container' = container /\ helpers' = helpers /\ stage' = stage
      /\ server' = server /\ manager' = manager /\ query' = query /\ claim'.by # "server"
  BY DEF Leave, NoClaim
<1>2. Shrinks
  BY <1>1 DEF Shrinks
<1> QED BY <1>1, <1>2, ShrinkAside, ManagerFacts

(* The one probe of a waiting manager is spent.                            *)
LEMMA SpendKeeps ==
    ASSUME Inv, LaunchInv, NEW m \in Managers, Spend(m) PROVE LaunchInv'
<1>1. Steps(m)
  BY ManagerSteps
<1>2. PICK f : f = [manager EXCEPT ![m].spent = TRUE]
  OBVIOUS
<1>3. /\ f[m].at = manager[m].at /\ f[m].goal = manager[m].goal /\ f[m].launch = manager[m].launch
      /\ f[m].ref = manager[m].ref /\ f[m].seen = manager[m].seen
  BY <1>2, ManagerFacts DEF Typed, ManagerStates
<1>4. Fits(f[m])
  BY <1>3, ManagerFacts
     DEF Fits, OwnLaunch, Calm, Releases, Looked, Afoot, Ran, Preparing, Releasing, Mine
<1>5. Goes(manager[m], f[m]) /\ Trails(manager[m], f[m])
  BY <1>3 DEF Goes, Trails
<1> QED BY <1>1, <1>2, <1>4, <1>5, OnlyKeeps DEF Spend

(* A follower stops or releases what it launched.                          *)
LEMMA FollowKeeps ==
    ASSUME Inv, LaunchInv, NEW m \in Managers, Follow(m) PROVE LaunchInv'
<1>1. Steps(m) /\ manager[m].at = "follow" /\ manager[m].goal = "follow"
  BY ManagerSteps, ManagerFacts DEF Follow, On, Proper
<1>2. PICK p \in {"release", "halt"} : Only(m, Then(m, p))
  BY DEF Follow
<1>3. ASSUME NEW y, Reaches(m, p, y) PROVE Fits(y)
  BY <1>1, <1>2, <1>3, ManagerFacts
     DEF Reaches, Fits, OwnLaunch, Calm, Releases, Looked, Afoot, Ran, Preparing, Releasing, Mine
<1> QED BY <1>1, <1>2, <1>3, ThenKeeps DEF Preparing

(* A manager that is killed leaves what it made, and its claim.            *)
LEMMA KillKeeps ==
    ASSUME Inv, LaunchInv, NEW m \in Managers, Kill(m) PROVE LaunchInv'
<1>1. Steps(m)
  BY ManagerSteps
<1>2. PICK x : x = [IdleManager EXCEPT !.at = "dead"]
  OBVIOUS
<1>3. x.at = "dead" /\ x.goal = "none" /\ x.launch = 0
  BY <1>2 DEF IdleManager
<1>4. Fits(x)
  BY <1>3, ManagerFacts, IdleFits
<1>5. Goes(manager[m], x) /\ Trails(manager[m], x)
  BY <1>3 DEF Goes, Trails, Preparing
<1>6. manager'[m] = x
  BY <1>2, ManagerFacts DEF Kill, Typed
<1>7. /\ entry' = entry /\ container' = container /\ helpers' = helpers
      /\ server' = server /\ query' = query
  BY DEF Kill
<1>8. claim'.by = "server" => claim' = claim
  BY InstanceLaunchAssumption DEF Kill, ClaimOf
<1>9. stage' = stage \/ stage'.torn
  BY DEF Kill
<1>10. Shrinks
  BY <1>7, <1>8, <1>9 DEF Shrinks
<1> QED BY <1>1, <1>4, <1>5, <1>6, <1>7, <1>10, MoveKeeps

(* One that is killed while it removes a directory makes nothing new.      *)
LEMMA KillUnstagingKeeps ==
    ASSUME Inv, LaunchInv, NEW m \in Managers, KillUnstaging(m) PROVE LaunchInv'
<1>1. Steps(m)
  BY ManagerSteps
<1>2. PICK x : x = [IdleManager EXCEPT !.at = "dead"]
  OBVIOUS
<1>3. x.at = "dead" /\ x.goal = "none" /\ x.launch = 0
  BY <1>2 DEF IdleManager
<1>4. Fits(x)
  BY <1>3, ManagerFacts, IdleFits
<1>5. Goes(manager[m], x) /\ Trails(manager[m], x)
  <2>1. manager[m].at # "await"
    BY DEF KillUnstaging, On
  <2> QED BY <1>3, <2>1 DEF Goes, Trails, Preparing
<1>6. manager'[m] = x
  BY <1>2, ManagerFacts DEF KillUnstaging, Typed
<1>7. entry' = entry /\ helpers' = helpers /\ query' = query
  BY DEF KillUnstaging
<1>8. stage' = stage \/ stage'.torn
  BY ManagerFacts, CutShortShrinks DEF KillUnstaging
<1>9. Shrinks
  <2>1. CASE UNCHANGED <<container, server, claim>>
    BY <1>7, <1>8, <2>1 DEF Shrinks
  <2>2. CASE Becomes(manager[m].launch, NoContainer)
    BY <1>7, <1>8, <2>2, ManagerFacts, BecomesShrinks DEF LaunchInv
  <2> QED BY <2>1, <2>2 DEF KillUnstaging
<1> QED BY <1>1, <1>4, <1>5, <1>6, <1>7, <1>9, MoveKeeps

----------------------------------------------------------------------------
(* Taking the operation, ending it, and remembering a launch: who follows. *)

(* The operation is taken.                                                 *)
LEMMA TakeKeeps ==
    ASSUME Inv, LaunchInv, NEW m \in Managers, Claim(m) PROVE LaunchInv'
<1>1. PICK f : f = Then(m, "load")
  OBVIOUS
<1>2. PICK e : e = [entry EXCEPT !.op = m]
  OBVIOUS
<1>3. Writes(m, e) /\ manager' = f /\ manager[m].at = "claim"
  BY <1>1, <1>2 DEF Claim, On
<1>4. e.launch = entry.launch /\ e.ref = entry.ref /\ e.phase = entry.phase
  BY <1>2, ManagerFacts DEF Typed, Entries
<1>5. PICK y : y = f[m]
  OBVIOUS
<1>6. Reaches(m, "load", y) /\ manager[m].goal # "follow"
  BY <1>1, <1>3, <1>5, ManagerFacts, ThenIs DEF Reaches, Proper, Loosely
<1>7. Fits(y)
  BY <1>3, <1>6, ManagerFacts
     DEF Reaches, Fits, OwnLaunch, Calm, Releases, Looked, Afoot, Ran, Preparing, Releasing, Mine
<1>8. Goes(manager[m], y) /\ Trails(manager[m], y)
  BY <1>3, <1>6, FarGoes DEF Preparing, Reaches
<1>9. Moves(m, manager')
  BY <1>1, <1>3, ManagerFacts, ThenMoves DEF Typed, Places, InOperation, Releasing
<1>10. Shrinks /\ query' = query
  BY <1>3, <1>4, WritesShrinks
<1>11. Fits(y)'
  BY <1>7, <1>10, ShrinkFits
<1> QED BY <1>3, <1>5, <1>8, <1>9, <1>10, <1>11, ShrinkKeeps, ManagerFacts

(* The operation is ended; a follower goes on without it.                  *)
LEMMA EndKeeps ==
    ASSUME Inv, LaunchInv, NEW m \in Managers, EndOperation(m) PROVE LaunchInv'
<1>1. PICK e : e = IF entry.op = m THEN [entry EXCEPT !.op = "none"] ELSE entry
  OBVIOUS
<1>2. PICK f : f = IF manager[m].goal = "follow" THEN Then(m, "follow") ELSE Idle(m)
  OBVIOUS
<1>3. Writes(m, e) /\ manager' = f /\ manager[m].at = "end"
  BY <1>1, <1>2 DEF EndOperation, On
<1>4. e.launch = entry.launch /\ e.ref = entry.ref /\ e.phase = entry.phase
  BY <1>1, ManagerFacts DEF Typed, Entries
<1>5. PICK y : y = f[m]
  OBVIOUS
<1>6. Fits(y) /\ Goes(manager[m], y) /\ Trails(manager[m], y) /\ Moves(m, manager')
  <2>1. CASE manager[m].goal = "follow"
    <3>1. Reaches(m, "follow", y) /\ f = Then(m, "follow")
      BY <1>2, <1>5, <2>1, ManagerFacts, ThenIs DEF Reaches
    <3>2. Fits(y)
      BY <2>1, <3>1, EndFits DEF Reaches
    <3>3. Moves(m, f)
      BY <3>1, ManagerFacts, ThenMoves DEF Typed, Places
    <3> QED BY <1>3, <2>1, <3>1, <3>2, <3>3, FarGoes DEF Preparing, Reaches
  <2>2. CASE manager[m].goal # "follow"
    <3>1. f = Idle(m)
      BY <1>2, <2>2
    <3>2. y = IdleManager
      BY <1>5, <3>1, IdleIs, ManagerFacts
    <3>3. y.at = "idle" /\ y.launch = 0 /\ y.goal = "none"
      BY <3>2 DEF IdleManager
    <3>4. Fits(y)
      BY <3>3, IdleFits, ManagerFacts
    <3>5. Moves(m, f)
      BY <3>1, ManagerFacts, IdleMoves DEF Typed
    <3> QED BY <1>3, <3>3, <3>4, <3>5, FarGoes DEF Preparing
  <2> QED BY <2>1, <2>2
<1>7. Shrinks /\ query' = query
  BY <1>3, <1>4, WritesShrinks
<1>8. Fits(y)'
  BY <1>6, <1>7, ShrinkFits
<1> QED BY <1>3, <1>5, <1>6, <1>7, <1>8, ShrinkKeeps, ManagerFacts

(* While a manager is inside the operation, what the others do.            *)
LEMMA OthersOutside ==
    ASSUME Inv, NEW m \in Managers, Within(manager[m]), NEW n \in Managers, n # m
    PROVE  /\ ~Within(manager[n])
           /\ manager[n].at \notin Preparing \cup {"await"} \cup Ran \cup Afoot
           /\ manager[n].goal # "follow" => manager[n].at \notin InOperation
<1>1. ~Within(manager[n])
  BY DEF Inv, Owned
<1>2. Proper(manager[n])
  BY DEF Inv, Owned
<1> QED
  BY <1>1, <1>2 DEF Within, Proper, InOperation, Preparing, Ran, Afoot, Updates, Releasing, Launching, Loosely

(* A launch is remembered; nobody is launching, so its manager may follow  *)
(* it.                                                                     *)
LEMMA RememberKeeps ==
    ASSUME Inv, LaunchInv, NEW m \in Managers, NEW goal \in {"none", "follow"}, Remember(m, goal)
    PROVE  LaunchInv'
<1>1. Steps(m) /\ manager[m].at = "remember" /\ Writes(m, entry)
  BY ManagerSteps DEF Manages, Remember, On, Claim, EndOperation
<1>2. PICK g : g = Then(m, "end")
  OBVIOUS
<1>3. Reaches(m, "end", g[m]) /\ g \in [Managers -> ManagerStates]
  BY <1>2, ManagerFacts, ThenIs, ThenMoves DEF Reaches, Typed, Moves, Places, InOperation, Updates
<1>4. PICK f : f = [g EXCEPT ![m].goal = goal]
  OBVIOUS
<1>5. manager' = f /\ f[m].at = "end" /\ f[m].launch = manager[m].launch /\ f[m].goal = goal
  BY <1>2, <1>3, <1>4 DEF Remember, Reaches, ManagerStates
<1>6. PICK y : y = f[m]
  OBVIOUS
<1>7. Fits(y)
  BY <1>1, <1>5, <1>6, ManagerFacts
     DEF Fits, OwnLaunch, Calm, Releases, Looked, Afoot, Ran, Preparing, Releasing, Mine
<1>8. Shrinks /\ query' = query
  BY <1>1, ManagerFacts, WritesShrinks DEF Typed
<1>9. Goes(manager[m], y)
  BY <1>1, <1>5, <1>6, FarGoes DEF Preparing
<1>10. Fits(y)' /\ manager'[m] = y
  BY <1>5, <1>6, <1>7, <1>8, ShrinkFits
<1>11. Moves(m, manager')
  BY <1>1 DEF Steps, Turns
<1>12. \A n \in Managers : manager'[n].at \notin Preparing \cup {"await"}
  BY <1>1, <1>5, <1>11, OthersOutside DEF Moves, Within, InOperation, Updates, Releasing, Preparing
<1>13. FollowersInv'
  BY <1>12 DEF FollowersInv
<1> QED BY <1>8, <1>9, <1>10, <1>11, <1>13, ManagerFacts, ShrinkKeepsButFollowers

----------------------------------------------------------------------------
(* The reference of a launch of which nothing is left is cleared.          *)

Done(y) == y.at \in {"idle", "begin", "end", "fail"} /\ y.goal # "follow"

(* What is settled stays so while nothing is made.                         *)
LEMMA SettledStays ==
    ASSUME NEW l, Settled(l), helpers' = helpers, container' = container,
           \A n \in Managers : Goes(manager[n], manager'[n])
    PROVE  Settled(l)'
BY DEF Settled, Up, Goes

(* Where no reference is needed, none is missed.                           *)
LEMMA ClearedFits ==
    ASSUME NEW x, Fits(x), x.at \notin Afoot, entry'.launch = entry.launch, entry'.ref = "none",
           container' = container, helpers' = helpers, stage' = stage
    PROVE  Fits(x)'
<1>1. Leftovers' = Leftovers /\ (Mine(x)' <=> Mine(x))
  BY DEF Leftovers, Mine
<1>2. OwnLaunch(x)'
  BY <1>1 DEF Fits, OwnLaunch
<1>3. Calm(x)'
  BY <1>1 DEF Fits, Calm, Looked
<1>4. Releases(x)'
  BY <1>1 DEF Fits, Releases
<1> QED BY <1>2, <1>3, <1>4 DEF Fits

(* One that has cleared a reference fits where it goes.                    *)
LEMMA DoneFits ==
    ASSUME NEW y, Done(y), y.launch <= entry'.launch, entry'.ref = "none" PROVE Fits(y)'
BY DEF Done, Fits, OwnLaunch, Calm, Releases, Looked, Afoot, Ran, Preparing, Releasing

(* The reference of a launch is cleared when nothing is left of it and     *)
(* nobody makes anything.                                                  *)
LEMMA ClearingKeeps ==
    ASSUME Inv, LaunchInv, NEW m \in Managers, Steps(m), Writes(m, Cleared(entry, Handle(m))),
           Mine(manager[m]), entry.ref = manager[m].ref, Leftovers = {},
           manager[m].at \notin {"await", "dead"},
           \A n \in Managers \ {m} : manager[n].at \notin Afoot,
           NEW y, y = manager'[m], Done(y), y.launch <= entry.launch
    PROVE  LaunchInv'
<1>1. entry' = Over(WithRef(entry, "none"))
  BY DEF Writes, Cleared, Handle, Mine
<1>2. entry'.launch = entry.launch /\ entry'.ref = "none" /\ entry'.phase \notin Reporting
  BY <1>1, ManagerFacts DEF Over, WithRef, Typed, Entries, Active, Reporting
<1>3. /\ container' = container /\ helpers' = helpers /\ stage' = stage /\ server' = server
      /\ query' = query /\ claim' = ClaimOf(m)
  BY DEF Writes
<1>4. Leftovers' = {} /\ helpers = {} /\ container.launch = 0
  BY <1>3 DEF Leftovers
<1>5. Goes(manager[m], y) /\ Trails(manager[m], y)
  BY FarGoes DEF Done, Preparing
<1>6. \A n \in Managers : Goes(manager[n], manager'[n]) /\ Trails(manager[n], manager'[n])
  BY <1>5, SameGoes DEF Steps, Turns, Moves
<1>7. ASSUME NEW n \in Managers PROVE Fits(manager[n])'
  <2>1. CASE n = m
    BY <1>2, <2>1, DoneFits
  <2>2. CASE n # m
    <3>1. PICK x : x = manager[n]
      OBVIOUS
    <3>2. Fits(x) /\ manager'[n] = x /\ x.at \notin Afoot
      BY <2>2, <3>1, ManagerFacts DEF Steps, Turns, Moves
    <3>3. Fits(x)'
      BY <1>2, <1>3, <3>2, ClearedFits
    <3> QED BY <3>2, <3>3
  <2> QED BY <2>1, <2>2
<1>8. ManagersInv'
  BY <1>7 DEF ManagersInv, Fits
<1>9. FollowersInv'
  BY <1>2, <1>6 DEF LaunchInv, FollowersInv, Trails
<1>10. ResourcesInv'
  BY <1>2, <1>3, <1>4 DEF LaunchInv, ResourcesInv, ResourcesAreReferenced, Up
<1>11. claim'.by # "server"
  BY <1>3, InstanceLaunchAssumption DEF ClaimOf
<1>12. EntryInv'
  BY <1>2, <1>11 DEF EntryInv
<1>13. \A l \in 0..entry.launch : Settled(l) => Settled(l)'
  BY <1>3, <1>6, SettledStays
<1>14. QueryInv'
  <2>1. entry.launch \in Nat /\ query.entry.launch \in Nat
    BY ManagerFacts DEF Typed, Entries, QueryStates
  <2>2. \A n \in Managers : manager[n].at = "dead" => manager'[n].at = "dead"
    BY <1>6 DEF Goes
  <2> QED BY <1>2, <1>3, <1>13, <2>1, <2>2, QueryKeeps DEF LaunchInv
<1> QED BY <1>8, <1>9, <1>10, <1>12, <1>14 DEF LaunchInv

(* The entry is not of what a manager would clear: it is written as it is. *)
LEMMA NotCleared ==
    ASSUME NEW m, ~(Mine(manager[m]) /\ entry.ref = manager[m].ref)
    PROVE  Cleared(entry, Handle(m)) = entry
BY DEF Cleared, Handle, Mine

(* The reference of what was released is cleared.                          *)
LEMMA ClearKeeps ==
    ASSUME Inv, LaunchInv, NEW m \in Managers, Clear(m) PROVE LaunchInv'
<1>1. Steps(m) /\ manager[m].at = "clear"
  BY ManagerSteps DEF Manages, Clear, On, Claim, EndOperation
<1>2. PICK f : f = Gone(m)
  OBVIOUS
<1>3. Writes(m, Cleared(entry, Handle(m))) /\ manager' = f
  BY <1>2 DEF Clear
<1>4. PICK y : y = f[m]
  OBVIOUS
<1>5. CASE Mine(manager[m]) /\ entry.ref = manager[m].ref
  <2>1. Leftovers = {}
    BY <1>1, <1>5, ManagerFacts DEF Fits, Releases
  <2>2. ASSUME NEW n \in Managers \ {m} PROVE manager[n].at \notin Afoot
    <3>1. CASE manager[m].goal = "follow"
      <4>1. manager[n].at \notin Preparing \cup {"await"}
        BY <1>5, <3>1, ManagerFacts DEF LaunchInv, FollowersInv, Mine
      <4> QED BY <4>1 DEF Preparing, Afoot
    <3>2. CASE manager[m].goal # "follow"
      BY <1>1, <3>2, OthersOutside DEF Within, InOperation, Updates
    <3> QED BY <3>1, <3>2
  <2>3. Done(y) /\ y.launch <= entry.launch
    <3>1. CASE manager[m].goal \in {"start", "stop"}
      <4>1. y.launch = manager[m].launch /\ Done(y)
        BY <1>2, <1>4, <3>1, ManagerFacts, ThenIs DEF Gone, Done
      <4> QED BY <4>1, ManagerFacts DEF Fits, OwnLaunch
    <3>2. CASE manager[m].goal \notin {"start", "stop"}
      <4>1. y = IdleManager
        BY <1>2, <1>4, <3>2, ManagerFacts, IdleIs DEF Gone
      <4> QED BY <4>1, ManagerFacts DEF IdleManager, Done
    <3> QED BY <3>1, <3>2
  <2>4. y = manager'[m]
    BY <1>3, <1>4
  <2> QED BY <1>1, <1>3, <1>5, <2>1, <2>2, <2>3, <2>4, ClearingKeeps
<1>6. CASE ~(Mine(manager[m]) /\ entry.ref = manager[m].ref)
  <2>1. Writes(m, entry)
    BY <1>3, <1>6, NotCleared
  <2>2. entry.ref = "none" \/ manager[m].goal = "follow"
    BY <1>1, <1>6, ManagerFacts DEF Fits, Releases
  <2>3. Fits(f[m]) /\ f[m].at \in {"idle", "begin", "end"} /\ f[m].goal # "follow"
    BY <1>2, <2>2, ManagerFacts, GoneFits
  <2>4. f[m].at \notin Preparing \cup {"await"}
    BY <2>3 DEF Preparing
  <2> QED BY <1>1, <1>3, <2>1, <2>3, <2>4, FarGoes, WritesKeeps
<1> QED BY <1>5, <1>6

(* The reference of a failed launch that was released is cleared.          *)
LEMMA DroppedKeeps ==
    ASSUME Inv, LaunchInv, NEW m \in Managers, Dropped(m) PROVE LaunchInv'
<1>1. Steps(m) /\ manager[m].at = "dropped"
  BY ManagerSteps DEF Manages, Dropped, On, Claim, EndOperation
<1>2. PICK f : f = Then(m, "fail")
  OBVIOUS
<1>3. Writes(m, Cleared(entry, Handle(m))) /\ manager' = f
  BY <1>2 DEF Dropped
<1>4. PICK y : y = f[m]
  OBVIOUS
<1>5. Reaches(m, "fail", y) /\ y = manager'[m]
  BY <1>2, <1>3, <1>4, ManagerFacts, ThenIs DEF Reaches
<1>6. Mine(manager[m]) /\ Leftovers = {} /\ manager[m].goal # "follow"
  BY <1>1, ManagerFacts DEF Fits, OwnLaunch, Ran, Proper, Loosely
<1>7. CASE entry.ref = manager[m].ref
  <2>1. Done(y) /\ y.launch <= entry.launch
    BY <1>5, <1>6, ManagerFacts DEF Reaches, Done, Fits, OwnLaunch
  <2>2. \A n \in Managers \ {m} : manager[n].at \notin Afoot
    BY <1>1, <1>6, OthersOutside DEF Within, InOperation, Updates
  <2> QED BY <1>1, <1>3, <1>5, <1>6, <1>7, <2>1, <2>2, ClearingKeeps
<1>8. CASE entry.ref # manager[m].ref
  <2>1. Writes(m, entry)
    BY <1>3, <1>8, NotCleared
  <2>2. Fits(y)
    BY <1>5, <1>6, ManagerFacts
       DEF Reaches, Fits, OwnLaunch, Calm, Releases, Looked, Afoot, Ran, Preparing, Releasing, Mine
  <2>3. Goes(manager[m], y) /\ Trails(manager[m], y)
    BY <1>1, <1>5, <1>6, FarGoes DEF Reaches, Preparing
  <2> QED BY <1>1, <1>3, <1>4, <2>1, <2>2, <2>3, WritesKeeps
<1> QED BY <1>7, <1>8

----------------------------------------------------------------------------
(* A new launch: a manager inside the operation, and the others outside.   *)

(* Nothing changes but the entry, and not its launch.                      *)
OnlyEntry ==
    /\ entry'.launch = entry.launch /\ container' = container /\ helpers' = helpers
    /\ stage' = stage

(* Whoever is outside the operation fits while another launches.           *)
LEMMA OutsideFits ==
    ASSUME NEW x, Proper(x), Fits(x),
           x.at \notin Preparing \cup {"await"} \cup Ran \cup Afoot,
           x.goal # "follow" => x.at \notin InOperation,
           x.launch <= entry'.launch,
           x.goal = "follow" => x.launch # entry'.launch \/ OnlyEntry
    PROVE  Fits(x)'
<1>1. x.at \in InOperation => x.goal = "follow" /\ x.at \in Loosely \cup {"end"}
  BY DEF Proper, InOperation, Updates, Releasing, Launching
<1>2. OwnLaunch(x)'
  BY DEF OwnLaunch, Afoot, Ran, Preparing
<1>3. CASE x.goal = "follow" /\ x.launch # entry'.launch
  <2>1. ~Mine(x)'
    BY <1>3 DEF Mine
  <2>2. Calm(x)'
    BY <2>1 DEF Calm
  <2>3. Releases(x)'
    BY <1>3, <2>1, <1>1 DEF Releases, Proper, Loosely, Releasing
  <2> QED BY <1>2, <2>2, <2>3 DEF Fits
<1>4. CASE x.goal = "follow" /\ OnlyEntry
  <2>1. Leftovers' = Leftovers /\ (Mine(x)' <=> Mine(x))
    BY <1>4 DEF OnlyEntry, Leftovers, Mine
  <2>2. Calm(x)'
    BY <1>4, <2>1 DEF OnlyEntry, Fits, Calm, Looked
  <2>3. Releases(x)'
    BY <1>1, <1>4, <2>1 DEF OnlyEntry, Fits, Releases, Loosely, Proper
  <2> QED BY <1>2, <2>2, <2>3 DEF Fits
<1>5. CASE x.goal # "follow"
  <2>1. x.at \notin InOperation
    BY <1>5
  <2>2. x.at \notin Releasing \cup {"clear", "begin", "retire", "end", "probed", "halted"} \cup Ran
    BY <2>1 DEF InOperation, Updates, Releasing
  <2>3. Calm(x)'
    BY <1>5, <2>2 DEF Calm, Looked, Releasing
  <2>4. Releases(x)'
    BY <1>5, <2>2 DEF Releases, Releasing
  <2> QED BY <1>2, <2>3, <2>4 DEF Fits
<1> QED BY <1>3, <1>4, <1>5

(* What the manager inside the operation may do.                           *)
LEMMA InsideKeeps ==
    ASSUME Inv, LaunchInv, NEW m \in Managers, Steps(m), Within(manager[m]),
           NEW y, y = manager'[m], Fits(y)', y.goal # "follow", ResourcesInv', EntryInv',
           query' = query, entry.launch <= entry'.launch,
           y.at \in Preparing \cup {"await"} =>
              manager[m].at \in Preparing \cup {"await"} \/ entry.launch < entry'.launch,
           \A n \in Managers \ {m} :
              manager[n].goal = "follow" => manager[n].launch # entry'.launch \/ OnlyEntry,
           \A l \in 0..entry.launch : Settled(l) => Settled(l)'
    PROVE  LaunchInv'
<1>1. \A n \in Managers \ {m} : manager'[n] = manager[n]
  BY DEF Steps, Turns, Moves
<1>2. entry.launch \in Nat /\ entry'.launch \in Nat /\ query.entry.launch \in Nat
  BY DEF Inv, Steps, Typed, Entries, QueryStates
<1>3. ASSUME NEW n \in Managers, n # m PROVE Fits(manager[n])'
  <2>1. PICK x : x = manager[n]
    OBVIOUS
  <2>2. Fits(x) /\ manager'[n] = x /\ Proper(x) /\ x.launch \in Nat
    BY <1>1, <1>3, <2>1, ManagerFacts DEF ManagerStates
  <2>3. x.launch <= entry'.launch
    BY <1>2, <2>2 DEF Fits, OwnLaunch
  <2>4. Fits(x)'
    BY <1>3, <2>1, <2>2, <2>3, OthersOutside, OutsideFits
  <2> QED BY <2>2, <2>4
<1>4. ManagersInv'
  BY <1>3 DEF ManagersInv, Fits
<1>5. FollowersInv'
  <2>1. SUFFICES ASSUME NEW n \in Managers, NEW k \in Managers, n # k, manager'[n].goal = "follow",
                        manager'[k].at \in Preparing \cup {"await"}
                 PROVE  manager'[n].launch < entry'.launch
    BY DEF FollowersInv
  <2>2. n # m /\ manager'[n] = manager[n] /\ manager[n].launch \in Nat /\ Fits(manager[n])
    BY <1>1, <2>1, ManagerFacts DEF ManagerStates
  <2>3. k = m
    BY <1>1, <2>1, OthersOutside
  <2>4. CASE manager[m].at \in Preparing \cup {"await"}
    <3>1. manager[n].launch < entry.launch
      BY <2>1, <2>2, <2>4 DEF LaunchInv, FollowersInv
    <3> QED BY <1>2, <2>2, <3>1
  <2>5. CASE entry.launch < entry'.launch
    BY <1>2, <2>2, <2>5 DEF Fits, OwnLaunch
  <2> QED BY <2>1, <2>3, <2>4, <2>5
<1>6. \A n \in Managers : manager[n].at = "dead" => manager'[n].at = "dead"
  BY <1>1 DEF Within, InOperation, Updates, Releasing, Launching
<1>7. QueryInv'
  BY <1>2, <1>6, QueryKeeps DEF LaunchInv
<1> QED BY <1>4, <1>5, <1>7 DEF LaunchInv

(* Whoever follows while another prepares follows an earlier launch.       *)
LEMMA FollowersAreOld ==
    ASSUME Inv, LaunchInv, NEW m \in Managers, manager[m].at \in Preparing,
           NEW n \in Managers \ {m}, manager[n].goal = "follow"
    PROVE  manager[n].launch # entry.launch
<1>1. manager[n].launch < entry.launch
  BY DEF LaunchInv, FollowersInv
<1> QED BY <1>1, ManagerFacts

(* A launch begins: nothing is left of the one before.                     *)
LEMMA BeginKeeps ==
    ASSUME Inv, LaunchInv, NEW m \in Managers, Begin(m) PROVE LaunchInv'
<1>1. Steps(m) /\ manager[m].at = "begin" /\ Within(manager[m]) /\ manager[m].goal # "follow"
  BY ManagerSteps, ManagerFacts
     DEF Manages, Begin, On, Claim, EndOperation, Within, InOperation, Updates, Releasing, Proper, Loosely
<1>2. CASE Only(m, Raised(m))
  BY <1>1, <1>2, RaisedKeeps
<1>3. CASE /\ entry.launch < MaxLaunches
           /\ Writes(m, Begun(entry, entry.launch + 1))
           /\ manager' = [Then(m, "intent") EXCEPT ![m].launch = entry.launch + 1, ![m].ref = "none"]
  <2>1. PICK l : l = entry.launch + 1
    OBVIOUS
  <2>2. entry.launch \in Nat /\ l \in Nat /\ l # 0 /\ entry.launch < l
    BY <2>1, ManagerFacts
  <2>3. PICK g : g = Then(m, "intent")
    OBVIOUS
  <2>4. Reaches(m, "intent", g[m]) /\ g \in [Managers -> ManagerStates]
    BY <2>3, ManagerFacts, ThenIs, ThenMoves
       DEF Reaches, Typed, Moves, Places, InOperation, Updates
  <2>5. PICK y : y = manager'[m]
    OBVIOUS
  <2>6. y.at = "intent" /\ y.launch = l /\ y.goal = manager[m].goal
    BY <1>3, <2>1, <2>3, <2>4, <2>5 DEF Reaches, ManagerStates
  <2>7. entry.ref = "none"
    BY <1>1, ManagerFacts DEF Fits, Releases
  <2>8. Leftovers = {}
    BY <2>7 DEF LaunchInv, ResourcesInv, ResourcesAreReferenced
  <2>9. /\ entry'.launch = l /\ entry'.ref = "none" /\ entry'.phase = "preparing"
        /\ container' = container /\ helpers' = helpers /\ stage' = stage /\ server' = server
        /\ query' = query /\ claim' = ClaimOf(m)
    BY <1>3, <2>1, <2>7, ManagerFacts DEF Writes, Begun, Typed, Entries
  <2>10. Leftovers' = {} /\ container'.launch = 0 /\ helpers' = {}
    BY <2>8, <2>9 DEF Leftovers
  <2>11. Fits(y)'
    BY <1>1, <2>2, <2>6, <2>9, <2>10
       DEF Fits, OwnLaunch, Calm, Releases, Looked, Afoot, Ran, Preparing, Releasing, Mine
  <2>12. ResourcesInv'
    BY <2>9, <2>10 DEF LaunchInv, ResourcesInv, ResourcesAreReferenced, Up
  <2>13. EntryInv'
    BY <2>9, InstanceLaunchAssumption DEF EntryInv, ClaimOf, Reporting
  <2>14. \A n \in Managers \ {m} : manager[n].launch # entry'.launch
    BY <2>2, <2>9, ManagerFacts DEF Fits, OwnLaunch
  <2>15. ASSUME NEW k \in 0..entry.launch, Settled(k) PROVE Settled(k)'
    <3>1. k # l
      BY <2>2
    <3>2. \A n \in Managers : manager'[n].at \in Preparing => manager'[n].launch # k
      BY <1>1, <2>5, <2>6, <2>15, <3>1 DEF Settled, Steps, Turns, Moves
    <3> QED BY <2>9, <2>15, <3>2 DEF Settled, Up
  <2> QED
    BY <1>1, <2>2, <2>5, <2>6, <2>9, <2>11, <2>12, <2>13, <2>14, <2>15, InsideKeeps
<1> QED BY <1>2, <1>3 DEF Begin

(* The launching manager saves its reference.                              *)
LEMMA SavesKeeps ==
    ASSUME Inv, LaunchInv, NEW m \in Managers, NEW p, NEW ref, NEW next, NEW raised,
           Saves(m, p, ref, next, raised), Steps(m),
           <<p, ref, next, raised>> \in
              {<<"intent", "intent", "stage", "abort">>, <<"prepared", "prepared", "run", "abort">>,
               <<"rebind", "prepared", "quit", "quit">>, <<"bind", "bound", "ready", "quit">>}
    PROVE  LaunchInv'
<1>1. /\ manager[m].at = p /\ Within(manager[m]) /\ manager[m].goal # "follow"
      /\ p \in Preparing \cup Ran
  BY ManagerFacts
     DEF Saves, On, Within, InOperation, Updates, Releasing, Proper, Loosely, Preparing, Ran
<1>2. CASE Only(m, Then(m, raised))
  <2>1. ASSUME NEW y, Reaches(m, raised, y) PROVE Fits(y)
    BY <1>1, <2>1, ManagerFacts
       DEF Reaches, Fits, OwnLaunch, Calm, Releases, Looked, Afoot, Ran, Preparing, Releasing, Mine
  <2>2. manager[m].at \notin {"await", "dead"} /\ raised \notin Preparing \cup {"await"}
    BY <1>1 DEF Preparing
  <2> QED BY <1>2, <2>1, <2>2, ThenKeeps
<1>3. CASE Writes(m, WithRef(entry, ref)) /\ manager' = Then(m, next)
  <2>1. PICK f : f = Then(m, next)
    OBVIOUS
  <2>2. PICK y : y = f[m]
    OBVIOUS
  <2>3. Reaches(m, next, y) /\ y = manager'[m]
    BY <1>3, <2>1, <2>2, ManagerFacts, ThenIs DEF Reaches
  <2>4. /\ entry'.launch = entry.launch /\ entry'.ref = ref /\ entry'.phase = entry.phase
        /\ container' = container /\ helpers' = helpers /\ stage' = stage /\ server' = server
        /\ query' = query /\ claim' = ClaimOf(m)
    BY <1>3, ManagerFacts DEF Writes, WithRef, Typed, Entries
  <2>5. Mine(manager[m]) /\ manager[m].launch # 0 /\ helpers = {}
    BY <1>1, ManagerFacts DEF Fits, OwnLaunch, Calm, Preparing, Afoot, Ran
  <2>6. Leftovers' = Leftovers
    BY <2>4 DEF Leftovers
  <2>7. p \in Preparing => container.launch = 0
    BY <1>1, ManagerFacts DEF Fits, OwnLaunch
  <2>8. Fits(y)'
    BY <1>1, <2>3, <2>4, <2>5, <2>6, <2>7, ManagerFacts
       DEF Reaches, Fits, OwnLaunch, Calm, Releases, Looked, Afoot, Ran, Preparing, Releasing, Mine
  <2>9. ResourcesInv'
    BY <2>4, <2>5, <2>6 DEF LaunchInv, ResourcesInv, ResourcesAreReferenced, Up
  <2>10. EntryInv'
    BY <2>4, <2>5, InstanceLaunchAssumption DEF EntryInv, ClaimOf, Mine
  <2>11. ASSUME NEW k \in 0..entry.launch, Settled(k) PROVE Settled(k)'
    <3>1. y.at \in Preparing => manager[m].at \in Preparing /\ y.launch = manager[m].launch
      BY <1>1, <2>3 DEF Preparing, Reaches
    <3>2. \A n \in Managers : manager'[n].at \in Preparing => manager'[n].launch # k
      BY <2>3, <2>11, <3>1 DEF Settled, Steps, Turns, Moves
    <3> QED BY <2>4, <2>11, <3>2 DEF Settled, Up
  <2>12. OnlyEntry /\ entry.launch <= entry'.launch
    BY <2>4, ManagerFacts DEF OnlyEntry
  <2>13. /\ y.goal # "follow"
         /\ y.at \in Preparing \cup {"await"} => manager[m].at \in Preparing \cup {"await"}
    BY <1>1, <2>3 DEF Reaches, Preparing
  <2> QED
    BY <1>1, <2>3, <2>4, <2>8, <2>9, <2>10, <2>11, <2>12, <2>13, InsideKeeps
<1> QED BY <1>2, <1>3 DEF Saves

(* The intent, the prepared and the bound reference are saved.             *)
LEMMA SavingKeeps ==
    ASSUME Inv, LaunchInv, NEW m \in Managers, Intent(m) \/ Prepared(m) \/ Rebind(m) \/ Bind(m)
    PROVE  LaunchInv'
<1>1. Steps(m)
  BY ManagerSteps
     DEF Manages, Intent, Prepared, Rebind, Bind, Saves, On, Claim, EndOperation
<1> QED BY <1>1, SavesKeeps DEF Intent, Prepared, Rebind, Bind

(* The directory is made after the intent is saved.                        *)
LEMMA StageKeeps ==
    ASSUME Inv, LaunchInv, NEW m \in Managers, Stage(m) PROVE LaunchInv'
<1>1. Steps(m) /\ manager[m].at = "stage" /\ Within(manager[m]) /\ manager[m].goal # "follow"
  BY ManagerSteps, ManagerFacts
     DEF Manages, Stage, On, Claim, EndOperation, Within, InOperation, Launching, Releasing, Proper, Loosely
<1>2. PICK f : f = Then(m, "prepared")
  OBVIOUS
<1>3. PICK y : y = f[m]
  OBVIOUS
<1>4. Reaches(m, "prepared", y) /\ y = manager'[m]
  BY <1>2, <1>3, ManagerFacts, ThenIs DEF Reaches, Stage
<1>5. /\ entry' = entry /\ claim' = claim /\ container' = container /\ helpers' = helpers
      /\ server' = server /\ query' = query
      /\ stage' = [launch |-> manager[m].launch, torn |-> FALSE]
  BY DEF Stage
<1>6. /\ Mine(manager[m]) /\ manager[m].launch # 0 /\ container.launch = 0 /\ helpers = {}
      /\ entry.ref \in {"intent", "prepared"}
  BY <1>1, ManagerFacts DEF Fits, OwnLaunch, Afoot, Preparing
<1>7. Fits(y)'
  BY <1>1, <1>4, <1>5, <1>6, ManagerFacts
     DEF Reaches, Fits, OwnLaunch, Calm, Releases, Looked, Afoot, Ran, Preparing, Releasing, Mine
<1>8. Leftovers' = {manager[m].launch}
  BY <1>5, <1>6 DEF Leftovers
<1>9. ResourcesInv'
  BY <1>5, <1>6, <1>8 DEF LaunchInv, ResourcesInv, ResourcesAreReferenced, Up, Mine
<1>10. EntryInv'
  BY <1>5 DEF LaunchInv, EntryInv
<1>11. ASSUME NEW k \in 0..entry.launch, Settled(k) PROVE Settled(k)'
  <2>1. \A n \in Managers : manager'[n].at \in Preparing => manager'[n].launch # k
    BY <1>1, <1>4, <1>11 DEF Settled, Steps, Turns, Moves, Preparing, Reaches
  <2> QED BY <1>5, <1>11, <2>1 DEF Settled, Up
<1>12. manager[m].at \in Preparing /\ y.goal # "follow" /\ entry.launch <= entry'.launch
  BY <1>1, <1>4, <1>5, ManagerFacts DEF Reaches, Preparing
<1>13. \A n \in Managers \ {m} : manager[n].goal = "follow" => manager[n].launch # entry'.launch
  BY <1>5, <1>12, FollowersAreOld
<1> QED
  BY <1>1, <1>4, <1>5, <1>7, <1>9, <1>10, <1>11, <1>12, <1>13, InsideKeeps

(* Filling it may fail, and leave it whole, torn, or not at all.           *)
LEMMA StageFailsKeeps ==
    ASSUME Inv, LaunchInv, NEW m \in Managers, StageFails(m) PROVE LaunchInv'
<1>1. Steps(m) /\ manager[m].at = "stage" /\ Within(manager[m]) /\ manager[m].goal # "follow"
  BY ManagerSteps, ManagerFacts
     DEF Manages, StageFails, On, Claim, EndOperation,
         Within, InOperation, Launching, Releasing, Proper, Loosely
<1>2. PICK f : f = Then(m, "abort")
  OBVIOUS
<1>3. PICK y : y = f[m]
  OBVIOUS
<1>4. Reaches(m, "abort", y) /\ y = manager'[m]
  BY <1>2, <1>3, ManagerFacts, ThenIs DEF Reaches, StageFails
<1>5. /\ entry' = entry /\ claim' = claim /\ container' = container /\ helpers' = helpers
      /\ server' = server /\ query' = query
      /\ stage' \in [launch : {manager[m].launch}, torn : BOOLEAN]
  BY DEF StageFails
<1>6. /\ Mine(manager[m]) /\ manager[m].launch # 0 /\ container.launch = 0 /\ helpers = {}
      /\ entry.ref \in {"intent", "prepared"}
  BY <1>1, ManagerFacts DEF Fits, OwnLaunch, Afoot, Preparing
<1>7. Fits(y)'
  BY <1>1, <1>4, <1>5, <1>6, ManagerFacts
     DEF Reaches, Fits, OwnLaunch, Calm, Releases, Looked, Afoot, Ran, Preparing, Releasing, Mine
<1>8. Leftovers' \subseteq {manager[m].launch}
  BY <1>5, <1>6 DEF Leftovers
<1>9. ResourcesInv'
  BY <1>5, <1>6, <1>8 DEF LaunchInv, ResourcesInv, ResourcesAreReferenced, Up, Mine
<1>10. EntryInv'
  BY <1>5 DEF LaunchInv, EntryInv
<1>11. ASSUME NEW k \in 0..entry.launch, Settled(k) PROVE Settled(k)'
  <2>1. \A n \in Managers : manager'[n].at \in Preparing => manager'[n].launch # k
    BY <1>1, <1>4, <1>11 DEF Settled, Steps, Turns, Moves, Preparing, Reaches
  <2> QED BY <1>5, <1>11, <2>1 DEF Settled, Up
<1>12. manager[m].at \in Preparing /\ y.goal # "follow" /\ entry.launch <= entry'.launch
  BY <1>1, <1>4, <1>5, ManagerFacts DEF Reaches, Preparing
<1>13. \A n \in Managers \ {m} : manager[n].goal = "follow" => manager[n].launch # entry'.launch
  BY <1>5, <1>12, FollowersAreOld
<1> QED
  BY <1>1, <1>4, <1>5, <1>7, <1>9, <1>10, <1>11, <1>12, <1>13, InsideKeeps

(* "docker run" begins after the prepared reference is saved.              *)
LEMMA RunKeeps ==
    ASSUME Inv, LaunchInv, NEW m \in Managers, Run(m) PROVE LaunchInv'
<1>1. Steps(m) /\ manager[m].at = "run" /\ Within(manager[m]) /\ manager[m].goal # "follow"
  BY ManagerSteps, ManagerFacts
     DEF Manages, Run, On, Claim, EndOperation, Within, InOperation, Launching, Releasing, Proper, Loosely
<1>2. PICK f : f = Then(m, "await")
  OBVIOUS
<1>3. PICK y : y = f[m]
  OBVIOUS
<1>4. Reaches(m, "await", y) /\ y = manager'[m]
  BY <1>2, <1>3, ManagerFacts, ThenIs DEF Reaches, Run
<1>5. /\ entry' = entry /\ claim' = claim /\ container' = container /\ stage' = stage
      /\ server' = server /\ query' = query
      /\ helpers' = helpers \cup {manager[m].launch}
  BY DEF Run
<1>6. /\ Mine(manager[m]) /\ manager[m].launch # 0 /\ container.launch = 0 /\ helpers = {}
      /\ entry.ref \in {"intent", "prepared"}
  BY <1>1, ManagerFacts DEF Fits, OwnLaunch, Afoot, Preparing
<1>7. Fits(y)'
  BY <1>1, <1>4, <1>5, <1>6, ManagerFacts
     DEF Reaches, Fits, OwnLaunch, Calm, Releases, Looked, Afoot, Ran, Preparing, Releasing, Mine
<1>8. \A l \in Leftovers' : l \in Leftovers \/ l = entry.launch
  BY <1>5, <1>6 DEF Leftovers, Mine
<1>9. ResourcesInv'
  <2>1. manager'[m].at = "await" /\ entry.ref # "bound" /\ entry.ref # "none"
    BY <1>4, <1>6 DEF Reaches
  <2>2. ResourcesAreReferenced'
    BY <1>5, <1>8, <2>1 DEF LaunchInv, ResourcesInv, ResourcesAreReferenced
  <2> QED BY <1>5, <1>6, <2>1, <2>2 DEF LaunchInv, ResourcesInv, Up
<1>10. EntryInv'
  BY <1>5 DEF LaunchInv, EntryInv
<1>11. ASSUME NEW k \in 0..entry.launch, Settled(k) PROVE Settled(k)'
  <2>1. k # manager[m].launch
    BY <1>1, <1>11 DEF Settled, Preparing
  <2>2. \A n \in Managers : manager'[n].at \in Preparing => manager'[n].launch # k
    BY <1>1, <1>4, <1>11 DEF Settled, Steps, Turns, Moves, Preparing, Reaches
  <2> QED BY <1>5, <1>11, <2>1, <2>2 DEF Settled, Up
<1>12. manager[m].at \in Preparing /\ y.goal # "follow" /\ entry.launch <= entry'.launch
  BY <1>1, <1>4, <1>5, ManagerFacts DEF Reaches, Preparing
<1>13. \A n \in Managers \ {m} : manager[n].goal = "follow" => manager[n].launch # entry'.launch
  BY <1>5, <1>12, FollowersAreOld
<1> QED
  BY <1>1, <1>4, <1>5, <1>7, <1>9, <1>10, <1>11, <1>12, <1>13, InsideKeeps

(* A "docker run" ends: it was the only one, and of the entry's launch.    *)
LEMMA RunningIsMine ==
    ASSUME Typed, LaunchInv, NEW l \in helpers
    PROVE  /\ helpers = {l} /\ l = entry.launch /\ l # 0
           /\ container.launch = 0 /\ entry.ref \notin {"none", "bound"}
<1>1. \A k \in helpers : k = entry.launch /\ entry.ref # "none"
  BY DEF LaunchInv, ResourcesInv, ResourcesAreReferenced, Leftovers
<1>2. l \in Launches
  BY DEF Typed
<1>3. l # 0
  BY <1>2 DEF Launches
<1>4. helpers # {}
  OBVIOUS
<1>5. container.launch = 0 /\ entry.ref # "bound"
  BY <1>4 DEF LaunchInv, ResourcesInv
<1>6. helpers = {l}
  BY <1>1
<1> QED BY <1>1, <1>3, <1>5, <1>6

(* Whoever waits for it goes on; the others stay where they fit.           *)
LEMMA RunEndedFits ==
    ASSUME Typed, LaunchInv, NEW l \in helpers, helpers' = {}, entry' = entry,
           NEW x, Fits(x), NEW y,
           \/ y = x /\ ~(x.at = "await" /\ x.launch = l)
           \/ /\ x.at = "await" /\ x.goal # "follow"
              /\ y.at \in {"bind", "undo"} /\ y.goal # "follow" /\ y.launch = x.launch
    PROVE  Fits(y)'
<1>1. helpers # {} /\ Leftovers # {} /\ (Mine(y)' <=> Mine(y))
  BY DEF Leftovers, Mine
<1>2. CASE y = x
  <2>1. OwnLaunch(y)'
    BY <1>1, <1>2 DEF Fits, OwnLaunch
  <2>2. Calm(y)'
    BY DEF Calm
  <2>3. Releases(y)'
    BY <1>1, <1>2 DEF Fits, Calm, Releases
  <2> QED BY <2>1, <2>2, <2>3 DEF Fits
<1>3. CASE x.at = "await" /\ y.at \in {"bind", "undo"} /\ y.goal # "follow" /\ y.launch = x.launch
  <2>1. x.launch <= entry.launch /\ Mine(x) /\ x.launch # 0
    BY <1>3 DEF Fits, OwnLaunch, Afoot
  <2> QED
    BY <1>3, <2>1 DEF Fits, OwnLaunch, Calm, Releases, Looked, Afoot, Ran, Preparing, Releasing, Mine
<1> QED BY <1>2, <1>3

(* The container that it leaves is the one the entry refers to.            *)
LEMMA HelperKeeps ==
    ASSUME Inv, LaunchInv, NEW l \in helpers, NEW ok \in BOOLEAN, HelperEnds(l, ok)
    PROVE  LaunchInv'
<1>1. /\ helpers = {l} /\ l = entry.launch /\ l # 0
      /\ container.launch = 0 /\ entry.ref \notin {"none", "bound"}
  BY ManagerFacts, RunningIsMine DEF Inv
<1>2. /\ helpers' = {} /\ entry' = entry /\ claim' = claim /\ stage' = stage /\ query' = query
      /\ \/ container' = container /\ server' = server
         \/ container' = [launch |-> l, state |-> "up"] /\ server' = "boot"
         \/ container' = [launch |-> l, state |-> "down"] /\ server' = server
  BY <1>1 DEF HelperEnds
<1>3. ASSUME NEW n \in Managers
      PROVE  /\ Fits(manager[n])' /\ Trails(manager[n], manager'[n])
             /\ manager[n].at = "dead" => manager'[n].at = "dead"
             /\ manager'[n].at \in Preparing =>
                   manager[n].at \in Preparing /\ manager'[n].launch = manager[n].launch
  <2>1. PICK x : x = manager[n]
    OBVIOUS
  <2>2. PICK y : y = manager'[n]
    OBVIOUS
  <2>3. Fits(x) /\ Proper(x) /\ x \in ManagerStates
    BY <2>1, ManagerFacts
  <2>4. \/ y = x /\ ~(x.at = "await" /\ x.launch = l)
        \/ /\ x.at = "await" /\ x.goal # "follow"
           /\ y.at \in {"bind", "undo"} /\ y.goal # "follow" /\ y.launch = x.launch
    BY <2>1, <2>2, <2>3 DEF HelperEnds, ManagerStates, Proper, Loosely
  <2>5. Fits(y)'
    BY <1>2, <2>3, <2>4, RunEndedFits DEF Inv
  <2> QED BY <2>1, <2>2, <2>4, <2>5 DEF Trails, Preparing
<1>4. ManagersInv'
  BY <1>3 DEF ManagersInv, Fits
<1>5. FollowersInv'
  BY <1>2, <1>3 DEF LaunchInv, FollowersInv, Trails
<1>6. ResourcesInv'
  <2>1. server = "none"
    BY <1>1 DEF LaunchInv, ResourcesInv, Up
  <2>2. Leftovers' \subseteq Leftovers
    BY <1>1, <1>2 DEF Leftovers
  <2>3. ResourcesAreReferenced'
    BY <1>2, <2>2 DEF LaunchInv, ResourcesInv, ResourcesAreReferenced
  <2> QED BY <1>1, <1>2, <2>1, <2>3 DEF LaunchInv, ResourcesInv, Up
<1>7. EntryInv'
  BY <1>2 DEF LaunchInv, EntryInv
<1>8. ASSUME NEW k \in 0..entry.launch, Settled(k) PROVE Settled(k)'
  <2>1. k # l
    BY <1>8 DEF Settled
  <2>2. \A n \in Managers : manager'[n].at \in Preparing => manager'[n].launch # k
    BY <1>3, <1>8 DEF Settled
  <2> QED BY <1>1, <1>2, <1>8, <2>1, <2>2 DEF Settled, Up
<1>9. QueryInv'
  <2>1. entry.launch \in Nat /\ query.entry.launch \in Nat
    BY DEF Inv, Typed, Entries, QueryStates
  <2> QED BY <1>2, <1>3, <1>8, <2>1, QueryKeeps DEF LaunchInv
<1> QED BY <1>4, <1>5, <1>6, <1>7, <1>9 DEF LaunchInv

(* Every action of a manager.                                              *)
LEMMA ManagerKeeps ==
    ASSUME Inv, LaunchInv, NEW m \in Managers,
           \/ Begins(m, "start") \/ Begins(m, "stop")
           \/ Manages(m) \/ Follow(m) \/ Spend(m) \/ Kill(m) \/ KillUnstaging(m)
    PROVE  LaunchInv'
<1>1. CASE Manages(m)
  BY <1>1, TakeKeeps, EndKeeps, LoadKeeps, RetireKeeps, ProbesKeep, ProbedKeeps, HaltedKeeps,
     ReleasedKeeps, UnstageKeeps, UnstageFailsKeeps, ClearKeeps, BeginKeeps, SavingKeeps,
     StageKeeps, StageFailsKeeps, WaitingKeeps,
     RunKeeps, UndoKeeps, RememberKeeps, QuitKeeps, DropKeeps, DroppedKeeps, FailKeeps, LeaveKeeps
     DEF Manages
<1> QED BY <1>1, BeginsKeeps, FollowKeeps, SpendKeeps, KillKeeps, KillUnstagingKeeps

----------------------------------------------------------------------------
(* The steps of the server and of the queries.                             *)

(* The server goes on.                                                     *)
LEMMA ServerOnlyKeeps ==
    ASSUME Inv, LaunchInv, NEW next, ServerOnly(next), server # "none" PROVE LaunchInv'
<1>1. /\ entry' = entry /\ claim' = claim /\ container' = container /\ helpers' = helpers
      /\ stage' = stage /\ manager' = manager /\ query' = query
  BY DEF ServerOnly
<1>2. Shrinks
  BY <1>1 DEF Shrinks
<1> QED BY <1>1, <1>2, ShrinkAside, ManagerFacts DEF Inv

(* The server reports a phase of its own launch.                           *)
LEMMA ServerWritesKeeps ==
    ASSUME Inv, LaunchInv, NEW phase, NEW next, NEW raised, ServerWrites(phase, next, raised),
           server # "none"
    PROVE  LaunchInv'
<1>1. /\ container' = container /\ helpers' = helpers
      /\ stage' = stage /\ manager' = manager /\ query' = query
  BY DEF ServerWrites
<1>2. container.launch = entry.launch /\ container.launch # 0
  BY DEF LaunchInv, ResourcesInv, ResourcesAreReferenced, Leftovers, Up
<1>3. entry'.launch = entry.launch /\ entry'.ref = entry.ref
  BY DEF ServerWrites, Patched, Inv, Typed, Entries
<1>4. claim'.by = "server" => claim' = claim \/ claim'.launch = entry.launch
  BY <1>2 DEF ServerWrites, ServerClaims
<1>5. Shrinks
  BY <1>1, <1>2, <1>3, <1>4 DEF Shrinks
<1> QED BY <1>1, <1>5, ShrinkAside DEF Inv

(* What it patches besides.                                                *)
LEMMA ServerPatchesKeeps ==
    ASSUME Inv, LaunchInv, NEW next, ServerPatches(next), server # "none" PROVE LaunchInv'
<1>1. /\ entry' = entry /\ container' = container /\ helpers' = helpers
      /\ stage' = stage /\ manager' = manager /\ query' = query
  BY DEF ServerPatches
<1>2. container.launch = entry.launch
  BY DEF ServerPatches, ServerEnters
<1>3. claim'.launch = entry.launch
  BY <1>2 DEF ServerPatches, ServerClaims
<1>4. Shrinks
  BY <1>1, <1>3 DEF Shrinks
<1> QED BY <1>1, <1>4, ShrinkAside DEF Inv

(* The server reports its end.                                             *)
LEMMA FinalizesKeeps == ASSUME Inv, LaunchInv, ServerFinalizes PROVE LaunchInv'
<1>1. server # "none"
  BY DEF ServerFinalizes, ServerAt
<1>2. CASE ServerOnly("done")
  BY <1>1, <1>2, ServerOnlyKeeps
<1>3. CASE /\ \E phase \in Terminal : entry' = [entry EXCEPT !.phase = phase]
           /\ claim' \in ServerClaims
           /\ UNCHANGED <<container, helpers, stage, manager, query, faults>>
  <2>1. /\ container' = container /\ helpers' = helpers
        /\ stage' = stage /\ manager' = manager /\ query' = query
    BY <1>3
  <2>2. container.launch = entry.launch
    BY <1>1 DEF LaunchInv, ResourcesInv, ResourcesAreReferenced, Leftovers, Up
  <2>3. entry'.launch = entry.launch /\ entry'.ref = entry.ref /\ entry'.phase \notin Reporting
    BY <1>3 DEF Inv, Typed, Entries, Terminal, Reporting
  <2>4. claim'.launch = entry.launch
    BY <1>3, <2>2 DEF ServerClaims
  <2>5. Shrinks
    BY <1>1, <2>1, <2>3, <2>4 DEF Shrinks
  <2> QED BY <2>1, <2>5, ShrinkAside DEF Inv
<1> QED BY <1>2, <1>3 DEF ServerFinalizes

(* The container ends, and with it the server.                             *)
LEMMA EndingKeeps == ASSUME Inv, LaunchInv, ServerExits \/ ContainerDies PROVE LaunchInv'
<1>1. /\ entry' = entry /\ helpers' = helpers /\ stage' = stage /\ manager' = manager
      /\ query' = query /\ Stopped(container.launch)
  BY DEF ServerExits, ContainerDies
<1>2. Up
  BY DEF ServerExits, ContainerDies, ServerAt, LaunchInv, ResourcesInv
<1>3. Shrinks
  BY <1>1, <1>2, StoppedShrinks DEF LaunchInv, Inv
<1> QED BY <1>1, <1>3, ShrinkAside DEF Inv

(* Every step of the server.                                               *)
LEMMA ServesKeep ==
    ASSUME Inv, LaunchInv, Serves \/ ServerCloses \/ ContainerDies PROVE LaunchInv'
<1>1. CASE ServerStarts
  BY <1>1, ServerWritesKeeps, ServerOnlyKeeps DEF ServerStarts, ServerAt
<1>2. CASE ServerServes
  BY <1>2, ServerWritesKeeps, ServerOnlyKeeps DEF ServerServes, ServerAt
<1>3. CASE ServerCloses \/ ServerPromotes
  BY <1>3, ServerOnlyKeeps, ServerPatchesKeeps DEF ServerCloses, ServerPromotes, ServerAt
<1>4. CASE ServerLeaves
  <2>1. /\ entry' = entry /\ container' = container /\ helpers' = helpers /\ stage' = stage
        /\ server' = server /\ manager' = manager /\ query' = query /\ claim'.by # "server"
    BY <1>4 DEF ServerLeaves, NoClaim
  <2>2. Shrinks
    BY <2>1 DEF Shrinks
  <2> QED BY <2>1, <2>2, ShrinkAside DEF Inv
<1> QED BY <1>1, <1>2, <1>3, <1>4, FinalizesKeeps, EndingKeeps DEF Serves

(* A query does not change what there is, and retires no reference.        *)
LEMMA QueriesShrink ==
    ASSUME Inv, LaunchInv, Queries
    PROVE  Shrinks /\ manager' = manager /\ helpers' = helpers /\ container' = container
<1>1. /\ container' = container /\ helpers' = helpers /\ stage' = stage
      /\ server' = server /\ manager' = manager
  BY DEF Queries, QueryReads, QueryLooks, QueryJudges, QueryOnly, Repair, Defer, QueryRecovers, QueryLeaves
<1>2. entry' = entry \/ entry' = Over(entry)
  BY DEF Queries, QueryReads, QueryLooks, QueryJudges, QueryOnly, Repair, Defer, QueryRecovers, QueryLeaves
<1>3. claim' = claim \/ claim'.by # "server"
  BY DEF Queries, QueryReads, QueryLooks, QueryJudges, QueryOnly, Repair, Defer, QueryRecovers, QueryLeaves,
         NoClaim, ClaimOf
<1>4. entry'.launch = entry.launch /\ entry'.ref = entry.ref
      /\ (entry'.phase \in Reporting => entry.phase \in Reporting)
  BY <1>2 DEF Over, Inv, Typed, Entries, Reporting
<1> QED BY <1>1, <1>3, <1>4 DEF Shrinks

(* What a query reads of a launch whose container does not run.            *)
LEMMA ReadsSettled ==
    ASSUME Inv, LaunchInv, QueryReads, entry.op = "none" \/ entry.ref = "bound"
    PROVE  Settled(entry.launch) \/ (entry.ref # "bound" /\ SomeDead)
<1>1. ~(Up /\ container.launch = entry.launch)
  BY DEF QueryReads, Found, Up
<1>2. ASSUME NEW n \in Managers, manager[n].at \in Preparing \cup {"await"}
      PROVE  Within(manager[n])
  BY <1>2 DEF Within, InOperation, Updates, Releasing, Launching, Preparing
<1>3. CASE entry.op = "none"
  <2>1. \A n \in Managers : ~Within(manager[n])
    BY <1>3, InstanceLaunchAssumption DEF Inv, Owned
  <2>2. \A n \in Managers : manager[n].at \notin Preparing \cup {"await"}
    BY <1>2, <2>1
  <2>3. helpers # {} => SomeDead
    BY <2>2 DEF LaunchInv, ResourcesInv
  <2>4. helpers # {} => entry.ref # "bound"
    BY DEF LaunchInv, ResourcesInv
  <2>5. helpers = {} => Settled(entry.launch)
    BY <1>1, <2>2 DEF Settled
  <2> QED BY <2>3, <2>4, <2>5
<1>4. CASE entry.ref = "bound"
  <2>1. helpers = {}
    BY <1>4 DEF LaunchInv, ResourcesInv
  <2>2. ASSUME NEW n \in Managers, manager[n].at \in Preparing PROVE FALSE
    BY <1>4, <2>2, ManagerFacts DEF Fits, OwnLaunch, Preparing, Afoot
  <2> QED BY <1>1, <2>1, <2>2 DEF Settled
<1> QED BY <1>3, <1>4

(* What a query goes on with is still of a launch that is settled.         *)
LEMMA QueriesKeep == ASSUME Inv, LaunchInv, Queries PROVE LaunchInv'
<1>1. /\ ManagersInv' /\ FollowersInv' /\ ResourcesInv' /\ EntryInv'
      /\ query' = query => LaunchInv'
  BY QueriesShrink, ShrinkAside DEF Inv
<1>2. \A l : Settled(l)' <=> Settled(l)
  BY QueriesShrink DEF Settled, Up
<1>3. SomeDead' <=> SomeDead
  BY QueriesShrink DEF SomeDead
<1>4. entry'.launch = entry.launch
  BY QueriesShrink DEF Shrinks
<1>5. CASE query'.at = "idle"
  BY <1>1, <1>5 DEF QueryInv, LaunchInv
<1>6. CASE QueryReads
  <2>1. query'.at = "inspected" /\ query'.entry = entry
    BY <1>6 DEF QueryReads, QueryOnly
  <2>2. PICK e : e = entry
    OBVIOUS
  <2>3. PICK l : l = e.launch
    OBVIOUS
  <2>4. e.launch <= entry'.launch
    BY <1>4, <2>2, ManagerFacts DEF Inv, Typed, Entries
  <2>5. e.op = "none" \/ e.ref = "bound" => Settled(l)' \/ (e.ref # "bound" /\ SomeDead')
    BY <1>2, <1>3, <1>6, <2>2, <2>3, ReadsSettled
  <2>6. QueryInv'
    BY <2>1, <2>2, <2>3, <2>4, <2>5 DEF QueryInv
  <2> QED BY <1>1, <2>6 DEF LaunchInv
<1>7. CASE query.at # "idle" /\ query'.entry = query.entry /\ (query'.at = "repair" => Abandoned(query.entry))
  <2>1. PICK e : e = query.entry
    OBVIOUS
  <2>2. PICK l : l = e.launch
    OBVIOUS
  <2>3. e.launch <= entry'.launch
    BY <1>4, <1>7, <2>1 DEF LaunchInv, QueryInv
  <2>4. e.op = "none" \/ e.ref = "bound" => Settled(l)' \/ (e.ref # "bound" /\ SomeDead')
    BY <1>2, <1>3, <1>7, <2>1, <2>2 DEF LaunchInv, QueryInv
  <2>5. query'.at = "repair" => Abandoned(e)'
    BY <1>7, <2>1, QueriesShrink DEF Abandoned
  <2>6. query'.entry = e
    BY <1>7, <2>1
  <2>7. QueryInv'
    BY <2>2, <2>3, <2>4, <2>5, <2>6 DEF QueryInv
  <2> QED BY <1>1, <2>7 DEF LaunchInv
<1>8. ASSUME QueryLooks \/ QueryJudges
      PROVE  query'.at = "idle" \/ (query.at # "idle" /\ query'.entry = query.entry
                                    /\ (query'.at = "repair" => Abandoned(query.entry)))
  BY <1>8 DEF QueryLooks, QueryJudges, QueryOnly, IdleQuery, Inv, Typed, QueryStates
<1>9. ASSUME Repair \/ Defer PROVE query'.at = "idle"
  BY <1>9 DEF Repair, Defer, IdleQuery
<1>10. ASSUME QueryRecovers \/ QueryLeaves PROVE query' = query
  BY <1>10 DEF QueryRecovers, QueryLeaves
<1> QED BY <1>1, <1>5, <1>6, <1>7, <1>8, <1>9, <1>10 DEF Queries

(* The invariant.                                                          *)
LEMMA InitLaunch == Init => LaunchInv
<1> SUFFICES ASSUME Init PROVE LaunchInv
  OBVIOUS
<1>1. /\ entry.launch = 0 /\ entry.ref = "none" /\ entry.phase = "none"
      /\ container.launch = 0 /\ container.state = "none" /\ helpers = {}
      /\ stage.launch = 0 /\ ~stage.torn /\ server = "none" /\ claim.by = "none"
      /\ query.at = "idle" /\ \A m \in Managers : manager[m] = IdleManager
  BY DEF Init, NewEntry, NoContainer, NoStage, NoClaim, IdleQuery
<1>2. IdleManager.launch = 0 /\ IdleManager.goal = "none" /\ IdleManager.at = "idle"
  BY DEF IdleManager
<1>3. Leftovers = {}
  BY <1>1 DEF Leftovers
<1>4. Fits(IdleManager)
  BY <1>1, <1>2 DEF Fits, OwnLaunch, Calm, Releases, Looked, Afoot, Ran, Preparing, Releasing
<1>5. ManagersInv /\ FollowersInv
  BY <1>1, <1>2, <1>4 DEF ManagersInv, FollowersInv, Fits
<1>6. ResourcesInv /\ EntryInv /\ QueryInv
  BY <1>1, <1>3 DEF ResourcesInv, EntryInv, QueryInv, ResourcesAreReferenced, Reporting
<1> QED BY <1>5, <1>6 DEF LaunchInv

(* Every step keeps the invariant.                                         *)
LEMMA LaunchNext == ASSUME Inv, LaunchInv, [Next]_vars PROVE LaunchInv'
<1>1. CASE UNCHANGED vars
  <2>1. /\ entry' = entry /\ claim' = claim /\ container' = container /\ helpers' = helpers
        /\ stage' = stage /\ server' = server /\ manager' = manager /\ query' = query
    BY <1>1 DEF vars
  <2>2. Shrinks
    BY <2>1 DEF Shrinks
  <2> QED BY <2>1, <2>2, ShrinkAside DEF Inv
<1>2. CASE Next
  BY <1>2, ManagerKeeps, HelperKeeps, ServesKeep, QueriesKeep DEF Next
<1> QED BY <1>1, <1>2

(* It holds in every reachable state.                                      *)
LEMMA LaunchAlways == Spec => [](Inv /\ LaunchInv)
<1>1. Init => Inv /\ LaunchInv
  BY InitInv, InitLaunch
<1>2. Inv /\ LaunchInv /\ [Next]_vars => (Inv /\ LaunchInv)'
  BY NextKeeps, LaunchNext
<1> QED BY <1>1, <1>2, PTL DEF Spec

(* What a manager that is killed between any two steps leaves is what the  *)
(* next one finds: the entry refers to the container, to a "docker run"    *)
(* that may yet create one, and to a directory that is whole.              *)
THEOREM ResourcesHold == Spec => []ResourcesAreReferenced
<1>1. LaunchInv => ResourcesAreReferenced
  BY DEF LaunchInv, ResourcesInv
<1> QED BY <1>1, LaunchAlways, PTL

(* A manager that begins a launch, or that has stopped the agent, left     *)
(* nothing of an earlier one, however the managers before it ended.        *)
THEOREM NothingHolds == Spec => []NothingIsLeft
<1>1. ASSUME Inv, LaunchInv PROVE NothingIsLeft
  <2>1. SUFFICES ASSUME NEW m \in Managers,
                        manager[m].at = "begin" \/ (manager[m].at = "end" /\ manager[m].goal = "stop")
                 PROVE  Leftovers = {} /\ entry.ref = "none"
    BY DEF NothingIsLeft
  <2>2. entry.ref = "none"
    BY <1>1, <2>1, ManagerFacts DEF Fits, Releases
  <2> QED BY <1>1, <2>2 DEF LaunchInv, ResourcesInv, ResourcesAreReferenced
<1>2. Inv /\ LaunchInv => NothingIsLeft
  BY <1>1
<1> QED BY <1>2, LaunchAlways, PTL

(* No start or stop meets an entry that _release_stopped_locked or         *)
(* _recover_unreferenced refuses, a torn directory aside.                  *)
THEOREM NeverStuckHolds == Spec => []NeverStuck
<1>1. ASSUME Inv, LaunchInv PROVE NeverStuck
  <2>1. SUFFICES ASSUME NEW goal, Unrecoverable(goal), ~stage.torn PROVE FALSE
    BY DEF NeverStuck
  <2>2. entry.ref = "none" /\ stage # NoStage
    BY <1>1, <2>1 DEF Unrecoverable, LaunchInv, EntryInv
  <2>3. stage.launch = 0
    BY <1>1, <2>1, <2>2 DEF LaunchInv, ResourcesInv, ResourcesAreReferenced, Leftovers
  <2>4. stage = NoStage
    BY <1>1, <2>1, <2>3 DEF Inv, Typed, Stages, NoStage
  <2> QED BY <2>2, <2>4
<1>2. Inv /\ LaunchInv => NeverStuck
  BY <1>1
<1> QED BY <1>2, LaunchAlways, PTL

(* What a query is about to repair is a launch whose container does not    *)
(* run, unless its manager was killed before it bound the container.       *)
LEMMA RepairsDead ==
    ASSUME Inv, LaunchInv, query.at = "repair", Up, container.launch = query.entry.launch
    PROVE  Orphaned(query.entry.ref)
<1>1. PICK e : e = query.entry
  OBVIOUS
<1>2. /\ e.op = "none" \/ e.ref = "bound" => Settled(e.launch) \/ (e.ref # "bound" /\ SomeDead)
      /\ Abandoned(e)
  BY <1>1 DEF LaunchInv, QueryInv
<1>3. ~Settled(e.launch)
  BY <1>1 DEF Settled
<1>4. e.op \in Managers \cup {"none"}
  BY <1>1 DEF Inv, Typed, QueryStates, Entries
<1>5. e.ref # "bound" /\ SomeDead
  BY <1>2, <1>3, <1>4 DEF Abandoned, SomeDead
<1> QED BY <1>1, <1>5 DEF Orphaned, SomeDead

(* repair_registration marks no launch stopped whose container runs, with  *)
(* the exception that RetiredIsDead names, whatever was begun, bound or    *)
(* ended between the query's reading, its looking and its writing.         *)
THEOREM RetiredIsDeadHolds == Spec => RetiredIsDead
<1>1. ASSUME Inv, LaunchInv, Repair, Up, container.launch = entry.launch PROVE Orphaned(entry.ref)
  BY <1>1, RepairsDead DEF Repair
<1>2. Inv /\ LaunchInv /\ [Next]_vars =>
        [Repair /\ Up /\ container.launch = entry.launch => Orphaned(entry.ref)]_vars
  BY <1>1
<1> QED BY <1>2, LaunchAlways, PTL DEF Spec, RetiredIsDead

(* A server's claim, while its container runs: no manager takes it, and no *)
(* query, with the same exception.                                         *)
LEMMA ClaimOfLiving ==
    ASSUME Inv, LaunchInv, claim.by = "server", Up
    PROVE  /\ claim.launch = entry.launch /\ container.launch = entry.launch
           /\ Alive(claim) = "up" /\ ~OfDeadManager(claim) /\ claim # NoClaim
           /\ \A m \in Managers : ~Enters(m)
           /\ Left = {claim} /\ ~ServerEnters
<1>1. claim.launch = entry.launch
  BY DEF LaunchInv, EntryInv
<1>2. container.launch = entry.launch
  BY DEF LaunchInv, ResourcesInv, ResourcesAreReferenced, Leftovers, Up
<1>3. Alive(claim) = "up"
  BY <1>1, <1>2 DEF Alive, Mismatch, Found, Up
<1>4. ~OfDeadManager(claim)
  BY InstanceLaunchAssumption DEF OfDeadManager
<1>5. claim # NoClaim
  BY DEF NoClaim
<1>6. \A m \in Managers : ~Enters(m)
  BY <1>3, <1>4, <1>5 DEF Enters, Recoverable
<1>7. Left = {claim} /\ ~ServerEnters
  BY <1>5 DEF Left, ServerEnters
<1> QED BY <1>1, <1>2, <1>3, <1>4, <1>5, <1>6, <1>7

(* No manager takes it.                                                    *)
LEMMA ManagersLeaveClaim ==
    ASSUME Inv, LaunchInv, claim.by = "server", Up, NEW m \in Managers,
           \/ Begins(m, "start") \/ Begins(m, "stop")
           \/ Manages(m) \/ Follow(m) \/ Spend(m) \/ Kill(m) \/ KillUnstaging(m)
    PROVE  claim' = claim
<1>1. ~Enters(m) /\ Left = {claim}
  BY ClaimOfLiving
<1>2. ASSUME NEW f, Only(m, f) PROVE claim' = claim
  BY <1>2 DEF Only
<1>3. ASSUME NEW e, Writes(m, e) PROVE FALSE
  BY <1>1, <1>3 DEF Writes
<1>4. ASSUME NEW l, NEW c, Becomes(l, c) PROVE claim' = claim
  BY <1>1, <1>4 DEF Becomes
<1>5. ASSUME NEW l, Stopped(l) PROVE claim' = claim
  BY <1>4, <1>5 DEF Stopped
<1>6. ASSUME Begins(m, "start") \/ Begins(m, "stop") \/ Follow(m) \/ Spend(m) PROVE claim' = claim
  BY <1>2, <1>6 DEF Begins, Follow, Spend
<1>7. ASSUME Kill(m) \/ KillUnstaging(m) PROVE claim' = claim
  BY <1>1, <1>4, <1>7 DEF Kill, KillUnstaging
<1>8. ASSUME Claim(m) \/ EndOperation(m) \/ Retire(m) \/ Clear(m) \/ Dropped(m) \/ Abort(m) PROVE FALSE
  BY <1>3, <1>8 DEF Claim, EndOperation, Retire, Clear, Dropped, Abort
<1>9. ASSUME Load(m) \/ Probe(m) \/ Probed(m) \/ Halt(m) \/ Release(m) PROVE claim' = claim
  BY <1>2, <1>9 DEF Load, Probe, Probed, Halt, Release, Inspect
<1>10. ASSUME Halted(m) \/ Released(m) PROVE claim' = claim
  BY <1>2, <1>4, <1>5, <1>10 DEF Halted, Released
<1>11. ASSUME Unstage(m) \/ UnstageFails(m) \/ Stage(m) \/ StageFails(m) \/ Run(m)
       PROVE  claim' = claim
  BY <1>11 DEF Unstage, UnstageFails, Stage, StageFails, Run
<1>12. ASSUME Begin(m) \/ Intent(m) \/ Prepared(m) \/ Rebind(m) \/ Bind(m) PROVE claim' = claim
  BY <1>2, <1>3, <1>12 DEF Begin, Intent, Prepared, Rebind, Bind, Saves
<1>13. ASSUME PrepareFails(m) \/ UndoFails(m) \/ Ready(m) \/ NotReady(m) PROVE claim' = claim
  BY <1>2, <1>13 DEF PrepareFails, UndoFails, Ready, NotReady
<1>14. ASSUME Undo(m) \/ Quit(m) \/ Drop(m) PROVE claim' = claim
  BY <1>2, <1>4, <1>5, <1>14 DEF Undo, Quit, Drop
<1>15. ASSUME NEW goal, Remember(m, goal) PROVE FALSE
  BY <1>3, <1>15 DEF Remember
<1>16. ASSUME Fail(m) PROVE claim' = claim
  BY <1>2, <1>3, <1>16 DEF Fail
<1>17. ASSUME Leave(m) PROVE FALSE
  BY <1>17, InstanceLaunchAssumption DEF Leave
<1> QED
  BY <1>6, <1>7, <1>8, <1>9, <1>10, <1>11, <1>12, <1>13, <1>14, <1>15, <1>16, <1>17 DEF Manages

(* The server and its container leave it as it is.                         *)
LEMMA ServerKeepsClaim ==
    ASSUME Inv, LaunchInv, claim.by = "server", Up, Serves \/ ServerCloses \/ ContainerDies
    PROVE  claim' = claim \/ ServerLeaves
<1>1. Left = {claim} /\ ~ServerEnters /\ claim # NoClaim
  BY ClaimOfLiving
<1>2. ASSUME NEW l, Stopped(l) PROVE claim' = claim
  BY <1>1, <1>2 DEF Stopped, Becomes
<1>3. ASSUME ServerStarts \/ ServerServes \/ ServerPromotes \/ ServerCloses \/ ServerFinalizes
      PROVE  claim' = claim
  BY <1>1, <1>3 DEF ServerStarts, ServerServes, ServerPromotes, ServerCloses, ServerFinalizes,
                    ServerWrites, ServerPatches, ServerOnly
<1>4. ASSUME ServerExits \/ ContainerDies PROVE claim' = claim
  BY <1>2, <1>4 DEF ServerExits, ContainerDies
<1> QED BY <1>3, <1>4 DEF Serves

(* No query takes it but on the evidence that RetiredIsDead allows.        *)
LEMMA QueriesLeaveClaim ==
    ASSUME Inv, LaunchInv, claim.by = "server", Up, Queries
    PROVE  claim' = claim \/ Orphaned(claim.ref)
<1>1. /\ claim.launch = container.launch /\ Alive(claim) = "up" /\ ~OfDeadManager(claim)
      /\ claim # NoClaim
  BY ClaimOfLiving
<1>2. ASSUME QueryReads \/ QueryLooks \/ QueryJudges PROVE claim' = claim
  BY <1>2 DEF QueryReads, QueryLooks, QueryJudges, QueryOnly
<1>3. ~QueryRecovers /\ ~QueryLeaves
  BY <1>1 DEF QueryRecovers, QueryLeaves
<1>4. ASSUME Repair \/ Defer, claim' # claim PROVE Orphaned(claim.ref)
  <2>1. query.at = "repair" /\ QueryEnters
    BY <1>4 DEF Repair, Defer
  <2>2. Evidence
    BY <1>1, <2>1 DEF QueryEnters
  <2> QED BY <1>1, <2>1, <2>2, RepairsDead DEF Evidence
<1> QED BY <1>2, <1>3, <1>4 DEF Queries

(* A server's claim on the entry is taken away by nobody while its         *)
(* container runs (LockRecovery.dead), with the same exception, whatever   *)
(* managers and queries waited for it and whenever they looked.            *)
THEOREM LiveKeepsClaimHolds == Spec => LiveKeepsClaim
<1>1. ASSUME Inv, LaunchInv, Next, claim.by = "server", claim' # claim, Up
      PROVE  ServerLeaves \/ Orphaned(claim.ref)
  <2>1. CASE \E l \in helpers, ok \in BOOLEAN : HelperEnds(l, ok)
    BY <1>1, <2>1 DEF HelperEnds
  <2> QED BY <1>1, <2>1, ManagersLeaveClaim, ServerKeepsClaim, QueriesLeaveClaim DEF Next
<1>2. Inv /\ LaunchInv /\ [Next]_vars =>
        [claim.by = "server" /\ claim' # claim =>
            ServerLeaves \/ ~Up \/ ~Up' \/ Orphaned(claim.ref)]_vars
  BY <1>1
<1> QED BY <1>2, LaunchAlways, PTL DEF Spec, LiveKeepsClaim

----------------------------------------------------------------------------
(* LaunchContract.  What a manager at its place knows of the entry's phase:*)
(* the launch it prepares has not reported, and one whose reference is     *)
(* gone is over.                                                           *)
Spoken == Afoot \cup Ran \cup (Releasing \ {"load"}) \cup {"clear", "begin"}
Says(x) ==
    /\ x.at \in Preparing => entry.phase = "preparing"
    /\ x.goal # "follow" /\ x.at \in Spoken /\ entry.ref = "none" => entry.phase \notin Active
    /\ x.at = "retire" => Mine(x)
SaidInv ==
    /\ \A m \in Managers : Says(manager[m])
    /\ entry.phase = "none" => entry.launch = 0

(* A change of the entry that leaves what managers know of it.             *)
Mild ==
    /\ entry'.launch = entry.launch
    /\ entry'.phase = entry.phase \/ ~Busy
    /\ entry'.ref = "none" /\ entry'.phase \in Active =>
          entry.ref = "none" /\ entry.phase \in Active
    /\ entry'.phase = "none" => entry.phase = "none"

(* A move of a manager that needs no more knowledge than it had.           *)
Passes(x, y) ==
    /\ y.at \in Preparing => x.at \in Preparing
    /\ y.goal # "follow" /\ y.at \in Spoken => x.goal # "follow" /\ x.at \in Spoken
    /\ y.at = "retire" => x.at = "retire" /\ y.launch = x.launch

(* What the places are not.                                                *)
LEMMA NotSpoken ==
    /\ {"idle", "claim", "load", "retire", "intent", "end", "fail", "abort", "follow", "dead"}
          \cap Spoken = {}
    /\ Preparing \ {"intent"} \subseteq Spoken
BY DEF Spoken, Afoot, Ran, Releasing, Preparing

(* Where nothing has to be known.                                          *)
LEMMA FarPasses ==
    ASSUME NEW x, NEW y,
           y.at \in {"idle", "claim", "load", "end", "fail", "abort", "follow", "dead"}
    PROVE  Passes(x, y)
<1>1. y.at \notin Spoken \cup Preparing /\ y.at # "retire"
  BY NotSpoken DEF Preparing
<1> QED BY <1>1 DEF Passes

(* A manager that stays knows what it knew.                                *)
LEMMA SamePasses == ASSUME NEW x PROVE Passes(x, x)
BY DEF Passes

(* What a manager knows after such a change and such a move.               *)
LEMMA PassSays ==
    ASSUME NEW x, NEW y, Says(x), Mild, Passes(x, y), x.at \in Preparing => Busy
    PROVE  Says(y)'
<1>1. y.at \in Preparing => entry'.phase = "preparing"
  BY DEF Says, Passes, Mild
<1>2. y.goal # "follow" /\ y.at \in Spoken /\ entry'.ref = "none" => entry'.phase \notin Active
  BY DEF Says, Passes, Mild
<1>3. y.at = "retire" => y.launch = entry'.launch
  BY DEF Says, Passes, Mild, Mine
<1> QED BY <1>1, <1>2, <1>3 DEF Says, Mine

(* All of them, when one has moved.                                        *)
LEMMA PassKeeps ==
    ASSUME SaidInv, Mild, NEW m \in Managers, Moves(m, manager'),
           NEW y, y = manager'[m], Says(y)'
    PROVE  SaidInv'
<1>1. ASSUME NEW n \in Managers PROVE Says(manager[n])'
  <2>1. CASE n = m
    BY <2>1 DEF Says, Mine
  <2>2. CASE n # m
    <3>1. PICK x : x = manager[n]
      OBVIOUS
    <3>2. Says(x) /\ manager'[n] = x /\ (x.at \in Preparing => Busy)
      BY <2>2, <3>1 DEF SaidInv, Moves, Busy
    <3>3. Says(x)'
      BY <3>2, SamePasses, PassSays
    <3> QED BY <3>2, <3>3
  <2> QED BY <2>1, <2>2
<1>2. entry'.phase = "none" => entry'.launch = 0
  BY DEF SaidInv, Mild
<1> QED BY <1>1, <1>2 DEF SaidInv

(***************************************************************************)
(* What a step makes of the entry and of its launch: it tells nothing, and *)
(* the launch goes on or ends; or it writes the entry, and what there is   *)
(* of the launch stays.                                                    *)
(***************************************************************************)

Kept ==
    /\ entry'.launch = entry.launch /\ entry'.ref = entry.ref /\ entry'.phase = entry.phase
Quiet ==
    /\ Kept /\ helpers' = helpers /\ (Busy' => Busy)
    /\ container' = container \/ (container.launch # 0 /\ Ends(container'))

Ended ==
    /\ entry'.launch = entry.launch /\ entry'.ref = entry.ref /\ entry'.phase \notin Active
    /\ ~Busy /\ (entry'.phase = "none" => entry.phase = "none")
Reported ==
    /\ entry'.launch = entry.launch /\ entry'.ref = entry.ref /\ entry'.phase \in Reporting
    /\ entry.phase \notin Terminal /\ container.launch = entry.launch /\ container.launch # 0
Bound(m) ==
    /\ entry'.launch = entry.launch /\ entry'.phase = entry.phase /\ entry'.ref # "none"
    /\ manager[m].at \in {"intent", "prepared", "rebind", "bind"} /\ manager[m].goal # "follow"
    /\ Mine(manager[m]) /\ entry.phase \notin Terminal
Forgot ==
    /\ entry'.launch = entry.launch /\ entry'.phase \in Terminal
    /\ entry.ref # "none" /\ entry'.ref = "none" /\ Leftovers = {} /\ ~Busy
Written ==
    /\ helpers' = helpers /\ container' = container /\ (Busy' <=> Busy)
    /\ Ended \/ Reported \/ Forgot \/ \E m \in Managers : Bound(m)

(* What is known stays known when nothing is written,                      *)
LEMMA KeptMild == ASSUME Kept PROVE Mild
BY DEF Kept, Mild

(* when a launch ends,                                                     *)
LEMMA EndedMild == ASSUME Ended PROVE Mild
BY DEF Ended, Mild

(* when a reference is saved,                                              *)
LEMMA BoundMild == ASSUME NEW m, Bound(m) PROVE Mild
BY DEF Bound, Mild

(* and when one is cleared.                                                *)
LEMMA ForgotMild == ASSUME Forgot PROVE Mild
BY DEF Forgot, Mild, Terminal, Active

(* While a container is there, nobody prepares one.                        *)
LEMMA ThereNotBusy ==
    ASSUME LaunchInv, container.launch # 0 PROVE ~Busy /\ helpers = {} /\ entry.ref # "none"
<1>1. \A m \in Managers : manager[m].at \notin Preparing
  BY DEF LaunchInv, ManagersInv, OwnLaunch
<1>2. helpers = {} /\ entry.ref # "none"
  BY DEF LaunchInv, ResourcesInv, ResourcesAreReferenced, Leftovers
<1> QED BY <1>1, <1>2 DEF Busy

(* It reports for a launch that is referred to.                            *)
LEMMA ReportedMild == ASSUME LaunchInv, Reported PROVE Mild
<1>1. ~Busy /\ entry.ref # "none"
  BY ThereNotBusy DEF Reported
<1>2. entry'.phase # "none"
  BY DEF Reported, Reporting
<1> QED BY <1>1, <1>2 DEF Reported, Mild

(* While a manager is inside the operation, at another place, nobody       *)
(* prepares.                                                               *)
LEMMA InsideNotBusy ==
    ASSUME Inv, NEW m \in Managers, Within(manager[m]), manager[m].at \notin Preparing
    PROVE  ~Busy
<1>1. \A n \in Managers \ {m} : manager[n].at \notin Preparing
  BY OthersOutside
<1> QED BY <1>1 DEF Busy

(* Who is busy after a manager has moved.                                  *)
LEMMA MovedBusy ==
    ASSUME NEW m \in Managers, Moves(m, manager'), NEW y, y = manager'[m],
           y.at \in Preparing => manager[m].at \in Preparing
    PROVE  (Busy' => Busy) /\ ((manager[m].at \in Preparing => y.at \in Preparing) => (Busy' <=> Busy))
<1>1. \A n \in Managers \ {m} : manager'[n] = manager[n]
  BY DEF Moves
<1>2. ASSUME Busy' PROVE Busy
  <2>1. PICK n \in Managers : manager'[n].at \in Preparing
    BY <1>2 DEF Busy
  <2>2. manager[n].at \in Preparing
    BY <1>1, <2>1
  <2> QED BY <2>2 DEF Busy
<1>3. ASSUME Busy, manager[m].at \in Preparing => y.at \in Preparing PROVE Busy'
  <2>1. PICK n \in Managers : manager[n].at \in Preparing
    BY <1>3 DEF Busy
  <2>2. manager'[n].at \in Preparing
    BY <1>1, <1>3, <2>1
  <2> QED BY <2>2 DEF Busy
<1> QED BY <1>2, <1>3

(* A manager moves, and at most a container ends.                          *)
LEMMA QuietKeeps ==
    ASSUME Inv, LaunchInv, SaidInv, NEW m \in Managers, Moves(m, manager'),
           NEW y, y = manager'[m], Kept, helpers' = helpers,
           container' = container \/ (container.launch # 0 /\ Ends(container')),
           Passes(manager[m], y) \/ (y.at \notin Preparing /\ Says(y)')
    PROVE  Quiet /\ SaidInv'
<1>1. PICK x : x = manager[m]
  OBVIOUS
<1>2. Says(x) /\ (x.at \in Preparing => Busy)
  BY <1>1 DEF SaidInv, Busy
<1>3. Says(y)'
  BY <1>1, <1>2, KeptMild, PassSays
<1>4. y.at \in Preparing => manager[m].at \in Preparing
  BY DEF Passes
<1> QED BY <1>3, <1>4, KeptMild, PassKeeps, MovedBusy DEF Quiet

(* Where nothing else changes.                                             *)
LEMMA OnlyQuiet ==
    ASSUME Inv, LaunchInv, SaidInv, NEW m \in Managers, NEW f, Only(m, f), Moves(m, f),
           Passes(manager[m], f[m])
    PROVE  Quiet /\ SaidInv'
<1>1. manager' = f /\ entry' = entry /\ container' = container /\ helpers' = helpers
  BY DEF Only
<1>2. PICK y : y = f[m]
  OBVIOUS
<1> QED BY <1>1, <1>2, QuietKeeps DEF Kept

(* The moves of a manager that need no more than it knows: on to p,        *)
LEMMA ThenPasses ==
    ASSUME Inv, NEW m \in Managers, NEW p \in Places, p # "retire",
           p \in Preparing => manager[m].at \in Preparing,
           p \in Spoken => manager[m].at \in Spoken
    PROVE  Moves(m, Then(m, p)) /\ Passes(manager[m], Then(m, p)[m])
<1>1. Moves(m, Then(m, p)) /\ Then(m, p)[m].at = p /\ Then(m, p)[m].goal = manager[m].goal
  BY ThenMoves DEF Inv, Typed
<1> QED BY <1>1 DEF Passes

(* on to p with what it saw,                                               *)
LEMMA SawPasses ==
    ASSUME Inv, NEW m \in Managers, NEW p \in Places \ (Preparing \cup {"retire"}),
           NEW s \in {"none", "up", "down"}, manager[m].at \in Spoken
    PROVE  Moves(m, Saw(m, p, s)) /\ Passes(manager[m], Saw(m, p, s)[m])
<1>1. Moves(m, Saw(m, p, s)) /\ Saw(m, p, s)[m].at = p /\ Saw(m, p, s)[m].goal = manager[m].goal
  BY SawMoves DEF Inv, Typed
<1> QED BY <1>1 DEF Passes

(* out of the operation,                                                   *)
LEMMA RaisedPasses ==
    ASSUME Inv, NEW m \in Managers
    PROVE  Moves(m, Raised(m)) /\ Passes(manager[m], Raised(m)[m])
BY RaisedMoves, FarPasses DEF Inv, Typed

(* and where its goal leads, once nothing is left.                         *)
LEMMA GonePasses ==
    ASSUME Inv, NEW m \in Managers
    PROVE  /\ Moves(m, Gone(m))
           /\ Gone(m)[m].at \in {"idle", "begin", "end"}
           /\ Gone(m)[m].at = "begin" => manager[m].goal = "start" /\ Gone(m)[m].goal = "start"
           /\ manager[m].at \in Spoken => Passes(manager[m], Gone(m)[m])
<1>1. /\ Moves(m, Gone(m)) /\ Gone(m)[m].at \in {"idle", "begin", "end"}
      /\ Gone(m)[m].at = "begin" => manager[m].goal = "start" /\ Gone(m)[m].goal = "start"
  BY GoneMoves DEF Inv, Typed
<1>2. ASSUME manager[m].at \in Spoken, Gone(m)[m].at = "begin"
      PROVE  Passes(manager[m], Gone(m)[m])
  BY <1>1, <1>2 DEF Passes, Preparing
<1> QED BY <1>1, <1>2, FarPasses

(* Where the entry is written, and tells the same.                         *)
LEMMA WritesQuiet ==
    ASSUME Inv, LaunchInv, SaidInv, NEW m \in Managers, NEW f, manager' = f, Moves(m, f),
           Passes(manager[m], f[m]), NEW e, Writes(m, e),
           e.launch = entry.launch, e.ref = entry.ref, e.phase = entry.phase
    PROVE  Quiet /\ SaidInv'
<1>1. entry' = e /\ container' = container /\ helpers' = helpers
  BY DEF Writes
<1>2. PICK y : y = f[m]
  OBVIOUS
<1>3. Kept
  BY <1>1 DEF Kept
<1> QED BY <1>1, <1>2, <1>3, QuietKeeps

(* A container becomes another only by ending.                             *)
LEMMA BecomesEnds ==
    ASSUME Inv, LaunchInv, NEW l, Becomes(l, NoContainer) \/ (Up /\ Stopped(l))
    PROVE  container' = container \/ (container.launch # 0 /\ Ends(container'))
<1>1. container \in Containers
  BY DEF Inv, Typed
<1>2. container.launch = 0 => container = NoContainer
  BY <1>1 DEF LaunchInv, ResourcesInv, NoContainer, Containers
<1>3. CASE Becomes(l, NoContainer)
  BY <1>2, <1>3 DEF Becomes, Ends
<1>4. CASE Up /\ Stopped(l)
  <2>1. PICK c \in {[launch |-> l, state |-> "down"], NoContainer} : Becomes(l, c)
    BY <1>4 DEF Stopped
  <2>2. container' = container \/ (container.launch = l /\ container' = c)
    BY <2>1 DEF Becomes
  <2>3. container.launch # 0
    BY <1>4 DEF Up, LaunchInv, ResourcesInv
  <2> QED BY <2>1, <2>2, <2>3 DEF Ends
<1> QED BY <1>3, <1>4

(* Where a container ends, and its manager goes on.                        *)
LEMMA EndsQuiet ==
    ASSUME Inv, LaunchInv, SaidInv, NEW m \in Managers, NEW f, manager' = f, Moves(m, f),
           Passes(manager[m], f[m]), entry' = entry, helpers' = helpers,
           container' = container \/ \E l : Becomes(l, NoContainer) \/ (Up /\ Stopped(l))
    PROVE  Quiet /\ SaidInv'
<1>1. container' = container \/ (container.launch # 0 /\ Ends(container'))
  BY BecomesEnds
<1>2. PICK y : y = f[m]
  OBVIOUS
<1>3. Kept
  BY DEF Kept
<1> QED BY <1>1, <1>2, <1>3, QuietKeeps

(* Taking the operation, and ending it.                                    *)
LEMMA OperationQuiet ==
    ASSUME Inv, LaunchInv, SaidInv, NEW m \in Managers, Claim(m) \/ EndOperation(m)
    PROVE  Quiet /\ SaidInv'
<1>1. CASE Claim(m)
  <2>1. Moves(m, Then(m, "load")) /\ Passes(manager[m], Then(m, "load")[m])
    BY NotSpoken, ThenPasses DEF Places, InOperation, Releasing, Preparing
  <2>2. PICK e : e = [entry EXCEPT !.op = m]
    OBVIOUS
  <2>3. e.launch = entry.launch /\ e.ref = entry.ref /\ e.phase = entry.phase
    BY <2>2 DEF Inv, Typed, Entries
  <2> QED BY <1>1, <2>1, <2>2, <2>3, WritesQuiet DEF Claim
<1>2. CASE EndOperation(m)
  <2>1. Moves(m, Then(m, "follow")) /\ Passes(manager[m], Then(m, "follow")[m])
    BY NotSpoken, ThenPasses DEF Places, Preparing
  <2>2. Moves(m, Idle(m)) /\ Passes(manager[m], Idle(m)[m])
    BY IdleMoves, FarPasses DEF Inv, Typed
  <2>3. PICK e : e = IF entry.op = m THEN [entry EXCEPT !.op = "none"] ELSE entry
    OBVIOUS
  <2>4. e.launch = entry.launch /\ e.ref = entry.ref /\ e.phase = entry.phase
    BY <2>3 DEF Inv, Typed, Entries
  <2>5. manager' \in {Then(m, "follow"), Idle(m)}
    BY <1>2 DEF EndOperation
  <2>6. PICK f \in {Then(m, "follow"), Idle(m)} : manager' = f
    BY <2>5
  <2> QED BY <1>2, <2>1, <2>2, <2>3, <2>4, <2>6, WritesQuiet DEF EndOperation
<1> QED BY <1>1, <1>2

(* What an earlier launch left is loaded, looked up, stopped and released. *)
LEMMA LoadQuiet ==
    ASSUME Inv, LaunchInv, SaidInv, NEW m \in Managers, Load(m) PROVE Quiet /\ SaidInv'
<1>1. Steps(m)
  <2>1. ~Claim(m) /\ ~EndOperation(m)
    BY DEF Load, On, Claim, EndOperation
  <2> QED BY <2>1, ManagerSteps DEF Manages
<1>2. PICK y : y = manager'[m]
  OBVIOUS
<1>3. Moves(m, manager') /\ manager[m] \in ManagerStates /\ manager \in [Managers -> ManagerStates]
  BY <1>1 DEF Steps, Turns, Inv, Typed
<1>4. entry' = entry /\ container' = container /\ helpers' = helpers
  BY DEF Load, Only
<1>5. \/ y.at \in {"probe", "halt"} /\ entry.ref # "none"
      \/ y.at = "retire" /\ y.launch = entry.launch
      \/ y.at \in {"idle", "end"}
      \/ y.at = "begin" /\ entry.ref = "none" /\ entry.phase # "preparing"
  <2>1. CASE entry.ref # "none"
    BY <1>2, <1>3, <2>1 DEF Load, Only, ManagerStates
  <2>2. CASE manager' = Raised(m)
    BY <1>2, <1>3, <2>2, RaisedMoves
  <2>3. CASE manager' = [Then(m, "retire") EXCEPT ![m].launch = entry.launch]
    <3>1. PICK g : g = Then(m, "retire")
      OBVIOUS
    <3>2. g \in [Managers -> ManagerStates] /\ g[m].at = "retire"
      BY <1>3, <3>1, ThenMoves DEF Moves, Places, InOperation, Updates
    <3> QED BY <1>2, <2>3, <3>1, <3>2 DEF ManagerStates
  <2>4. CASE entry.ref = "none" /\ entry.phase # "preparing" /\ manager' = Gone(m)
    BY <1>2, <2>4, GonePasses
  <2> QED BY <2>1, <2>2, <2>3, <2>4 DEF Load, Only
<1>6. Says(y)' /\ y.at \notin Preparing
  <2>1. entry.ref = "none" => entry.phase \notin Reporting
    BY DEF LaunchInv, EntryInv
  <2>2. y.at \notin Preparing
    BY <1>5 DEF Preparing
  <2> QED BY <1>4, <1>5, <2>1, <2>2, NotSpoken DEF Says, Mine, Active, Reporting
<1> QED BY <1>2, <1>3, <1>4, <1>6, QuietKeeps DEF Kept

(* Looking it up.                                                          *)
LEMMA InspectQuiet ==
    ASSUME Inv, LaunchInv, SaidInv, NEW m \in Managers, Probe(m) \/ Halt(m) \/ Release(m)
    PROVE  Quiet /\ SaidInv'
<1>1. PICK q \in {"probed", "halted", "released"} :
          Only(m, Raised(m)) \/ Only(m, Saw(m, q, Found(Handle(m))))
  BY DEF Probe, Halt, Release, Inspect
<1>2. manager[m].at \in Spoken
  BY DEF Probe, Halt, Release, Inspect, On, Spoken, Releasing
<1>3. Found(Handle(m)) \in {"none", "up", "down"}
  BY DEF Inv, Typed, Containers, Found
<1>4. q \in Places \ (Preparing \cup {"retire"})
  BY DEF Places, InOperation, Releasing, Preparing
<1> QED BY <1>1, <1>2, <1>3, <1>4, SawPasses, RaisedPasses, OnlyQuiet

(* Stopping and releasing it.                                              *)
LEMMA ReleasingQuiet ==
    ASSUME Inv, LaunchInv, SaidInv, NEW m \in Managers,
           Probed(m) \/ Halted(m) \/ Released(m) \/ Unstage(m) \/ UnstageFails(m)
    PROVE  Quiet /\ SaidInv'
<1>1. manager[m].at \in Spoken
  BY DEF Probed, Halted, Released, Unstage, UnstageFails, On, Spoken, Releasing
<1>2. \A p \in {"release", "unstage", "clear"} :
          Moves(m, Then(m, p)) /\ Passes(manager[m], Then(m, p)[m])
  BY <1>1, ThenPasses DEF Places, InOperation, Releasing, Updates, Preparing
<1>3. ASSUME Probed(m) PROVE Quiet /\ SaidInv'
  BY <1>2, <1>3, RaisedPasses, OnlyQuiet DEF Probed
<1>4. ASSUME Halted(m) PROVE Quiet /\ SaidInv'
  <2>1. CASE Only(m, Raised(m)) \/ Only(m, Then(m, "release"))
    BY <1>2, <2>1, RaisedPasses, OnlyQuiet
  <2>2. CASE Up /\ Stopped(manager[m].launch) /\ manager' = Then(m, "release")
             /\ UNCHANGED <<entry, helpers>>
    <3>1. PICK f : f = Then(m, "release")
      OBVIOUS
    <3>2. entry' = entry /\ helpers' = helpers /\ manager' = f
      BY <2>2, <3>1
    <3>3. Moves(m, f) /\ Passes(manager[m], f[m])
      BY <1>2, <3>1
    <3> QED BY <2>2, <3>2, <3>3, EndsQuiet
  <2> QED BY <1>4, <2>1, <2>2 DEF Halted
<1>5. ASSUME Released(m) PROVE Quiet /\ SaidInv'
  <2>1. CASE Only(m, Raised(m)) \/ Only(m, Then(m, "unstage"))
    BY <1>2, <2>1, RaisedPasses, OnlyQuiet
  <2>2. CASE Becomes(manager[m].launch, NoContainer) /\ manager' = Then(m, "unstage")
             /\ UNCHANGED <<entry, helpers>>
    <3>1. PICK f : f = Then(m, "unstage")
      OBVIOUS
    <3>2. entry' = entry /\ helpers' = helpers /\ manager' = f
      BY <2>2, <3>1
    <3>3. Moves(m, f) /\ Passes(manager[m], f[m])
      BY <1>2, <3>1
    <3> QED BY <2>2, <3>2, <3>3, EndsQuiet
  <2> QED BY <1>5, <2>1, <2>2 DEF Released
<1>6. ASSUME Unstage(m) PROVE Quiet /\ SaidInv'
  <2>1. PICK f : f = Then(m, "clear")
    OBVIOUS
  <2>2. manager' = f /\ entry' = entry /\ helpers' = helpers /\ container' = container
    BY <1>6, <2>1 DEF Unstage
  <2>3. Moves(m, f) /\ Passes(manager[m], f[m])
    BY <1>2, <2>1
  <2> QED BY <2>2, <2>3, EndsQuiet
<1>7. ASSUME UnstageFails(m) PROVE Quiet /\ SaidInv'
  <2>1. PICK f : f = Raised(m)
    OBVIOUS
  <2>2. manager' = f /\ entry' = entry /\ helpers' = helpers /\ container' = container
    BY <1>7, <2>1 DEF UnstageFails
  <2>3. Moves(m, f) /\ Passes(manager[m], f[m])
    BY <2>1, RaisedPasses
  <2> QED BY <2>2, <2>3, EndsQuiet
<1> QED BY <1>3, <1>4, <1>5, <1>6, <1>7

(* What a manager writes of its launch, while what there is of it stays.   *)
LEMMA WrittenKeeps ==
    ASSUME Inv, LaunchInv, SaidInv, NEW m \in Managers, Moves(m, manager'),
           NEW y, y = manager'[m], helpers' = helpers, container' = container,
           Ended \/ Forgot \/ Bound(m), manager[m].at \in Preparing <=> y.at \in Preparing,
           Passes(manager[m], y) \/ Says(y)'
    PROVE  Written /\ SaidInv'
<1>1. Mild
  BY EndedMild, BoundMild, ForgotMild
<1>2. PICK x : x = manager[m]
  OBVIOUS
<1>3. Says(x) /\ (x.at \in Preparing => Busy)
  BY <1>2 DEF SaidInv, Busy
<1>4. Says(y)'
  BY <1>1, <1>2, <1>3, PassSays
<1>5. Busy' <=> Busy
  BY MovedBusy
<1> QED BY <1>1, <1>4, <1>5, PassKeeps DEF Written

(* What the entry is after a launch was reported over.                     *)
LEMMA PatchedIs ==
    ASSUME Inv, NEW l, NEW p \in Terminal
    PROVE  LET e == Patched(entry, l, p)
           IN  /\ e.launch = entry.launch /\ e.ref = entry.ref
               /\ e.phase = entry.phase \/ e.phase = p
               /\ entry.launch = l => e.phase = p
BY DEF Patched, Patches, Terminal, Active, Inv, Typed, Entries

(* An intent that created nothing is over.                                 *)
LEMMA RetireWritten ==
    ASSUME Inv, LaunchInv, SaidInv, NEW m \in Managers, Retire(m) PROVE Written /\ SaidInv'
<1>1. manager[m].at = "retire" /\ Within(manager[m]) /\ manager[m].launch = entry.launch
  BY ManagerFacts DEF Retire, On, Within, InOperation, Updates, Releasing, SaidInv, Says, Mine
<1>2. PICK y : y = manager'[m]
  OBVIOUS
<1>3. Moves(m, manager') /\ y.at \in {"idle", "begin", "end"}
  BY <1>2, GonePasses DEF Retire
<1>4. /\ entry' = Patched(entry, manager[m].launch, "stopped")
      /\ container' = container /\ helpers' = helpers
  BY DEF Retire, Writes
<1>5. entry'.launch = entry.launch /\ entry'.ref = entry.ref /\ entry'.phase = "stopped"
  BY <1>1, <1>4, PatchedIs DEF Terminal
<1>6. Ended
  BY <1>1, <1>5, InsideNotBusy DEF Ended, Active, Preparing
<1>7. Says(y)' /\ ~(manager[m].at \in Preparing) /\ ~(y.at \in Preparing)
  BY <1>1, <1>3, <1>5 DEF Says, Preparing, Active
<1> QED BY <1>2, <1>3, <1>4, <1>6, <1>7, WrittenKeeps

(* A launch that failed is reported.                                       *)
LEMMA FailTells ==
    ASSUME Inv, LaunchInv, SaidInv, NEW m \in Managers, Fail(m) \/ Abort(m)
    PROVE  (Quiet \/ Written) /\ SaidInv'
<1>1. manager[m].at \in {"fail", "abort"} /\ Within(manager[m]) /\ manager[m].at \notin Preparing
  BY ManagerFacts DEF Fail, Abort, On, Within, InOperation, Updates, Releasing, Preparing
<1>2. PICK f : f \in {Raised(m), Then(m, "load")} /\ manager' = f
               /\ (Only(m, f) \/ Writes(m, Patched(entry, manager[m].launch, "failed")))
  <2>1. CASE Fail(m)
    <3>1. PICK f \in {Raised(m), Then(m, "load")} :
              \/ Writes(m, Patched(entry, manager[m].launch, "failed")) /\ manager' = f
              \/ Only(m, f)
      BY <2>1 DEF Fail
    <3> QED BY <3>1 DEF Only
  <2>2. CASE Abort(m)
    BY <2>2 DEF Abort
  <2> QED BY <2>1, <2>2
<1>3. Moves(m, f) /\ Passes(manager[m], f[m]) /\ f[m].at \notin Preparing
  <2>1. Moves(m, Then(m, "load")) /\ Passes(manager[m], Then(m, "load")[m])
    BY NotSpoken, ThenPasses DEF Places, InOperation, Releasing, Preparing
  <2>2. Moves(m, f) /\ Passes(manager[m], f[m])
    BY <1>2, <2>1, RaisedPasses
  <2> QED BY <1>1, <2>2 DEF Passes
<1>4. CASE Only(m, f)
  BY <1>3, <1>4, OnlyQuiet
<1>5. CASE Writes(m, Patched(entry, manager[m].launch, "failed"))
  <2>1. PICK e : e = Patched(entry, manager[m].launch, "failed")
    OBVIOUS
  <2>2. e.launch = entry.launch /\ e.ref = entry.ref /\ (e.phase = entry.phase \/ e.phase = "failed")
    BY <2>1, PatchedIs DEF Terminal
  <2>3. CASE e.phase = entry.phase
    BY <1>2, <1>3, <1>5, <2>1, <2>2, <2>3, WritesQuiet
  <2>4. CASE e.phase = "failed"
    <3>1. entry' = e /\ container' = container /\ helpers' = helpers
      BY <1>5, <2>1 DEF Writes
    <3>2. Ended
      BY <1>1, <2>2, <2>4, <3>1, InsideNotBusy DEF Ended, Active
    <3>3. PICK y : y = f[m]
      OBVIOUS
    <3> QED BY <1>1, <1>2, <1>3, <3>1, <3>2, <3>3, WrittenKeeps
  <2> QED BY <2>2, <2>3, <2>4
<1> QED BY <1>2, <1>4, <1>5

(* A reference is cleared: nothing of its launch is left, and nobody       *)
(* prepares another.                                                       *)
LEMMA ClearedTells ==
    ASSUME Inv, LaunchInv, SaidInv, NEW m \in Managers, Writes(m, Cleared(entry, Handle(m))),
           NEW f, manager' = f, Moves(m, f), Passes(manager[m], f[m]),
           manager[m].at \notin Preparing, manager[m].at \in InOperation,
           Mine(manager[m]) => Leftovers = {}
    PROVE  (Quiet \/ Written) /\ SaidInv'
<1>1. CASE ~(Mine(manager[m]) /\ entry.ref = manager[m].ref)
  <2>1. Writes(m, entry)
    BY <1>1, NotCleared
  <2>2. PICK e : e = entry
    OBVIOUS
  <2> QED BY <2>1, <2>2, WritesQuiet
<1>2. CASE Mine(manager[m]) /\ entry.ref = manager[m].ref
  <2>1. entry' = Over(WithRef(entry, "none")) /\ container' = container /\ helpers' = helpers
    BY <1>2 DEF Writes, Cleared, Handle, Mine
  <2>2. /\ entry'.launch = entry.launch /\ entry'.ref = "none"
        /\ entry'.phase = IF entry.phase \in Active THEN "stopped" ELSE entry.phase
    BY <2>1 DEF Over, WithRef, Inv, Typed, Entries
  <2>3. ~Busy
    <3>1. CASE manager[m].goal = "follow"
      <4>1. \A n \in Managers \ {m} : manager[n].at \notin Preparing
        BY <1>2, <3>1, FollowersAreOld DEF Mine
      <4> QED BY <4>1 DEF Busy
    <3>2. CASE manager[m].goal # "follow"
      BY <3>2, InsideNotBusy DEF Within
    <3> QED BY <3>1, <3>2
  <2>4. Ended \/ Forgot
    <3>1. CASE entry.ref = "none"
      <4>1. entry'.phase \notin Active /\ (entry'.phase = "none" => entry.phase = "none")
        BY <2>2 DEF Active
      <4> QED BY <2>2, <2>3, <3>1, <4>1 DEF Ended
    <3>2. CASE entry.ref # "none"
      <4>1. entry.phase # "none"
        BY <3>2 DEF LaunchInv, EntryInv, SaidInv
      <4>2. entry'.phase \in Terminal
        BY <2>2, <4>1 DEF Inv, Typed, Entries, Phases, Terminal
      <4> QED BY <1>2, <2>2, <2>3, <3>2, <4>2 DEF Forgot
    <3> QED BY <3>1, <3>2
  <2>5. PICK y : y = f[m]
    OBVIOUS
  <2>6. y.at \notin Preparing
    BY <2>5 DEF Passes
  <2> QED BY <2>1, <2>4, <2>5, <2>6, WrittenKeeps
<1> QED BY <1>1, <1>2

(* By who released it.                                                     *)
LEMMA ClearTells ==
    ASSUME Inv, LaunchInv, SaidInv, NEW m \in Managers, Clear(m) \/ Dropped(m)
    PROVE  (Quiet \/ Written) /\ SaidInv'
<1>1. ManagersInv /\ Fits(manager[m])
  BY ManagerFacts DEF LaunchInv
<1>2. CASE Clear(m)
  <2>1. manager[m].at = "clear"
    BY <1>2 DEF Clear, On
  <2>2. Moves(m, Gone(m)) /\ Passes(manager[m], Gone(m)[m])
    BY <2>1, GonePasses DEF Spoken
  <2>3. Mine(manager[m]) => Leftovers = {}
    BY <1>1, <2>1 DEF Fits, Releases
  <2>4. PICK f : f = Gone(m)
    OBVIOUS
  <2>5. manager[m].at \notin Preparing /\ manager[m].at \in InOperation
    BY <2>1 DEF Preparing, InOperation, Updates
  <2>6. Writes(m, Cleared(entry, Handle(m))) /\ manager' = f
    BY <1>2, <2>4 DEF Clear
  <2> QED BY <2>2, <2>3, <2>4, <2>5, <2>6, ClearedTells
<1>3. CASE Dropped(m)
  <2>1. manager[m].at = "dropped"
    BY <1>3 DEF Dropped, On
  <2>2. Moves(m, Then(m, "fail")) /\ Passes(manager[m], Then(m, "fail")[m])
    BY NotSpoken, ThenPasses DEF Places, InOperation, Updates, Preparing
  <2>3. Leftovers = {}
    BY <1>1, <2>1 DEF Fits, OwnLaunch
  <2>4. PICK f : f = Then(m, "fail")
    OBVIOUS
  <2>5. manager[m].at \notin Preparing /\ manager[m].at \in InOperation
    BY <2>1 DEF Preparing, InOperation, Updates
  <2>6. Writes(m, Cleared(entry, Handle(m))) /\ manager' = f
    BY <1>3, <2>4 DEF Dropped
  <2> QED BY <2>2, <2>3, <2>4, <2>5, <2>6, ClearedTells
<1> QED BY <1>2, <1>3

----------------------------------------------------------------------------
(* A new launch begins, and its container is asked for and comes.          *)
Opened ==
    /\ entry'.launch = entry.launch + 1 /\ entry.ref = "none" /\ entry'.ref = "none"
    /\ entry.phase \notin Active /\ entry'.phase = "preparing"
    /\ helpers = {} /\ helpers' = {} /\ container = NoContainer /\ container' = NoContainer
    /\ ~Busy /\ Busy'
Asked ==
    /\ Kept /\ helpers = {} /\ helpers' # {} /\ container = NoContainer /\ Busy
    /\ entry.phase = "preparing" /\ entry.ref # "none"
Came ==
    /\ Kept /\ helpers # {} /\ helpers' = {} /\ ~Busy'

(* A container that is of no launch is none.                               *)
LEMMA NoneIsNone ==
    ASSUME Inv, LaunchInv, container.launch = 0 PROVE container = NoContainer
<1>1. container \in Containers
  BY DEF Inv, Typed
<1> QED BY <1>1 DEF LaunchInv, ResourcesInv, NoContainer, Containers

(* What others know while a launch begins.                                 *)
LEMMA OthersSay ==
    ASSUME Inv, NEW m \in Managers, Within(manager[m]), NEW n \in Managers, n # m,
           NEW x, x = manager[n]
    PROVE  x.at \notin Preparing \cup {"retire"} /\ (x.goal # "follow" => x.at \notin Spoken)
<1>1. x.at \notin Preparing /\ (x.goal # "follow" => x.at \notin InOperation)
  BY OthersOutside
<1>2. Spoken \cup {"retire"} \subseteq InOperation
  BY DEF Spoken, Afoot, Ran, InOperation, Updates, Releasing, Launching
<1>3. x.goal = "follow" => x.at # "retire"
  BY DEF Inv, Owned, Proper, Loosely
<1> QED BY <1>1, <1>2, <1>3

(* A launch begins: nothing is left of the one before, and it is over.     *)
LEMMA BeginTells ==
    ASSUME Inv, LaunchInv, SaidInv, NEW m \in Managers, Begin(m)
    PROVE  (Quiet \/ Opened) /\ SaidInv'
<1>1. /\ Steps(m) /\ manager[m].at = "begin" /\ Within(manager[m]) /\ manager[m].goal # "follow"
  BY ManagerSteps, ManagerFacts
     DEF Manages, Begin, On, Claim, EndOperation, Within, InOperation, Updates, Releasing, Proper, Loosely
<1>2. CASE Only(m, Raised(m))
  BY <1>2, RaisedPasses, OnlyQuiet
<1>3. CASE /\ entry.launch < MaxLaunches
           /\ Writes(m, Begun(entry, entry.launch + 1))
           /\ manager' = [Then(m, "intent") EXCEPT ![m].launch = entry.launch + 1, ![m].ref = "none"]
  <2>1. PICK g : g = Then(m, "intent")
    OBVIOUS
  <2>2. Reaches(m, "intent", g[m]) /\ g \in [Managers -> ManagerStates]
    BY <2>1, ManagerFacts, ThenIs, ThenMoves
       DEF Reaches, Typed, Moves, Places, InOperation, Updates
  <2>3. PICK y : y = manager'[m]
    OBVIOUS
  <2>4. y.at = "intent"
    BY <1>3, <2>1, <2>2, <2>3 DEF Reaches, ManagerStates
  <2>5. entry.ref = "none"
    BY <1>1, ManagerFacts DEF Fits, Releases
  <2>6. Leftovers = {}
    BY <2>5 DEF LaunchInv, ResourcesInv, ResourcesAreReferenced
  <2>7. helpers = {} /\ container = NoContainer
    BY <2>6, NoneIsNone DEF Leftovers
  <2>8. /\ entry'.launch = entry.launch + 1 /\ entry'.ref = "none" /\ entry'.phase = "preparing"
        /\ container' = container /\ helpers' = helpers
    BY <1>3, <2>5, ManagerFacts DEF Writes, Begun, Typed, Entries
  <2>9. entry.phase \notin Active
    BY <1>1, <2>5 DEF SaidInv, Says, Spoken
  <2>10. ~Busy /\ Busy'
    BY <1>1, <2>3, <2>4, InsideNotBusy DEF Busy, Preparing
  <2>11. ASSUME NEW n \in Managers PROVE Says(manager[n])'
    <3>1. CASE n = m
      BY <2>3, <2>4, <2>8, <3>1, NotSpoken DEF Says
    <3>2. CASE n # m
      <4>1. PICK x : x = manager[n]
        OBVIOUS
      <4>2. x.at \notin Preparing \cup {"retire"} /\ (x.goal # "follow" => x.at \notin Spoken)
        BY <1>1, <3>2, <4>1, OthersSay
      <4>3. manager'[n] = x
        BY <1>1, <3>2, <4>1 DEF Steps, Turns, Moves
      <4> QED BY <4>2, <4>3 DEF Says
    <3> QED BY <3>1, <3>2
  <2> QED BY <2>5, <2>7, <2>8, <2>9, <2>10, <2>11 DEF Opened, SaidInv
<1> QED BY <1>2, <1>3 DEF Begin

(* The launching manager saves its reference.                              *)
LEMMA SavesTells ==
    ASSUME Inv, LaunchInv, SaidInv, NEW m \in Managers, NEW p, NEW ref, NEW next, NEW raised,
           Saves(m, p, ref, next, raised),
           <<p, ref, next, raised>> \in
              {<<"intent", "intent", "stage", "abort">>, <<"prepared", "prepared", "run", "abort">>,
               <<"rebind", "prepared", "quit", "quit">>, <<"bind", "bound", "ready", "quit">>}
    PROVE  (Quiet \/ Written) /\ SaidInv'
<1>1. manager[m].at = p /\ manager[m].goal # "follow" /\ manager[m] \in ManagerStates
  BY ManagerFacts DEF Saves, On, Proper, Loosely
<1>2. CASE Only(m, Then(m, raised))
  <2>1. Moves(m, Then(m, raised)) /\ Passes(manager[m], Then(m, raised)[m])
    BY <1>1, NotSpoken, ThenPasses
       DEF Places, InOperation, Updates, Launching, Preparing, Spoken, Ran
  <2> QED BY <1>2, <2>1, OnlyQuiet
<1>3. CASE Binds(entry, manager[m].launch) /\ Writes(m, WithRef(entry, ref)) /\ manager' = Then(m, next)
  <2>1. PICK y : y = manager'[m]
    OBVIOUS
  <2>2. Moves(m, manager') /\ y.at = next /\ y.goal = manager[m].goal
    BY <1>3, <2>1, ManagerFacts, ThenMoves DEF Typed, Places, InOperation, Launching
  <2>3. /\ entry'.launch = entry.launch /\ entry'.ref = ref /\ entry'.phase = entry.phase
        /\ container' = container /\ helpers' = helpers
    BY <1>3, ManagerFacts DEF Writes, WithRef, Typed, Entries
  <2>4. Bound(m)
    BY <1>1, <1>3, <2>3 DEF Bound, Binds, Mine
  <2>5. manager[m].at \in Preparing <=> y.at \in Preparing
    BY <1>1, <2>2 DEF Preparing
  <2>6. Says(manager[m])
    BY DEF SaidInv
  <2>7. Says(y)'
    BY <2>2, <2>3, <2>5, <2>6 DEF Says
  <2> QED BY <2>1, <2>2, <2>3, <2>4, <2>5, <2>7, WrittenKeeps
<1> QED BY <1>2, <1>3 DEF Saves

(* The intent, the prepared and the bound reference are saved.             *)
LEMMA SavingTells ==
    ASSUME Inv, LaunchInv, SaidInv, NEW m \in Managers,
           Intent(m) \/ Prepared(m) \/ Rebind(m) \/ Bind(m)
    PROVE  (Quiet \/ Written) /\ SaidInv'
BY SavesTells DEF Intent, Prepared, Rebind, Bind

(* "docker run" begins after the prepared reference is saved.              *)
LEMMA RunTells ==
    ASSUME Inv, LaunchInv, SaidInv, NEW m \in Managers, Run(m) PROVE Asked /\ SaidInv'
<1>1. manager[m].at = "run" /\ helpers' = helpers \cup {manager[m].launch} /\ entry' = entry
      /\ manager' = Then(m, "await")
  BY DEF Run, On
<1>2. helpers = {} /\ container.launch = 0 /\ entry.ref # "none"
  BY <1>1, ManagerFacts DEF Fits, OwnLaunch, Afoot, Preparing
<1>3. Busy /\ entry.phase = "preparing"
  BY <1>1 DEF Busy, Preparing, SaidInv, Says
<1>4. Asked
  BY <1>1, <1>2, <1>3, NoneIsNone DEF Asked, Kept
<1>5. Moves(m, manager') /\ Passes(manager[m], manager'[m])
  BY <1>1, ThenPasses DEF Places, InOperation, Launching, Preparing, Spoken, Afoot
<1>6. PICK y : y = manager'[m]
  OBVIOUS
<1>7. PICK x : x = manager[m]
  OBVIOUS
<1>8. Says(x) /\ Passes(x, y) /\ Mild /\ (x.at \in Preparing => Busy)
  BY <1>3, <1>4, <1>5, <1>6, <1>7, KeptMild DEF SaidInv, Asked
<1>9. Says(y)'
  BY <1>8, PassSays
<1> QED BY <1>4, <1>5, <1>6, <1>8, <1>9, PassKeeps

(* The other steps of a launch.                                            *)
LEMMA LaunchingQuiet ==
    ASSUME Inv, LaunchInv, SaidInv, NEW m \in Managers,
           \/ Stage(m) \/ StageFails(m) \/ PrepareFails(m)
           \/ Undo(m) \/ UndoFails(m) \/ Ready(m) \/ NotReady(m)
    PROVE  Quiet /\ SaidInv'
<1>1. CASE Stage(m)
  <2>1. PICK f : f = Then(m, "prepared")
    OBVIOUS
  <2>2. manager' = f /\ entry' = entry /\ helpers' = helpers /\ container' = container
    BY <1>1, <2>1 DEF Stage
  <2>3. Moves(m, f) /\ Passes(manager[m], f[m])
    BY <1>1, <2>1, ThenPasses DEF Stage, On, Places, InOperation, Updates, Preparing, Spoken, Afoot
  <2> QED BY <2>2, <2>3, EndsQuiet
<1>2. CASE StageFails(m) \/ PrepareFails(m)
  <2>1. PICK f : f = Then(m, "abort")
    OBVIOUS
  <2>2. Moves(m, f) /\ Passes(manager[m], f[m])
    BY <2>1, NotSpoken, ThenPasses DEF Places, InOperation, Updates, Preparing
  <2>3. CASE PrepareFails(m)
    BY <2>1, <2>2, <2>3, OnlyQuiet DEF PrepareFails
  <2>4. CASE StageFails(m)
    <3>1. manager' = f /\ entry' = entry /\ helpers' = helpers /\ container' = container
      BY <2>1, <2>4 DEF StageFails
    <3> QED BY <2>2, <3>1, EndsQuiet
  <2> QED BY <1>2, <2>3, <2>4
<1>3. ASSUME manager[m].at \in Ran, NEW p \in {"rebind", "remember", "quit"}
      PROVE  Moves(m, Then(m, p)) /\ Passes(manager[m], Then(m, p)[m])
  BY <1>3, ThenPasses DEF Places, InOperation, Updates, Launching, Preparing, Spoken, Ran
<1>4. CASE Undo(m)
  <2>1. PICK f : f = Then(m, "quit")
    OBVIOUS
  <2>2. manager' = f /\ entry' = entry /\ helpers' = helpers /\ Becomes(manager[m].launch, NoContainer)
    BY <1>4, <2>1 DEF Undo
  <2>3. Moves(m, f) /\ Passes(manager[m], f[m])
    BY <1>3, <1>4, <2>1 DEF Undo, On, Ran
  <2> QED BY <2>2, <2>3, EndsQuiet
<1>5. CASE UndoFails(m) \/ Ready(m) \/ NotReady(m)
  <2>1. PICK p \in {"rebind", "remember", "quit"} : Only(m, Then(m, p))
    BY <1>5 DEF UndoFails, Ready, NotReady
  <2>2. manager[m].at \in Ran
    BY <1>5 DEF UndoFails, Ready, NotReady, On, Ran
  <2> QED BY <1>3, <2>1, <2>2, OnlyQuiet
<1> QED BY <1>1, <1>2, <1>4, <1>5

(* A launch that answers is remembered.                                    *)
LEMMA RememberQuiet ==
    ASSUME Inv, LaunchInv, SaidInv, NEW m \in Managers, NEW goal \in {"none", "follow"},
           Remember(m, goal)
    PROVE  Quiet /\ SaidInv'
<1>1. Steps(m) /\ Writes(m, entry)
  BY ManagerSteps DEF Manages, Remember, On, Claim, EndOperation
<1>2. PICK g : g = Then(m, "end")
  OBVIOUS
<1>3. g[m].at = "end" /\ g \in [Managers -> ManagerStates]
  BY <1>2, ManagerFacts, ThenMoves DEF Typed, Moves, Places, InOperation, Updates
<1>4. manager' = [g EXCEPT ![m].goal = goal]
  BY <1>2 DEF Remember
<1>5. PICK y : y = manager'[m]
  OBVIOUS
<1>6. y.at = "end"
  BY <1>3, <1>4, <1>5 DEF ManagerStates
<1>7. Moves(m, manager')
  BY <1>1 DEF Steps, Turns
<1>8. PICK f : f = manager'
  OBVIOUS
<1>9. Passes(manager[m], f[m])
  BY <1>5, <1>6, <1>8, FarPasses
<1>10. PICK e : e = entry
  OBVIOUS
<1> QED BY <1>1, <1>7, <1>8, <1>9, <1>10, WritesQuiet

(* A failed launch is stopped and released, as far as that works.          *)
LEMMA DropQuiet ==
    ASSUME Inv, LaunchInv, SaidInv, NEW m \in Managers, Quit(m) \/ Drop(m)
    PROVE  Quiet /\ SaidInv'
<1>1. manager[m].at \in Ran
  BY DEF Quit, Drop, On, Ran
<1>2. ASSUME NEW p \in {"drop", "dropped", "fail"}
      PROVE  Moves(m, Then(m, p)) /\ Passes(manager[m], Then(m, p)[m])
  BY <1>1, NotSpoken, ThenPasses DEF Places, InOperation, Updates, Launching, Preparing, Spoken, Ran
<1>3. PICK p \in {"drop", "dropped", "fail"} :
          \/ Only(m, Then(m, p))
          \/ /\ manager' = Then(m, p) /\ entry' = entry /\ helpers' = helpers
             /\ \E l : Becomes(l, NoContainer) \/ (Up /\ Stopped(l))
  BY DEF Quit, Drop
<1>4. PICK f : f = Then(m, p)
  OBVIOUS
<1>5. Moves(m, f) /\ Passes(manager[m], f[m])
  BY <1>2, <1>4
<1>6. CASE Only(m, Then(m, p))
  BY <1>4, <1>5, <1>6, OnlyQuiet
<1>7. CASE /\ manager' = Then(m, p) /\ entry' = entry /\ helpers' = helpers
           /\ \E l : Becomes(l, NoContainer) \/ (Up /\ Stopped(l))
  <2>1. manager' = f /\ entry' = entry /\ helpers' = helpers
    BY <1>4, <1>7
  <2> QED BY <1>5, <1>7, <2>1, EndsQuiet
<1> QED BY <1>3, <1>6, <1>7

(* A step that leaves the managers as they are.                            *)
LEMMA AsideSays ==
    ASSUME SaidInv, Mild, manager' = manager PROVE SaidInv' /\ (Busy' <=> Busy)
<1>1. ASSUME NEW n \in Managers PROVE Says(manager[n])'
  <2>1. PICK x : x = manager[n]
    OBVIOUS
  <2>2. Says(x) /\ (x.at \in Preparing => Busy) /\ manager'[n] = x
    BY <2>1 DEF SaidInv, Busy
  <2>3. Says(x)'
    BY <2>2, SamePasses, PassSays
  <2> QED BY <2>2, <2>3
<1>2. entry'.phase = "none" => entry'.launch = 0
  BY DEF SaidInv, Mild
<1> QED BY <1>1, <1>2 DEF SaidInv, Busy

(* Such a step that at most ends a container.                              *)
LEMMA AsideQuiet ==
    ASSUME Inv, LaunchInv, SaidInv, manager' = manager, entry' = entry, helpers' = helpers,
           container' = container \/ \E l : Up /\ Stopped(l)
    PROVE  Quiet /\ SaidInv'
<1>1. Kept
  BY DEF Kept
<1>2. container' = container \/ (container.launch # 0 /\ Ends(container'))
  BY BecomesEnds
<1> QED BY <1>1, <1>2, KeptMild, AsideSays DEF Quiet

(* Asking, following, waiting, leaving a claim, and being killed.          *)
LEMMA ComingQuiet ==
    ASSUME Inv, LaunchInv, SaidInv, NEW m \in Managers,
           Begins(m, "start") \/ Begins(m, "stop") \/ Follow(m) \/ Spend(m) \/ Kill(m) \/ Leave(m)
    PROVE  Quiet /\ SaidInv'
<1>1. manager \in [Managers -> ManagerStates] /\ Proper(manager[m])
  BY ManagerFacts DEF Typed
<1>2. entry' = entry /\ container' = container /\ helpers' = helpers
  BY DEF Begins, Follow, Only, Spend, Kill, Leave
<1>3. CASE Leave(m)
  BY <1>2, <1>3, AsideQuiet DEF Leave
<1>4. CASE ~Leave(m)
  <2>1. PICK y : y = manager'[m]
    OBVIOUS
  <2>2. Moves(m, manager')
    <3>1. ASSUME Begins(m, "start") \/ Begins(m, "stop") \/ Follow(m) \/ Spend(m) \/ Kill(m)
          PROVE  Typed'
      BY <3>1, BeginsSteps, FollowSteps, SpendSteps, KillSteps DEF Inv, Owned, Amid, Steps
    <3>2. \A n \in Managers \ {m} : manager'[n] = manager[n]
      BY <1>1, <1>4 DEF Begins, Follow, Only, Spend, Kill, Then
    <3> QED BY <1>4, <3>1, <3>2 DEF Moves, Typed
  <2>3. Passes(manager[m], y)
    <3>1. CASE Begins(m, "start") \/ Begins(m, "stop")
      <4>1. y.at = "claim"
        BY <1>1, <2>1, <3>1 DEF Begins, Only, IdleManager
      <4> QED BY <4>1, FarPasses
    <3>2. CASE Kill(m)
      <4>1. y.at = "dead"
        BY <1>1, <2>1, <3>2 DEF Kill, IdleManager
      <4> QED BY <4>1, FarPasses
    <3>3. CASE Spend(m)
      <4>1. y.at = manager[m].at /\ y.goal = manager[m].goal /\ y.launch = manager[m].launch
        BY <1>1, <2>1, <3>3 DEF Spend, Only, ManagerStates
      <4> QED BY <4>1 DEF Passes
    <3>4. CASE Follow(m)
      <4>1. y.at \in {"release", "halt"} /\ y.goal = "follow"
        BY <1>1, <2>1, <3>4 DEF Follow, On, Only, Proper, Then, ManagerStates
      <4> QED BY <4>1 DEF Passes, Preparing
    <3> QED BY <1>4, <3>1, <3>2, <3>3, <3>4
  <2> QED BY <1>2, <2>1, <2>2, <2>3, QuietKeeps DEF Kept
<1> QED BY <1>3, <1>4

(* Being killed while a directory is removed.                              *)
LEMMA KillUnstagingQuiet ==
    ASSUME Inv, LaunchInv, SaidInv, NEW m \in Managers, KillUnstaging(m)
    PROVE  Quiet /\ SaidInv'
<1>1. PICK f : f = manager'
  OBVIOUS
<1>2. Moves(m, f)
  BY <1>1, KillUnstagingSteps DEF Inv, Steps, Turns
<1>3. f[m].at = "dead"
  BY <1>1, ManagerFacts DEF KillUnstaging, IdleManager, Typed
<1>4. Passes(manager[m], f[m])
  BY <1>3, FarPasses
<1>5. /\ entry' = entry /\ helpers' = helpers
      /\ container' = container \/ Becomes(manager[m].launch, NoContainer)
  BY DEF KillUnstaging
<1> QED BY <1>1, <1>2, <1>4, <1>5, EndsQuiet

(* What the server writes of its launch, while its container is there.     *)
LEMMA ServerTells ==
    ASSUME Inv, LaunchInv, SaidInv, Serves \/ ServerCloses \/ ContainerDies
    PROVE  (Quiet \/ Written) /\ SaidInv'
<1>1. ASSUME server # "none" PROVE Up /\ container.launch # 0
  BY <1>1 DEF LaunchInv, ResourcesInv, Up
<1>2. ASSUME NEW phase \in Reporting, NEW next, NEW raised, server # "none",
             ServerWrites(phase, next, raised)
      PROVE  (Quiet \/ Written) /\ SaidInv'
  <2>1. manager' = manager /\ container' = container /\ helpers' = helpers
    BY <1>2 DEF ServerWrites
  <2>2. CASE entry' = entry
    BY <2>1, <2>2, AsideQuiet
  <2>3. CASE Patches(entry, container.launch, phase) /\ entry' = Patched(entry, container.launch, phase)
    <3>1. /\ entry.launch = container.launch /\ entry.phase \notin Terminal
          /\ entry'.launch = entry.launch /\ entry'.ref = entry.ref /\ entry'.phase = phase
      BY <2>3 DEF Patches, Patched, Reporting, Active, Inv, Typed, Entries
    <3>2. Reported
      BY <1>1, <1>2, <3>1 DEF Reported
    <3> QED BY <2>1, <3>2, ReportedMild, AsideSays DEF Written
  <2> QED BY <1>2, <2>2, <2>3 DEF ServerWrites
<1>3. ASSUME NEW next, ServerOnly(next) PROVE Quiet /\ SaidInv'
  BY <1>3, AsideQuiet DEF ServerOnly
<1>4. ASSUME NEW next, ServerPatches(next) PROVE Quiet /\ SaidInv'
  BY <1>4, AsideQuiet DEF ServerPatches
<1>5. CASE ServerStarts \/ ServerServes \/ ServerCloses \/ ServerPromotes
  <2>1. server # "none"
    BY <1>5 DEF ServerStarts, ServerServes, ServerCloses, ServerPromotes, ServerAt
  <2>2. \/ ServerWrites("starting", "starting", "done")
        \/ ServerWrites("running", "serving", "closing")
        \/ \E next : ServerOnly(next)
        \/ \E next : ServerPatches(next)
    BY <1>5 DEF ServerStarts, ServerServes, ServerCloses, ServerPromotes
  <2> QED BY <1>2, <1>3, <1>4, <2>1, <2>2 DEF Reporting
<1>6. CASE ServerFinalizes
  <2>1. CASE \E next : ServerOnly(next)
    BY <1>3, <2>1
  <2>2. CASE /\ \E phase \in Terminal : entry' = [entry EXCEPT !.phase = phase]
             /\ UNCHANGED <<container, helpers, manager>>
    <3>1. PICK phase \in Terminal : entry' = [entry EXCEPT !.phase = phase]
      BY <2>2
    <3>2. entry'.launch = entry.launch /\ entry'.ref = entry.ref /\ entry'.phase = phase
      BY <3>1 DEF Inv, Typed, Entries
    <3>3. phase \notin Active \cup {"none"}
      BY DEF Terminal, Active
    <3>4. ~Busy
      BY <1>1, <1>6, ThereNotBusy DEF ServerFinalizes, ServerAt
    <3>5. Ended
      BY <3>2, <3>3, <3>4 DEF Ended
    <3> QED BY <2>2, <3>5, EndedMild, AsideSays DEF Written
  <2> QED BY <1>6, <2>1, <2>2 DEF ServerFinalizes
<1>7. CASE ServerLeaves
  BY <1>7, AsideQuiet DEF ServerLeaves
<1>8. CASE ServerExits \/ ContainerDies
  <2>1. Up /\ Stopped(container.launch)
    BY <1>1, <1>8 DEF ServerExits, ContainerDies, ServerAt
  <2>2. manager' = manager /\ entry' = entry /\ helpers' = helpers
    BY <1>8 DEF ServerExits, ContainerDies
  <2> QED BY <2>1, <2>2, AsideQuiet
<1> QED BY <1>6, <1>7, <1>8, <1>5 DEF Serves

(* A query marks over only what nobody prepares.                           *)
LEMMA QueriesTell ==
    ASSUME Inv, LaunchInv, SaidInv, Queries PROVE (Quiet \/ Written) /\ SaidInv'
<1>1. manager' = manager /\ container' = container /\ helpers' = helpers
  BY DEF Queries, QueryReads, QueryLooks, QueryJudges, Repair, Defer, QueryRecovers, QueryLeaves, QueryOnly
<1>2. CASE ~Repair
  <2>1. entry' = entry
    BY <1>2 DEF Queries, QueryReads, QueryLooks, QueryJudges, Defer, QueryRecovers, QueryLeaves, QueryOnly
  <2> QED BY <1>1, <2>1, AsideQuiet
<1>3. CASE Repair
  <2>1. Abandoned(entry) /\ entry' = Over(entry)
    BY <1>3 DEF Repair, LaunchInv, QueryInv
  <2>2. ~Busy
    <3>1. SUFFICES ASSUME NEW m \in Managers, manager[m].at \in Preparing PROVE FALSE
      BY DEF Busy
    <3>2. Proper(manager[m])
      BY ManagerFacts
    <3>3. Within(manager[m]) /\ manager[m].at # "dead"
      BY <3>1, <3>2 DEF Within, Proper, Loosely, Preparing, InOperation, Updates, Launching
    <3>4. entry.op = m
      BY <3>3 DEF Inv, Owned
    <3> QED BY <2>1, <3>3, <3>4 DEF Abandoned
  <2>3. /\ entry'.launch = entry.launch /\ entry'.ref = entry.ref
        /\ entry'.phase = IF entry.phase \in Active THEN "stopped" ELSE entry.phase
    BY <2>1 DEF Over, Inv, Typed, Entries
  <2>4. Ended
    BY <2>2, <2>3 DEF Ended, Active
  <2> QED BY <1>1, <2>4, EndedMild, AsideSays DEF Written
<1> QED BY <1>2, <1>3

(* "docker run" ends; nobody prepared while it ran.                        *)
LEMMA HelperTells ==
    ASSUME Inv, LaunchInv, SaidInv, NEW l \in helpers, NEW ok \in BOOLEAN, HelperEnds(l, ok)
    PROVE  Came /\ SaidInv'
<1>1. helpers = {l}
  BY ManagerFacts, RunningIsMine DEF Inv
<1>2. helpers # {} /\ helpers' = {} /\ entry' = entry
  <2>1. helpers' = helpers \ {l} /\ entry' = entry
    BY ZenonT(20) DEF HelperEnds
  <2> QED BY <1>1, <2>1
<1>3. \A n \in Managers : manager[n].at \notin Preparing
  BY <1>2 DEF LaunchInv, ManagersInv, OwnLaunch
<1>4. {"await", "bind", "undo"} \subseteq Spoken
  BY DEF Spoken, Afoot, Ran
<1>5. Mild
  BY <1>2 DEF Mild
<1>6. ASSUME NEW n \in Managers PROVE Says(manager[n])' /\ manager'[n].at \notin Preparing
  <2>1. PICK x : x = manager[n]
    OBVIOUS
  <2>2. PICK y : y = manager'[n]
    OBVIOUS
  <2>3. Says(x) /\ x.at \notin Preparing /\ x \in ManagerStates
    BY <1>3, <2>1, ManagerFacts DEF SaidInv
  <2>4. \/ y = x
        \/ x.at = "await" /\ y.at \in {"bind", "undo"} /\ y.goal = x.goal
    <3>1. y = IF ~(x.at = "await" /\ x.launch = l) THEN x
              ELSE IF ok THEN [x EXCEPT !.at = "bind", !.ref = "bound"]
              ELSE [x EXCEPT !.at = "undo", !.ref = "prepared"]
      BY <2>1, <2>2, ZenonT(30) DEF HelperEnds
    <3> QED BY <2>3, <3>1 DEF ManagerStates
  <2>5. Passes(x, y) /\ y.at \notin Preparing
    BY <1>4, <2>3, <2>4 DEF Passes, Preparing
  <2>6. Says(y)'
    BY <1>5, <2>3, <2>5, PassSays
  <2> QED BY <2>1, <2>2, <2>5, <2>6
<1>7. Came
  BY <1>2, <1>6 DEF Came, Kept, Busy
<1>8. SaidInv'
  BY <1>2, <1>6 DEF SaidInv
<1> QED BY <1>7, <1>8

Tells == Quiet \/ Written \/ Opened \/ Asked \/ Came

(* Every step tells nothing, writes the entry, or is one of a new launch's.*)
LEMMA NextTells ==
    ASSUME Inv, LaunchInv, SaidInv, [Next]_vars PROVE Tells /\ SaidInv'
<1>1. ASSUME NEW m \in Managers,
             \/ Begins(m, "start") \/ Begins(m, "stop")
             \/ Manages(m) \/ Follow(m) \/ Spend(m) \/ Kill(m) \/ KillUnstaging(m)
      PROVE  Tells /\ SaidInv'
  <2>1. CASE Manages(m)
    BY <2>1, OperationQuiet, LoadQuiet, RetireWritten, InspectQuiet, ReleasingQuiet, ClearTells,
       BeginTells, SavingTells, LaunchingQuiet, RunTells, RememberQuiet, DropQuiet, FailTells,
       ComingQuiet DEF Manages, Tells
  <2> QED BY <1>1, <2>1, ComingQuiet, KillUnstagingQuiet DEF Tells
<1>2. CASE UNCHANGED vars
  BY <1>2, AsideQuiet DEF vars, Tells
<1> QED BY <1>1, <1>2, HelperTells, ServerTells, QueriesTell DEF Next, Tells

(* What there is of a launch, before a step and after it.                  *)
LEMMA LifeIs ==
    /\ helpers # {} => Life = "coming"
    /\ helpers = {} /\ container # NoContainer => Life = "there"
    /\ helpers = {} /\ container = NoContainer /\ Busy => Life = "begun"
    /\ helpers = {} /\ container = NoContainer /\ ~Busy => Life = "gone"
    /\ helpers' # {} => Life' = "coming"
    /\ helpers' = {} /\ container' # NoContainer => Life' = "there"
    /\ helpers' = {} /\ container' = NoContainer /\ Busy' => Life' = "begun"
    /\ helpers' = {} /\ container' = NoContainer /\ ~Busy' => Life' = "gone"
BY DEF Life, NoContainer

(* What the entry says of it.                                              *)
LEMMA SaidIs ==
    /\ entry.phase = "preparing" => Said = "begun"
    /\ entry.phase \in Reporting => Said = "serving"
    /\ entry.phase \notin Active => Said = "over"
    /\ entry'.phase = "preparing" => Said' = "begun"
    /\ entry'.phase \in Reporting => Said' = "serving"
    /\ entry'.phase \notin Active => Said' = "over"
    /\ entry'.phase = entry.phase => Said' = Said
BY DEF Said, Reporting, Active

Told == <<entry.launch, Life, Said, entry.ref # "none">>

(* A step that tells nothing ends the launch, or is none of the contract's.*)
LEMMA QuietStep ==
    ASSUME Inv, LaunchInv, SaidInv, Quiet PROVE [Contract!Next]_Told
<1>1. /\ entry'.launch = entry.launch /\ Said' = Said /\ helpers' = helpers
      /\ (entry'.ref # "none") = (entry.ref # "none")
  BY SaidIs DEF Quiet, Kept
<1>2. Life' = Life \/ (Life # "gone" /\ Life' = "gone")
  <2>1. CASE helpers # {}
    BY <1>1, <2>1, LifeIs
  <2>2. CASE helpers = {} /\ container' = container
    BY <1>1, <2>2, LifeIs DEF Quiet
  <2>3. CASE container.launch # 0 /\ Ends(container')
    <3>1. ~Busy /\ helpers = {} /\ container # NoContainer /\ ~Busy'
      BY <2>3, ThereNotBusy DEF Quiet, NoContainer
    <3> QED BY <1>1, <3>1, LifeIs
  <2> QED BY <2>1, <2>2, <2>3 DEF Quiet
<1> QED BY <1>1, <1>2 DEF Contract!Next, Contract!Vanish, Told

(* A manager that saves a reference where there was none has prepared      *)
(* nothing yet.                                                            *)
LEMMA BoundRefers ==
    ASSUME Inv, LaunchInv, SaidInv, NEW m \in Managers, Bound(m), entry.ref = "none"
    PROVE  Life = "begun" /\ Said = "begun"
<1>1. PICK x : x = manager[m]
  OBVIOUS
<1>2. Fits(x) /\ Says(x) /\ entry.phase \in Phases
  BY <1>1, ManagerFacts DEF SaidInv, Typed, Entries
<1>3. x.at = "intent"
  <2>1. x.at # "prepared"
    BY <1>2 DEF Fits, OwnLaunch, Afoot
  <2>2. ASSUME x.at \in {"rebind", "bind"} PROVE FALSE
    <3>1. entry.phase \notin Active /\ x.launch # 0
      BY <1>1, <1>2, <2>2 DEF Bound, Says, Spoken, Ran, Fits, OwnLaunch
    <3>2. entry.phase = "none"
      BY <1>2, <3>1 DEF Bound, Phases
    <3> QED BY <1>1, <3>1, <3>2 DEF SaidInv, Bound, Mine
  <2> QED BY <1>1, <2>1, <2>2 DEF Bound
<1>4. helpers = {} /\ container.launch = 0 /\ entry.phase = "preparing" /\ Busy
  BY <1>1, <1>2, <1>3 DEF Fits, OwnLaunch, Says, Preparing, Busy
<1> QED BY <1>4, NoneIsNone, LifeIs, SaidIs

(* A step that writes the entry is a step of the contract's, or none.      *)
LEMMA WrittenStep ==
    ASSUME Inv, LaunchInv, SaidInv, Written PROVE [Contract!Next]_Told
<1>1. Life' = Life
  BY DEF Written, Life
<1>2. CASE Ended
  <2>1. entry'.launch = entry.launch /\ Said' = "over" /\ entry'.ref = entry.ref
    BY <1>2, SaidIs DEF Ended
  <2> QED BY <1>1, <2>1 DEF Contract!Next, Contract!End, Told
<1>3. CASE Reported
  <2>1. entry'.launch = entry.launch /\ Said' = "serving" /\ entry'.ref = entry.ref
    BY <1>3, SaidIs DEF Reported
  <2>2. Life = "there"
    BY <1>3, ThereNotBusy, LifeIs DEF Reported, NoContainer
  <2>3. Said \in {"begun", "serving"}
    <3>1. entry.phase # "none" /\ entry.phase \in Phases
      BY <1>3, ManagerFacts DEF Reported, SaidInv, Inv, Typed, Entries
    <3> QED BY <1>3, <3>1, SaidIs DEF Reported, Phases, Active, Reporting
  <2> QED BY <1>1, <2>1, <2>2, <2>3 DEF Contract!Next, Contract!Report, Told
<1>4. CASE \E m \in Managers : Bound(m)
  <2>1. PICK m \in Managers : Bound(m)
    BY <1>4
  <2>2. entry'.launch = entry.launch /\ Said' = Said /\ entry'.ref # "none"
    BY <2>1, SaidIs DEF Bound
  <2>3. CASE entry.ref # "none"
    BY <1>1, <2>2, <2>3 DEF Told
  <2>4. CASE entry.ref = "none"
    <3>1. Life = "begun" /\ Said = "begun"
      BY <2>1, <2>4, BoundRefers
    <3> QED BY <1>1, <2>2, <2>4, <3>1 DEF Contract!Next, Contract!Refer, Told
  <2> QED BY <2>3, <2>4
<1>5. CASE Forgot
  <2>1. entry'.launch = entry.launch /\ Said' = "over" /\ entry.ref # "none" /\ entry'.ref = "none"
    BY <1>5, SaidIs DEF Forgot, Terminal, Active
  <2>2. helpers = {} /\ container.launch = 0 /\ ~Busy
    BY <1>5 DEF Forgot, Leftovers
  <2>3. Life = "gone"
    BY <2>2, NoneIsNone, LifeIs
  <2> QED BY <1>1, <2>1, <2>3 DEF Contract!Next, Contract!Forget, Told
<1> QED BY <1>2, <1>3, <1>4, <1>5 DEF Written

(* The steps of a new launch are steps of the contract's.                  *)
LEMMA LaunchStep ==
    ASSUME Inv, LaunchInv, Opened \/ Asked \/ Came PROVE [Contract!Next]_Told
<1>1. CASE Opened
  <2>1. Life = "gone" /\ Life' = "begun" /\ Said = "over" /\ Said' = "begun"
    BY <1>1, LifeIs, SaidIs DEF Opened
  <2> QED BY <1>1, <2>1 DEF Opened, Contract!Next, Contract!Begin, Told
<1>2. CASE Asked
  <2>1. Life = "begun" /\ Life' = "coming" /\ Said = "begun" /\ Said' = Said
    BY <1>2, LifeIs, SaidIs DEF Asked, Kept
  <2> QED BY <1>2, <2>1 DEF Asked, Kept, Contract!Next, Contract!Ask, Told
<1>3. CASE Came
  <2>1. Life = "coming" /\ Life' \in {"there", "gone"} /\ Said' = Said
    BY <1>3, LifeIs, SaidIs DEF Came, Kept
  <2> QED BY <1>3, <2>1 DEF Came, Kept, Contract!Next, Contract!Create, Contract!Vanish, Told
<1> QED BY <1>1, <1>2, <1>3

(* Where it starts.                                                        *)
LEMMA InitTells == ASSUME Init PROVE SaidInv /\ Contract!Init
<1>1. /\ entry.launch = 0 /\ entry.ref = "none" /\ entry.phase = "none"
      /\ helpers = {} /\ container = NoContainer
  BY DEF Init, NewEntry
<1>2. \A m \in Managers : manager[m].at = "idle"
  BY InstanceLaunchAssumption DEF Init, IdleManager
<1>3. ~Busy
  BY <1>2 DEF Busy, Preparing
<1>4. SaidInv
  BY <1>1, <1>2, NotSpoken DEF SaidInv, Says, Preparing
<1>5. Life = "gone" /\ Said = "over"
  BY <1>1, <1>3, LifeIs, SaidIs DEF Active
<1> QED BY <1>1, <1>4, <1>5 DEF Contract!Init

(* Whatever managers, servers and queries do, in whatever order, and       *)
(* whichever manager is killed or container dies: the entry's launches go  *)
(* as LaunchContract promises.  A launch begins when nothing is left of    *)
(* the one before; it is referred to before "docker run" is called, and    *)
(* until nothing of it is left or can come; it reports while its container *)
(* is there, and once it is over it stays so (start, _release_stopped,     *)
(* SandboxState.save, patch_workload, repair_registration).                *)
THEOREM LaunchesKeepContract == Spec => KeepsLaunchContract
<1>1. Init => SaidInv /\ Contract!Init
  BY InitTells
<1>2. Inv /\ LaunchInv /\ SaidInv /\ [Next]_vars => SaidInv' /\ [Contract!Next]_Told
  BY NextTells, QuietStep, WrittenStep, LaunchStep DEF Tells
<1>3. Spec => Contract!Init /\ [][Contract!Next]_Told
  BY <1>1, <1>2, LaunchAlways, PTL DEF Spec
<1> QED BY <1>3, PTL DEF KeepsLaunchContract, Contract!Spec, Told

=============================================================================
