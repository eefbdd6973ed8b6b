---- MODULE Chores ----
(***************************************************************************)
(* Chores: one-off, scheduled and manual work of one agent.                *)
(*                                                                         *)
(* The definitions are authored files, published as immutable States.  The *)
(* checkpoints are rows of a SQLite table (driver/chore/store.py).  One    *)
(* scheduler thread owns them (driver/chore/scheduler.py): it keeps the    *)
(* rows in memory, a heap of due times and a waiter per submitted run, and *)
(* hands due work to the executor's loop, which accepts the run in the     *)
(* same database in a transaction of its own.  The process may die between *)
(* any two steps and is started again.                                     *)
(*                                                                         *)
(* Grain.  A transaction of the store, with the update of the records in   *)
(* memory that follows it before the scheduler's loop can run anything     *)
(* else, is one step.  A pass of _dispatch_due is one step per chore.  The *)
(* heap's lazily deleted entries are left out: queued holds the entry of a *)
(* chore whose token is current.  A schedule is the set of the offsets of  *)
(* its occurrences from the anchor, the empty set standing for no          *)
(* schedule; the clock does not go back; names do not collide.             *)
(***************************************************************************)
EXTENDS Integers

CONSTANTS
    Names,       \* the chores
    Bodies,      \* the bodies a definition may have
    Schedules,   \* its schedules, {} for a one-off
    NoDefinition, \* stands for a removed definition
    MaxTime,     \* bound: the clock stops here
    MaxRuns      \* bound: run ids issued

ASSUME ConstantsAssumption ==
    /\ Names # {} /\ Bodies # {}
    /\ Schedules \subseteq SUBSET Nat
    /\ NoDefinition \notin [body : Bodies, schedule : Schedules]
    /\ MaxTime \in Nat /\ MaxRuns \in Nat

VARIABLES
    now,         \* the wall clock
    accepted,    \* the current AgentState: a definition per name
    rows,        \* the table chores
    runs,        \* the table runs, with the activation each run was issued for
    scheduler,   \* where the scheduler's thread is
    paused,      \* _paused
    recovering,  \* names _recover_active has not looked at yet
    known,       \* _chores
    records,     \* _records
    queued,      \* due time of the valid heap entry
    submission   \* where the coroutine and the waiter of a run are

memory == <<paused, recovering, known, records, queued, submission>>
vars == <<now, accepted, rows, runs, scheduler, memory>>

NoTime == -1
Moments == Nat \cup {NoTime}
Runs == 1..MaxRuns
NoRun == 0
Once == {}
Ended == {"succeeded", "failed", "canceled"}

Definitions == [body : Bodies, schedule : Schedules]

Requested == {"source", "manual"}
Row == [status : {"absent", "pending", "running", "done", "failed", "canceled"},
        body : Bodies, pending : Moments, pendingTrigger : Requested \cup {"none"},
        active : Runs \cup {NoRun}, activeTrigger : Requested \cup {"schedule", "none"},
        activeDue : Moments, schedule : SUBSET Nat, anchor : Moments, next : Moments]

NoRow == [status |-> "absent", body |-> CHOOSE b \in Bodies : TRUE,
          pending |-> NoTime, pendingTrigger |-> "none",
          active |-> NoRun, activeTrigger |-> "none", activeDue |-> NoTime,
          schedule |-> Once, anchor |-> NoTime, next |-> NoTime]

Run == [status : {"unissued", "issued", "active"} \cup Ended,
        name : Names, trigger : Requested \cup {"schedule"},
        due : Moments]

(***************************************************************************)
(* Activations.                                                            *)
(***************************************************************************)

Earliest(s, t) == IF s = NoTime \/ (t # NoTime /\ t < s) THEN t ELSE s

Occurrences(schedule, anchor) == {anchor + offset : offset \in schedule}

\* rule.after(t) and rule.before(t, inc=True).
After(schedule, anchor, t) ==
    LET later == {o \in Occurrences(schedule, anchor) : o > t} IN
    IF later = {} THEN NoTime ELSE CHOOSE o \in later : \A p \in later : o <= p
Before(schedule, anchor, t) ==
    LET due == {o \in Occurrences(schedule, anchor) : o <= t} IN
    IF due = {} THEN NoTime ELSE CHOOSE o \in due : \A p \in due : o >= p

\* next_activation: the earlier of the request and the schedule, and at one
\* time the one whose trigger sorts first.
NextDue(row) ==
    IF row.active # NoRun THEN NoTime ELSE Earliest(row.pending, row.next)

NextTrigger(row) ==
    IF /\ row.pending # NoTime
       /\ \/ row.next = NoTime
          \/ row.pending < row.next
          \/ row.pending = row.next /\ row.pendingTrigger = "manual"
    THEN row.pendingTrigger ELSE "schedule"

Waits(row) == row.pending # NoTime \/ row.next # NoTime

\* What claim and reject_activation refuse with a ValueError.
Refuses(row, definition, trigger) ==
    \/ row.active # NoRun
    \/ /\ trigger \in Requested
       /\ \/ row.pending = NoTime \/ row.pending > now
          \/ row.pendingTrigger # trigger
    \/ /\ trigger = "schedule"
       /\ \/ definition.schedule = Once
          \/ row.anchor = NoTime \/ row.next = NoTime \/ row.next > now
          \/ Before(definition.schedule, row.anchor, now) = NoTime

\* _consume_activation: missed occurrences coalesce into the latest one.
DueConsumed(row, definition, trigger) ==
    IF trigger \in Requested THEN row.pending
    ELSE Before(definition.schedule, row.anchor, now)

ConsumedStale(row, definition, trigger) ==
    IF trigger \in Requested
    THEN [row EXCEPT !.pending = NoTime, !.pendingTrigger = "none"]
    ELSE [row EXCEPT !.next = After(definition.schedule, row.anchor, row.next)]
Consumed(row, definition, trigger) ==
    IF trigger \in Requested
    THEN [row EXCEPT !.pending = NoTime, !.pendingTrigger = "none"]
    ELSE [row EXCEPT !.next = After(definition.schedule, row.anchor,
                                    DueConsumed(row, definition, trigger))]

(***************************************************************************)
(* Transactions of the checkpoint store.                                   *)
(***************************************************************************)

\* _upsert_locked: a definition seen for the first time, or edited.
Inserted(definition) ==
    LET next == After(definition.schedule, now, now)
        once == definition.schedule = Once
    IN  [NoRow EXCEPT
            !.status = IF once \/ next # NoTime THEN "pending" ELSE "done",
            !.body = definition.body, !.schedule = definition.schedule,
            !.pending = IF once THEN now ELSE NoTime,
            !.pendingTrigger = IF once THEN "source" ELSE "none",
            !.anchor = IF once THEN NoTime ELSE now,
            !.next = next]

Queued(row, trigger) ==
    IF row.pending # NoTime THEN row
    ELSE [row EXCEPT !.pending = now, !.pendingTrigger = trigger]

Rescheduled(row, definition) ==
    [row EXCEPT !.schedule = definition.schedule,
                !.anchor = IF definition.schedule = Once THEN NoTime ELSE now,
                !.next = After(definition.schedule, now, now)]

UpdatedRunning(row, definition) ==
    LET edited == row.body # definition.body
        moved == row.schedule # definition.schedule
        work == IF edited /\ definition.schedule = Once THEN Queued(row, "source") ELSE row
        timed == IF moved THEN Rescheduled(work, definition) ELSE work
    IN  [timed EXCEPT !.body = definition.body,
            !.status = IF Waits(timed) /\ (moved \/ definition.schedule = Once)
                       THEN "pending" ELSE @]
Updated(row, definition) ==
    LET edited == row.body # definition.body
        moved == row.schedule # definition.schedule
        work == IF edited /\ definition.schedule = Once THEN Queued(row, "source") ELSE row
        timed == IF moved THEN Rescheduled(work, definition) ELSE work
        status ==
            IF row.active # NoRun THEN row.status
            ELSE IF edited /\ definition.schedule = Once THEN "pending"
            ELSE IF ~moved THEN row.status
            ELSE IF Waits(timed) THEN "pending"
            ELSE IF row.status = "pending" THEN "done" ELSE row.status
    IN  [timed EXCEPT !.body = definition.body, !.status = status]

Upserted(row, definition) ==
    IF definition = NoDefinition THEN row
    ELSE IF row.status = "absent" THEN Inserted(definition)
    ELSE Updated(row, definition)

\* claim
Claimed(row, definition, trigger, r) ==
    [Consumed(row, definition, trigger) EXCEPT
        !.status = "running", !.body = definition.body,
        !.active = r, !.activeTrigger = trigger,
        !.activeDue = DueConsumed(row, definition, trigger)]

\* reject_activation
Rejected(row, definition, trigger) ==
    LET rest == Consumed(row, definition, trigger) IN
    [rest EXCEPT !.status = IF Waits(rest) THEN "pending" ELSE "failed",
                 !.body = definition.body]

Unclaimed(row) ==
    [row EXCEPT !.active = NoRun, !.activeTrigger = "none", !.activeDue = NoTime]

\* finish_run, and reject_claim with "failed": _finished_status.  The body
\* finish_run writes is the known one, which MemoryMatches finds there.
Finished(row, status) ==
    [Unclaimed(row) EXCEPT
        !.status = IF Waits(row) THEN "pending"
                   ELSE IF status = "succeeded" THEN "done" ELSE status]

\* release_claim: the activation comes back, unless a new anchor has
\* superseded the schedule it came from.
ReleasedPending(row) ==
    [Unclaimed(row) EXCEPT !.status = IF Waits(row) THEN "pending" ELSE "done"]
Released(row) ==
    LET requested == row.activeTrigger \in Requested
        first == requested /\ (row.pending = NoTime \/ row.activeDue < row.pending)
        timely == row.activeTrigger = "schedule" /\ row.anchor # NoTime
                        /\ row.activeDue > row.anchor
        back == [Unclaimed(row) EXCEPT
            !.pending = IF requested THEN Earliest(row.pending, row.activeDue) ELSE @,
            !.pendingTrigger = IF first THEN row.activeTrigger ELSE @,
            !.next = IF timely THEN Earliest(row.next, row.activeDue) ELSE @]
    IN  [back EXCEPT !.status = IF Waits(back) THEN "pending" ELSE "done"]

\* request_manual_chore and cancel_pending_chore.
Manual(row) ==
    [Queued(row, "manual") EXCEPT
        !.status = IF row.active # NoRun THEN "running" ELSE "pending"]

Withdrawn(row) ==
    [row EXCEPT !.pending = NoTime, !.pendingTrigger = "none",
                !.status = IF row.next = NoTime THEN "canceled" ELSE "pending"]

(***************************************************************************)
(* The scheduler's memory.                                                 *)
(***************************************************************************)

\* _push after _invalidate: the heap holds the next activation of a record
\* whose definition is known.
Entry(record, definition) ==
    IF record.status = "absent" \/ definition = NoDefinition THEN NoTime
    ELSE NextDue(record)

\* _replace_record
ReplaceSilently(name, row) ==
    /\ rows' = [rows EXCEPT ![name] = row]
    /\ records' = [records EXCEPT ![name] = row]
    /\ queued' = [queued EXCEPT ![name] = NoTime]
Replace(name, row) ==
    /\ rows' = [rows EXCEPT ![name] = row]
    /\ records' = [records EXCEPT ![name] = row]
    /\ queued' = [queued EXCEPT ![name] = Entry(row, known[name])]

\* _reconcile with a State: every definition is projected, and all records
\* and heap entries are replaced.
ReconciledRows(definitions) ==
    [name \in Names |-> Upserted(rows[name], definitions[name])]
Adopt(table, definitions) ==
    /\ rows' = table
    /\ known' = definitions
    /\ records' = table
    /\ queued' = [name \in Names |-> Entry(table[name], definitions[name])]

Reconcile ==
    /\ scheduler = "serving"
    /\ Adopt(ReconciledRows(accepted), accepted)
    /\ UNCHANGED <<now, accepted, runs, scheduler, paused, recovering,
                   submission>>

----------------------------------------------------------------------------

\* The thread starts: _reconcile, then _recover_active visits the claims.
Start ==
    /\ scheduler = "down"
    /\ scheduler' = "recovering"
    /\ paused' = FALSE
    /\ Adopt(ReconciledRows(accepted), accepted)
    /\ recovering' = {name \in Names : rows'[name].active # NoRun}
    /\ UNCHANGED <<now, accepted, runs, submission>>

\* Mutants of Recovered.
RecoveredOptimistic(row) ==
    LET run == runs[row.active] IN
    IF run.status \in Ended THEN Finished(row, run.status) ELSE Released(row)
\* A claim without a run is released, one with an ended run is finished, and
\* one whose run may have been cut off stays claimed.
Recovered(row) ==
    LET run == runs[row.active] IN
    IF run.status = "issued" THEN Released(row)
    ELSE IF run.status \in Ended THEN Finished(row, run.status)
    ELSE row

Recover(name) ==
    /\ scheduler = "recovering" /\ name \in recovering
    /\ recovering' = recovering \ {name}
    /\ Replace(name, Recovered(rows[name]))
    /\ UNCHANGED <<now, accepted, runs, scheduler, paused, known, submission>>

Serve ==
    /\ scheduler = "recovering" /\ recovering = {}
    /\ scheduler' = "serving"
    /\ Adopt(ReconciledRows(known), known)
    /\ UNCHANGED <<now, accepted, runs, paused, recovering, submission>>

\* _dispatch_due takes one due entry.  If claim or reject_activation refused
\* it, the exception would end the thread (see SchedulerSurvives).
Due(name) ==
    /\ scheduler = "serving" /\ ~paused
    /\ queued[name] # NoTime /\ queued[name] <= now
    /\ known[name] # NoDefinition

Unissued == {r \in Runs : runs[r].status = "unissued"}

Dispatch(name) ==
    /\ Due(name)
    /\ Unissued # {}
    /\ LET trigger == NextTrigger(records[name])
           r == CHOOSE s \in Unissued : \A t \in Unissued : s <= t
       IN  /\ ~Refuses(rows[name], known[name], trigger)
           /\ Replace(name, Claimed(rows[name], known[name], trigger, r))
           /\ runs' = [runs EXCEPT ![r] =
                    [status |-> "issued", name |-> name, trigger |-> trigger,
                     due |-> DueConsumed(rows[name], known[name], trigger)]]
           /\ submission' = [submission EXCEPT ![r] = "queued"]
    /\ UNCHANGED <<now, accepted, scheduler, paused, recovering, known>>

\* The call of the definition does not resolve.
RejectActivation(name) ==
    /\ Due(name)
    /\ LET trigger == NextTrigger(records[name]) IN
       /\ ~Refuses(rows[name], known[name], trigger)
       /\ Replace(name, Rejected(rows[name], known[name], trigger))
    /\ UNCHANGED <<now, accepted, runs, scheduler, paused, recovering,
                   known, submission>>

\* Commands.
RunChore(name) ==
    /\ scheduler = "serving"
    /\ accepted[name] # NoDefinition
    /\ LET table == ReconciledRows(accepted) IN
       Adopt([table EXCEPT ![name] = Manual(table[name])], accepted)
    /\ UNCHANGED <<now, accepted, runs, scheduler, paused, recovering,
                   submission>>

CancelChore(name) ==
    /\ scheduler = "serving"
    /\ LET table == ReconciledRows(accepted) IN
       /\ table[name].active = NoRun /\ table[name].status = "pending"
       /\ Adopt([table EXCEPT ![name] = Withdrawn(table[name])], accepted)
    /\ UNCHANGED <<now, accepted, runs, scheduler, paused, recovering,
                   submission>>

Pause ==
    /\ scheduler = "serving"
    /\ paused' = TRUE
    /\ UNCHANGED <<now, accepted, rows, runs, scheduler, recovering, known,
                   records, queued, submission>>

Stop ==
    /\ scheduler = "serving"
    /\ paused' = TRUE
    /\ scheduler' = "draining"
    /\ UNCHANGED <<now, accepted, rows, runs, recovering, known, records,
                   queued, submission>>

\* _wait_run resumes on the scheduler's loop.
Serving == scheduler \in {"serving", "draining"}
Settles(r, row) ==
    /\ rows[runs[r].name].active = r
    /\ Replace(runs[r].name, row)
    /\ submission' = [submission EXCEPT ![r] = "none"]
    /\ UNCHANGED <<now, accepted, runs, scheduler, paused, recovering, known>>

FinishRun(r) ==
    /\ Serving /\ submission[r] = "waiting" /\ runs[r].status \in Ended
    /\ Settles(r, Finished(rows[runs[r].name], runs[r].status))

RejectClaim(r) ==
    /\ Serving /\ submission[r] = "refused"
    /\ Settles(r, Finished(rows[runs[r].name], "failed"))

ReleaseClaim(r) ==
    /\ Serving /\ submission[r] = "backoff"
    /\ Settles(r, Released(rows[runs[r].name]))

\* What the thread knew is gone with it.
Forget ==
    /\ scheduler' = "down"
    /\ paused' = FALSE /\ recovering' = {}
    /\ known' = [name \in Names |-> NoDefinition]
    /\ records' = [name \in Names |-> NoRow]
    /\ queued' = [name \in Names |-> NoTime]
    /\ submission' = [r \in Runs |-> "none"]

\* _serve's finally gathers the waiters and closes the store.
Drained ==
    /\ scheduler = "draining"
    /\ \A r \in Runs : submission[r] = "none"
    /\ Forget
    /\ UNCHANGED <<now, accepted, rows, runs>>

(***************************************************************************)
(* The execution loop.                                                     *)
(***************************************************************************)

\* execute() is accepted; finds its thread busy; is refused; or is accepted
\* and cannot be launched, which ends the run and raises all the same.
Occupied(name) == \E r \in Runs : runs[r].name = name /\ runs[r].status = "active"

Execute(r) ==
    /\ submission[r] = "queued"
    /\ \/ /\ ~Occupied(runs[r].name)
          /\ runs' = [runs EXCEPT ![r].status = "active"]
          /\ submission' = [submission EXCEPT ![r] = "waiting"]
       \/ /\ ~Occupied(runs[r].name)
          /\ runs' = [runs EXCEPT ![r].status = "failed"]
          /\ submission' = [submission EXCEPT ![r] = "refused"]
       \/ /\ UNCHANGED runs
          /\ \E result \in {"backoff", "refused"} :
                submission' = [submission EXCEPT ![r] = result]
    /\ UNCHANGED <<now, accepted, rows, scheduler, paused, recovering,
                   known, records, queued>>

RunEnds(r) ==
    /\ submission[r] = "waiting" /\ runs[r].status = "active"
    /\ \E status \in Ended : runs' = [runs EXCEPT ![r].status = status]
    /\ UNCHANGED <<now, accepted, rows, scheduler, memory>>

(***************************************************************************)
(* The world.                                                              *)
(***************************************************************************)

Tick ==
    /\ now < MaxTime
    /\ now' = now + 1
    /\ UNCHANGED <<accepted, rows, runs, scheduler, memory>>

\* The state watcher publishes an edit, a new chore or a removal.
Publish(name) ==
    /\ \E definition \in (Definitions \cup {NoDefinition}) \ {accepted[name]} :
            accepted' = [accepted EXCEPT ![name] = definition]
    /\ UNCHANGED <<now, rows, runs, scheduler, memory>>

\* The process dies with its loops; the database stays.
Crash ==
    /\ scheduler # "down"
    /\ Forget
    /\ UNCHANGED <<now, accepted, rows, runs>>

----------------------------------------------------------------------------

Init ==
    /\ now = 0
    /\ accepted \in [Names -> Definitions \cup {NoDefinition}]
    /\ rows = [name \in Names |-> NoRow]
    /\ runs = [r \in Runs |-> [status |-> "unissued", name |-> CHOOSE n \in Names : TRUE,
                 trigger |-> "manual", due |-> NoTime]]
    /\ scheduler = "down"
    /\ paused = FALSE /\ recovering = {}
    /\ known = [name \in Names |-> NoDefinition]
    /\ records = [name \in Names |-> NoRow]
    /\ queued = [name \in Names |-> NoTime]
    /\ submission = [r \in Runs |-> "none"]

Startup == Start \/ Serve \/ \E name \in Names : Recover(name)
Dispatching ==
    \E name \in Names : Dispatch(name) \/ RejectActivation(name)
Settling == \E r \in Runs : FinishRun(r) \/ RejectClaim(r) \/ ReleaseClaim(r)
Execution == \E r \in Runs : Execute(r) \/ RunEnds(r)
Commands == \E name \in Names : RunChore(name) \/ CancelChore(name)
World == Tick \/ (\E name \in Names : Publish(name)) \/ Crash

Next ==
    \/ Startup \/ Reconcile \/ Dispatching \/ Commands \/ Pause \/ Stop
    \/ Settling \/ Drained \/ Execution \/ World

Spec == Init /\ [][Next]_vars

----------------------------------------------------------------------------

\* Types.
TypeOK ==
    /\ now \in 0..MaxTime
    /\ accepted \in [Names -> Definitions \cup {NoDefinition}]
    /\ rows \in [Names -> Row] /\ records \in [Names -> Row]
    /\ runs \in [Runs -> Run]
    /\ scheduler \in {"down", "recovering", "serving", "draining"}
    /\ paused \in BOOLEAN
    /\ recovering \subseteq Names
    /\ known \in [Names -> Definitions \cup {NoDefinition}]
    /\ queued \in [Names -> Moments]
    /\ submission \in [Runs -> {"none", "queued", "waiting", "backoff", "refused"}]

\* The status a client is shown says what the columns say: running exactly
\* under a claim, pending exactly when a free chore has work ahead.
StatusAgrees ==
    \A name \in Names :
        /\ rows[name].status = "running" <=> rows[name].active # NoRun
        /\ rows[name].status = "pending" <=>
                rows[name].active = NoRun /\ Waits(rows[name])

\* While the thread serves, its records are the rows, the rows carry the
\* revision of the definitions it knows, and the heap has one valid entry for
\* the next activation of each known chore: the transitions of waiters and
\* commands leave none of them behind.  So the store refuses nothing that the
\* heap says is due: the ValueError would end the scheduler's thread.
MemoryMatches ==
    scheduler \in {"recovering", "serving"} =>
        /\ records = rows
        /\ \A name \in Names : queued[name] = Entry(rows[name], known[name])
        /\ \A name \in Names : known[name] # NoDefinition =>
                /\ rows[name].body = known[name].body
                /\ rows[name].schedule = known[name].schedule
        /\ \A name \in Names :
                Due(name) => ~Refuses(rows[name], known[name], NextTrigger(records[name]))

\* A chore executes one run at a time, across crashes: a run of it that may
\* still be executing is the one its row claims; and nothing but a run that was
\* cut off keeps a claim with nobody to settle it.
ClaimsMatchRuns ==
    /\ \A r \in Runs : runs[r].status = "active" => rows[runs[r].name].active = r
    /\ scheduler = "serving" => \A name \in Names : \A r \in Runs :
          rows[name].active = r =>
              submission[r] # "none" \/ runs[r].status = "active"

\* A scheduled occurrence is executed once, whatever is released, edited or
\* recovered in between.
OccurrenceOnce ==
    \A r, s \in Runs :
        /\ r # s /\ runs[r].name = runs[s].name
        /\ runs[r].trigger = "schedule" /\ runs[s].trigger = "schedule"
        /\ runs[r].status \in Ended \cup {"active"}
        /\ runs[s].status \in Ended \cup {"active"}
        => runs[r].due # runs[s].due

\* A claim is given up only when its run ended, when its submission was
\* refused, or with its activation put back, unless the schedule it came
\* from was replaced after it.
ClaimIsSettled ==
    [][\A name \in Names :
        rows[name].active # NoRun /\ rows'[name].active # rows[name].active =>
            \/ runs[rows[name].active].status \in Ended
            \/ submission[rows[name].active] = "refused"
            \/ rows'[name].pending # NoTime /\ rows'[name].pending <= rows[name].activeDue
            \/ rows'[name].next # NoTime /\ rows'[name].next <= rows[name].activeDue
            \/ /\ rows[name].activeTrigger = "schedule"
               /\ rows[name].anchor = NoTime \/ rows[name].anchor >= rows[name].activeDue]_vars

====
