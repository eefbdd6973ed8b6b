---- MODULE RunControls ----
(***************************************************************************)
(* Steering, canceling and revoking one run.                               *)
(*                                                                         *)
(* A run is a row of a SQLite database shared by every process that works  *)
(* on the agent (execution/store.py).  The executor of one process owns    *)
(* it: an asyncio task evaluates it, and an in-memory cache holds the      *)
(* pending controls the owner has seen (execution/executor/executor.py).   *)
(* Anyone may write a control for the run:                                 *)
(*                                                                         *)
(*   "remote"  another process: it commits, the owner polls by revision;   *)
(*   "thread"  a worker thread of the owner (the API's synchronous         *)
(*             endpoints): it commits, then merges its own record into the *)
(*             cache, and the owner's loop may run between the two;        *)
(*   "loop"    code on the owner's event loop: it commits and merges in    *)
(*             one slice of the loop.                                      *)
(*                                                                         *)
(* Grain.  A transaction of the store is one step.  The task runs in       *)
(* slices: between two of its suspension points (Suspended) no callback,   *)
(* no poll and no other loop code runs, while processes and threads        *)
(* interleave with every step.  The run is an agic root without child      *)
(* runs, so the boundary lock is free whenever it asks for it.             *)
(***************************************************************************)
EXTENDS Naturals

CONSTANTS
    MaxControls,   \* bound: controls accepted for the run
    Requests,      \* the <<kind, timing>> pairs clients submit
    Clients,       \* who submits and revokes, of "remote", "thread", "loop"
    Stops,         \* stop(reason=...): TRUE with a reason, FALSE without
    Revocable      \* whether clients revoke

Kinds == {"steer", "cancel"}
Timings == {"immediate", "next_step", "next_call"}

ASSUME ConstantsAssumption ==
    /\ MaxControls \in Nat
    /\ Requests \subseteq Kinds \X Timings
    /\ Clients \subseteq {"remote", "thread", "loop"}
    /\ Stops \subseteq BOOLEAN
    /\ Revocable \in BOOLEAN

VARIABLES
    \* the database
    run,              \* runs.status
    control,          \* the rows of controls, by index; "none" before acceptance
    latest,           \* MAX(_revision)
    \* the executor
    stopped,          \* _stopped
    cursor,           \* _control_revision
    cache,            \* pending_controls: cached as pending
    callbacks,        \* interrupt() closures in the loop's ready queue
    observing,        \* worker threads between commit and _observe_control
    interruption,     \* interruptions[scope]
    cancelRequested,  \* task.cancel() called, CancelledError not delivered yet
    limit,            \* _limits.error is set
    \* the task that evaluates the run
    pc,
    step,             \* kind of the Step that has begun
    wanted,           \* controls about to be claimed
    claimedInputs,    \* claimed_inputs: steers for the next model Step
    chosen,           \* control the terminal facts will name
    outcome,          \* status the terminal facts will carry
    \* what was published
    adopted,          \* steers a model Step consumed
    reported          \* RunEnd.control, with NoControl for none

store == <<run, control, latest>>
registry == <<cursor, cache, callbacks>>
signals == <<interruption, cancelRequested>>
task == <<pc, step, wanted, claimedInputs, chosen, outcome>>
published == <<adopted, reported>>
vars == <<store, stopped, registry, observing, signals, limit, task, published>>

Controls == 1..MaxControls
NoControl == 0
Active == {"pending", "running"}
Ended == {"succeeded", "failed", "canceled"}
Settled == {"applied", "wontapply", "revoked"}

PCs == {"accepted", "launch", "top", "claiming", "begin", "begun",
        "claimCancel", "call", "tool", "unwinding", "interrupted",
        "canceling", "toolCalls", "final", "settling", "finishing",
        "cancelled", "reaping", "done"}

\* The task awaits something, so other code of the loop may run.
Suspended == pc \in {"launch", "call", "tool", "unwinding", "cancelled", "done"}

\* The run is in _active_runs, and its task is not done.
Registered == pc \notin {"accepted", "done"}
Live == pc \in {"launch", "call", "tool", "unwinding"}

Row == [kind : Kinds, timing : Timings, claimed : BOOLEAN, revision : Nat,
        status : {"none", "pending"} \cup Settled]

Pending(c) == control[c].status = "pending"
Claimable(c) == Pending(c) /\ ~control[c].claimed
IsA(c, kind) == c # NoControl /\ control[c].kind = kind
First(S) == IF S = {} THEN NoControl ELSE CHOOSE c \in S : \A d \in S : c <= d

(***************************************************************************)
(* Transactions of the store.                                              *)
(***************************************************************************)

\* accept_run_control: one more row, while the run is active.
NextIndex(c) ==
    /\ control[c].status = "none"
    /\ \A d \in Controls : d < c => control[d].status # "none"

Insert(c, kind, timing) ==
    /\ control' = [control EXCEPT ![c] =
            [kind |-> kind, timing |-> timing, claimed |-> FALSE,
             revision |-> latest + 1, status |-> "pending"]]
    /\ latest' = latest + 1
    /\ UNCHANGED run

Accept(c, kind, timing) ==
    /\ run \in Active
    /\ NextIndex(c)
    /\ Insert(c, kind, timing)

Settle(c, status) == [control[c] EXCEPT !.status = status, !.revision = latest + 1]

\* cancel_run_control: a claimed control can no longer be withdrawn.
RevocableIfPending(c) == Pending(c)
RevocableRow(c) == Claimable(c)

Revoke(c) ==
    /\ RevocableRow(c)
    /\ control' = [control EXCEPT ![c] = Settle(c, "revoked")]
    /\ latest' = latest + 1
    /\ UNCHANGED run

\* claim_run_controls: the rows claimed, and the table without a new revision.
Claimed(S) == {c \in S : Claimable(c)}
Claim(S) ==
    control' = [c \in Controls |-> IF c \in Claimed(S)
                                   THEN [control[c] EXCEPT !.claimed = TRUE]
                                   ELSE control[c]]

\* finish_run_controls: pending rows become applied, claimed or not.
Apply(S) ==
    /\ control' = [c \in Controls |-> IF c \in S /\ Pending(c)
                                      THEN Settle(c, "applied") ELSE control[c]]
    /\ latest' = IF \E c \in S : Pending(c) THEN latest + 1 ELSE latest

\* finish_run, finish_run_controls of the cause, and then
\* fail_pending_run_controls, in one transaction of _finish_run.
ClosedUnchecked(c, cause) == Settle(c, IF c = cause THEN "applied" ELSE "wontapply")
ClosedCauseOnly(c, cause) ==
    IF Pending(c) /\ c = cause THEN Settle(c, "applied") ELSE control[c]
Closed(c, cause) ==
    IF ~Pending(c) THEN control[c]
    ELSE Settle(c, IF c = cause THEN "applied" ELSE "wontapply")

FinishStore(status, cause) ==
    /\ run \in Active
    /\ run' = status
    /\ control' = [c \in Controls |-> Closed(c, cause)]
    /\ latest' = IF \E d \in Controls : Pending(d) THEN latest + 1 ELSE latest

(***************************************************************************)
(* The owner's cache of pending controls.                                  *)
(***************************************************************************)

\* Rows _refresh_controls reads, and its effect through _observe_control:
\* pending rows enter the cache, and an immediate one not seen before
\* schedules interrupt(); settled rows leave.
ChangedOffByOne ==
    {c \in Controls : control[c].status # "none" /\ control[c].revision > cursor + 1}
Changed == {c \in Controls : control[c].status # "none" /\ control[c].revision > cursor}
ChangedPending == {c \in Changed : Pending(c)}
RefreshedKeepsSettled == cache \cup ChangedPending
RefreshedCache == (cache \cup ChangedPending) \ (Changed \ ChangedPending)
RefreshedSilently == callbacks
RefreshedCallbacks ==
    callbacks \cup {c \in ChangedPending \ cache : control[c].timing = "immediate"}

RefreshAhead ==
    /\ cache' = RefreshedCache
    /\ callbacks' = RefreshedCallbacks
    /\ cursor' = latest + 1
Refresh ==
    /\ cache' = RefreshedCache
    /\ callbacks' = RefreshedCallbacks
    /\ cursor' = latest

\* _observe_control of a record whose status was read earlier.
Observe(c, status, timing) ==
    IF status = "pending"
    THEN /\ cache' = cache \cup {c}
         /\ callbacks' = callbacks \cup
                (IF c \notin cache /\ timing = "immediate" THEN {c} ELSE {})
    ELSE /\ cache' = cache \ {c}
         /\ UNCHANGED callbacks

CachedSteers(S) == {c \in S : IsA(c, "steer")}
CachedCancels(S) == {c \in S : IsA(c, "cancel")}

\* immediate_steer: not when the limit or a cancel interrupted the task, and
\* else when the refreshed cache holds an immediate steer.
ContinuableOnCancel == ~limit
Continuable == ~limit /\ ~IsA(interruption, "cancel")

NextStepSteer ==
    \E c \in CachedSteers(RefreshedCache) : control[c].timing = "next_step"
ImmediateSteer ==
    \E c \in CachedSteers(RefreshedCache) : control[c].timing = "immediate"

\* steer_before_next_step, on the refreshed cache.
SteerBeforeNextStep ==
    \E c \in CachedSteers(RefreshedCache) :
        control[c].timing \in {"immediate", "next_step"}

(***************************************************************************)
(* Clients: cancel(), steer() and cancel_control().                        *)
(***************************************************************************)

\* What the client does with the record its transaction returned.
Deliver(client, c, status, timing) ==
    CASE client = "remote" ->
            UNCHANGED <<registry, observing>>
      [] client = "thread" ->
            /\ ~stopped
            /\ observing' = observing \cup {<<c, status>>}
            /\ UNCHANGED registry
      [] client = "loop" ->
            /\ ~stopped
            /\ Suspended
            /\ IF Registered
               THEN Observe(c, status, timing)
               ELSE UNCHANGED <<cache, callbacks>>
            /\ UNCHANGED <<cursor, observing>>

\* _task_done keeps the publication gate that submissions of the owner's
\* process commit under.
Submit(client, c, kind, timing) ==
    /\ client = "remote" \/ pc # "reaping"
    /\ Accept(c, kind, timing)
    /\ Deliver(client, c, "pending", timing)
    /\ UNCHANGED <<stopped, signals, limit, task, published>>

CancelControl(client, c) ==
    /\ Revocable
    /\ Revoke(c)
    /\ Deliver(client, c, "revoked", control[c].timing)
    /\ UNCHANGED <<stopped, signals, limit, task, published>>

\* The second half of a worker thread's call.
ObserveThread(c, status) ==
    /\ <<c, status>> \in observing
    /\ observing' = observing \ {<<c, status>>}
    /\ IF Registered
       THEN Observe(c, status, control[c].timing)
       ELSE UNCHANGED <<cache, callbacks>>
    /\ UNCHANGED <<store, stopped, cursor, signals, limit, task, published>>

(***************************************************************************)
(* The event loop outside the task.                                        *)
(***************************************************************************)

\* _monitor_controls
Poll ==
    /\ Suspended /\ pc # "done"
    /\ Changed # {}
    /\ Refresh
    /\ UNCHANGED <<store, stopped, observing, signals, limit, task, published>>

\* interrupt(), the closure _observe_control queues: it claims a cancel,
\* re-reads a steer, and never displaces the cancel that is being handled.
InterruptsAnyway(c) == Live /\ IF IsA(c, "cancel") THEN Claimable(c) ELSE Pending(c)
Interrupts(c) ==
    /\ Live
    /\ ~IsA(interruption, "cancel")
    /\ IF IsA(c, "cancel") THEN Claimable(c) ELSE Pending(c)

\* The ready queue is FIFO and _launch queued the task's first slice before
\* anything could be observed, so no interrupt runs before that slice.
Interrupt(c) ==
    /\ Suspended /\ pc # "launch"
    /\ c \in callbacks
    /\ callbacks' = callbacks \ {c}
    /\ IF Interrupts(c)
       THEN /\ IF IsA(c, "cancel") THEN Claim({c}) ELSE UNCHANGED control
            /\ interruption' = c
            /\ cancelRequested' = TRUE
       ELSE UNCHANGED <<control, signals>>
    /\ UNCHANGED <<run, latest, stopped, cursor, cache, observing, limit, task,
                   published>>

\* stop(reason=...): with a reason and no pending cancel it writes one, and
\* then it cancels the task in any case.
CancelTask == cancelRequested' = (cancelRequested \/ Live)

Stop(reason) ==
    /\ Suspended /\ ~stopped
    /\ stopped' = TRUE
    /\ CancelTask
    /\ IF /\ Live /\ reason
          /\ ~\E c \in Controls : Pending(c) /\ IsA(c, "cancel")
       THEN \E c \in Controls :
            /\ Accept(c, "cancel", "immediate")
            /\ Observe(c, "pending", "immediate")
       ELSE UNCHANGED <<store, cache, callbacks>>
    /\ UNCHANGED <<cursor, observing, interruption, limit, task, published>>

\* The timer of schedule_time_limit.
ExpireLimit ==
    /\ pc \in {"call", "tool", "unwinding"} /\ ~limit
    /\ limit' = TRUE
    /\ cancelRequested' = TRUE
    /\ UNCHANGED <<store, stopped, registry, observing, interruption, task,
                   published>>

(***************************************************************************)
(* The task: _launch, _execute_owned, execute() and the agic cycle.        *)
(***************************************************************************)

Goto(label) == pc' = label

\* _launch registers the run in the slice that accepted it, or finishes it
\* as failed when the task cannot be created.
Launch ==
    /\ pc = "accepted"
    /\ \/ Goto("launch") /\ UNCHANGED outcome
       \/ Goto("finishing") /\ outcome' = "failed"
    /\ UNCHANGED <<store, stopped, registry, observing, signals, limit, step,
                   wanted, claimedInputs, chosen, published>>

BeginRun ==
    /\ pc = "launch" /\ ~cancelRequested
    /\ Goto("top")
    /\ run' = "running"
    /\ UNCHANGED <<control, latest, stopped, registry, observing, signals, limit,
                   step, wanted, claimedInputs, chosen, outcome, published>>

\* pending_inputs() before a model Step: the cached steers, then their claim.
WantSteers ==
    /\ pc = "top"
    /\ Refresh
    /\ wanted' = CachedSteers(RefreshedCache)
    /\ Goto("claiming")
    /\ UNCHANGED <<store, stopped, observing, signals, limit, step, claimedInputs,
                   chosen, outcome, published>>

ClaimSteers ==
    /\ pc = "claiming"
    /\ Claim(wanted)
    /\ claimedInputs' = claimedInputs \cup Claimed(wanted)
    /\ wanted' = {}
    /\ Goto("begin")
    /\ UNCHANGED <<run, latest, stopped, registry, observing, signals, limit, step,
                   chosen, outcome, published>>

\* _begin_step: StepBegin and the steers it consumes commit together, then
\* the cache and the interruption forget them.
BeginStep ==
    /\ pc = "begin"
    /\ Apply(claimedInputs)
    /\ adopted' = adopted \cup claimedInputs
    /\ cache' = cache \ claimedInputs
    /\ interruption' = IF interruption \in claimedInputs THEN NoControl
                                                         ELSE interruption
    /\ claimedInputs' = {}
    /\ step' = "model"
    /\ Goto("begun")
    /\ UNCHANGED <<run, stopped, cursor, callbacks, observing, cancelRequested,
                   limit, wanted, chosen, outcome, reported>>

\* raise_if_canceling, from _check_step_cancel and before_call: only the
\* first cached cancel is tried.
AwaitStep == Goto(IF step = "model" THEN "call" ELSE "tool")
WantCancel ==
    /\ pc = "begun"
    /\ Refresh
    /\ IF CachedCancels(RefreshedCache) = {}
       THEN AwaitStep /\ UNCHANGED wanted
       ELSE /\ wanted' = {First(CachedCancels(RefreshedCache))}
            /\ Goto("claimCancel")
    /\ UNCHANGED <<store, stopped, observing, signals, limit, step, claimedInputs,
                   chosen, outcome, published>>

ClaimCancel ==
    /\ pc = "claimCancel"
    /\ Claim(wanted)
    /\ wanted' = {}
    /\ IF Claimed(wanted) = {}
       THEN AwaitStep /\ UNCHANGED <<interruption, chosen>>
       ELSE /\ interruption' = First(wanted)
            /\ chosen' = First(wanted)
            /\ Goto("interrupted")
    /\ UNCHANGED <<run, latest, stopped, registry, observing, cancelRequested,
                   limit, step, claimedInputs, outcome, published>>

\* The model answers with tool calls or with its final message; its call is
\* tried again after a recoverable failure or unusable tool calls; or it fails.
ModelAnswers ==
    /\ pc = "call" /\ ~cancelRequested
    /\ \/ \E next \in {"toolCalls", "final", "top"} : Goto(next) /\ UNCHANGED outcome
       \/ Goto("finishing") /\ outcome' = "failed"
    /\ UNCHANGED <<store, stopped, registry, observing, signals, limit, step,
                   wanted, claimedInputs, chosen, published>>

\* A tool call ends; the next one of the batch begins, or the next model Step.
ToolEnds ==
    /\ pc = "tool" /\ ~cancelRequested
    /\ \E next \in {"begun", "top"} : Goto(next)
    /\ UNCHANGED <<store, stopped, registry, observing, signals, limit, step,
                   wanted, claimedInputs, chosen, outcome, published>>

\* A steer for the next step replaces the tool calls of this answer.
BeginTools ==
    /\ pc = "toolCalls"
    /\ Refresh
    /\ IF SteerBeforeNextStep
       THEN Goto("top") /\ UNCHANGED step
       ELSE Goto("begun") /\ step' = "tool"
    /\ UNCHANGED <<store, stopped, observing, signals, limit, wanted,
                   claimedInputs, chosen, outcome, published>>

\* pending_inputs() after a final message: claimed steers continue the run,
\* and so does a message that does not fit the output contract once.
WantFinalSteers ==
    /\ pc = "final"
    /\ Refresh
    /\ wanted' = CachedSteers(RefreshedCache)
    /\ Goto("settling")
    /\ UNCHANGED <<store, stopped, observing, signals, limit, step, claimedInputs,
                   chosen, outcome, published>>

ClaimFinalSteers ==
    /\ pc = "settling"
    /\ Claim(wanted)
    /\ wanted' = {}
    /\ IF Claimed(wanted) = {}
       THEN /\ \/ outcome' \in {"succeeded", "failed"} /\ Goto("finishing")
               \/ UNCHANGED outcome /\ Goto("top")
            /\ UNCHANGED claimedInputs
       ELSE /\ claimedInputs' = Claimed(wanted)
            /\ Goto("top")
            /\ UNCHANGED outcome
    /\ UNCHANGED <<run, latest, stopped, registry, observing, signals, limit, step,
                   chosen, published>>

\* CancelledError reaches the awaited adapter or tool, whose cleanup awaits
\* too; a second cancel() only cuts the cleanup short.
DeliverCancel ==
    /\ pc \in {"call", "tool"} /\ cancelRequested
    /\ cancelRequested' = FALSE
    /\ Goto("unwinding")
    /\ UNCHANGED <<store, stopped, registry, observing, interruption, limit, step,
                   wanted, claimedInputs, chosen, outcome, published>>

Unwind ==
    /\ pc = "unwinding"
    /\ cancelRequested' = FALSE
    /\ Goto("interrupted")
    /\ UNCHANGED <<store, stopped, registry, observing, interruption, limit, step,
                   wanted, claimedInputs, chosen, outcome, published>>

\* The agic cycle's handler: an immediate steer continues, anything else
\* propagates to execute().
HandleCancelled ==
    /\ pc = "interrupted"
    /\ IF Continuable
       THEN /\ Refresh
            /\ Goto(IF ImmediateSteer THEN "top" ELSE "canceling")
       ELSE Goto("canceling") /\ UNCHANGED registry
    /\ UNCHANGED <<store, stopped, observing, signals, limit, step, wanted,
                   claimedInputs, chosen, outcome, published>>

\* execute()'s handler picks the control that RunEnd will name.
ChooseCause ==
    /\ pc = "canceling"
    /\ Goto("finishing")
    /\ IF limit
       THEN /\ outcome' = "failed"
            /\ chosen' = NoControl
            /\ UNCHANGED registry
       ELSE /\ outcome' = "canceled"
            /\ IF chosen # NoControl \/ IsA(interruption, "cancel")
               THEN /\ chosen' = IF chosen # NoControl THEN chosen ELSE interruption
                    /\ UNCHANGED registry
               ELSE /\ Refresh
                    /\ chosen' = First({c \in CachedCancels(RefreshedCache) :
                                            control[c].timing = "immediate"})
    /\ UNCHANGED <<store, stopped, observing, signals, limit, step, wanted,
                   claimedInputs, published>>

\* A task canceled before its first slice never runs; _task_done finishes it.
CancelUnstarted ==
    /\ pc = "launch" /\ cancelRequested
    /\ cancelRequested' = FALSE
    /\ Goto("cancelled")
    /\ UNCHANGED <<store, stopped, registry, observing, interruption, limit, step,
                   wanted, claimedInputs, chosen, outcome, published>>

Reap ==
    /\ pc = "cancelled"
    /\ outcome' = "canceled"
    /\ chosen' = IF IsA(interruption, "cancel") THEN interruption
                 ELSE First({c \in Controls : Pending(c) /\ IsA(c, "cancel")})
    /\ Goto("reaping")
    /\ UNCHANGED <<store, stopped, registry, observing, signals, limit, step,
                   wanted, claimedInputs, published>>

\* _finish_run: the terminal transaction, RunEnd, and leaving the registry.
FinishRun ==
    /\ pc \in {"finishing", "reaping"}
    /\ FinishStore(outcome, chosen)
    /\ reported' = chosen
    /\ cache' = {}
    /\ Goto("done")
    /\ UNCHANGED <<stopped, cursor, callbacks, observing, signals, limit, step,
                   wanted, claimedInputs, chosen, outcome, adopted>>

----------------------------------------------------------------------------

\* accept_run has committed.  No control exists besides the run's own.
Init ==
    /\ run = "pending"
    /\ control = [c \in Controls |-> [kind |-> "steer", timing |-> "immediate",
                    claimed |-> FALSE, revision |-> 0, status |-> "none"]]
    /\ latest = 0
    /\ stopped = FALSE
    /\ cursor = 0
    /\ cache = {}
    /\ callbacks = {}
    /\ observing = {}
    /\ interruption = NoControl
    /\ cancelRequested = FALSE
    /\ limit = FALSE
    /\ pc = "accepted"
    /\ step = "model"
    /\ wanted = {}
    /\ claimedInputs = {}
    /\ chosen = NoControl
    /\ outcome = "failed"
    /\ adopted = {}
    /\ reported = NoControl

\* The rest of a slice, which the loop always runs.
Slice ==
    \/ Launch \/ BeginRun \/ WantSteers \/ ClaimSteers \/ BeginStep
    \/ WantCancel \/ ClaimCancel \/ BeginTools \/ WantFinalSteers
    \/ ClaimFinalSteers \/ DeliverCancel \/ Unwind \/ HandleCancelled
    \/ ChooseCause \/ CancelUnstarted \/ Reap \/ FinishRun

\* Waits on a model or a tool.
External == ModelAnswers \/ ToolEnds

Loop ==
    \/ Poll
    \/ \E c \in Controls : Interrupt(c)
    \/ \E reason \in Stops : Stop(reason)
    \/ ExpireLimit

Client ==
    \/ \E client \in Clients, c \in Controls, request \in Requests :
            Submit(client, c, request[1], request[2])
    \/ \E client \in Clients, c \in Controls : CancelControl(client, c)
    \/ \E c \in Controls, status \in {"pending", "revoked"} :
            ObserveThread(c, status)

Next == Slice \/ External \/ Loop \/ Client

Spec == Init /\ [][Next]_vars

\* The loop runs ready slices, queued callbacks and the monitor.  Nothing
\* makes a model or a tool answer, a client act or a limit expire.
Fairness ==
    /\ WF_vars(Slice)
    /\ WF_vars(Poll)
    /\ WF_vars(\E c \in Controls : Interrupt(c))

FairSpec == Spec /\ Fairness

\* Models and tools answer, and an answer holds finitely many tool calls.
Answering == WF_vars(External) /\ SF_vars(ToolEnds /\ pc' = "top")

----------------------------------------------------------------------------

\* Types; a cursor is a revision the database has issued.
TypeOK ==
    /\ run \in Active \cup Ended
    /\ control \in [Controls -> Row]
    /\ latest \in Nat /\ cursor \in 0..latest
    /\ stopped \in BOOLEAN /\ limit \in BOOLEAN /\ cancelRequested \in BOOLEAN
    /\ cache \subseteq Controls /\ callbacks \subseteq Controls
    /\ observing \subseteq Controls \X {"pending", "revoked"}
    /\ interruption \in Controls \cup {NoControl}
    /\ pc \in PCs /\ step \in {"model", "tool"}
    /\ wanted \subseteq Controls /\ claimedInputs \subseteq Controls
    /\ chosen \in Controls \cup {NoControl} /\ outcome \in Ended
    /\ adopted \subseteq Controls
    /\ reported \in Controls \cup {NoControl}

\* A run that ended leaves no control pending: whatever was submitted in
\* time was applied, revoked or closed as wontapply with it.
EndedRunSettlesControls ==
    run \in Ended => \A c \in Controls : ~Pending(c)

\* The race of a claim and a revocation has one winner: what the model was
\* told stands as applied in the database, and what was claimed for it can
\* no longer be withdrawn, whichever process tries.
AdoptedIsApplied ==
    /\ \A c \in adopted : control[c].status = "applied"
    /\ \A c \in claimedInputs : control[c].claimed /\ (Pending(c) \/ run \in Ended)
    /\ \A c \in Controls : control[c].claimed => control[c].status # "revoked"

\* The polling cursor never passes a live control the owner has not cached:
\* commits of other processes, and of threads that have not delivered their
\* own record yet, are behind the cursor only once they are in the cache.
NoControlIsLost ==
    Registered => \A c \in Controls :
        Pending(c) /\ control[c].revision <= cursor => c \in cache

\* What checkpoints read: a cached control that is settled by now has a change
\* the next refresh still has to read.  (A worker thread that resumes after its
\* control was applied breaks this: its record goes into the cache, and stays.)
CacheForgetsSettled ==
    Registered => \A c \in cache : Pending(c) \/ control[c].revision > cursor

\* Nobody's steer ends a run: it ends canceled only if a cancel was written
\* and not withdrawn, or the executor was stopped.
CanceledByRequest ==
    run = "canceled" =>
        \/ stopped
        \/ \E c \in Controls : IsA(c, "cancel") /\ control[c].status = "applied"

\* The same with the exception the code makes: a control that was withdrawn.
CanceledForCause ==
    CanceledByRequest \/ \E c \in Controls : control[c].status = "revoked"

\* Settled rows and ended runs are final, for every process.
SettledIsFinal ==
    [][/\ run \in Ended => run' = run
       /\ \A c \in Controls :
            control[c].status \in Settled => control'[c] = control[c]]_vars

EntersCall == pc' \in {"call", "tool"} /\ pc' # pc

\* Once a cancel is claimed or the time limit has expired no model or tool call
\* starts, whatever steers are pending or arrive while the task unwinds: none
\* of them takes the CancelledError for its own.
NoCallWhileEnding ==
    [][EntersCall =>
        /\ ~limit
        /\ ~\E c \in Controls :
              Pending(c) /\ IsA(c, "cancel") /\ control[c].claimed]_vars

\* stop(reason=...) cancels the run: no further call starts, unless its cancel
\* is withdrawn.  (Without a reason there is no cancel, and a pending immediate
\* steer takes the CancelledError for its own.)
NoCallAfterStop ==
    [][EntersCall /\ stopped =>
        \E c \in Controls : IsA(c, "cancel") /\ control[c].status = "revoked"]_vars

\* An immediate cancel ends the run unless it is withdrawn, with no help
\* from the model or the tool that is running.
CancelEndsRun ==
    \A c \in Controls :
        (Pending(c) /\ IsA(c, "cancel") /\ control[c].timing = "immediate")
            ~> (run \in Ended \/ control[c].status = "revoked")

\* stop() drains in the same way, unless the cancel it ends by is withdrawn.
StopDrains ==
    stopped ~> \/ pc = "done"
               \/ \E c \in Controls : IsA(c, "cancel") /\ control[c].status = "revoked"

\* Whatever ends a run from outside ends it, although models and tools hang.
InterruptsEndRun == CancelEndsRun /\ StopDrains

\* Every control is answered, as long as models and tools answer.
ControlIsAnswered ==
    Answering => \A c \in Controls : Pending(c) ~> control[c].status \in Settled

\* The database alone behaves as ControlContract promises to every process.
Contract == INSTANCE ControlContract WITH
    open <- run \in Active,
    status <- [c \in Controls |-> control[c].status],
    held <- {c \in Controls : control[c].claimed}

KeepsContract == Contract!Spec
====
