# A verification model of toolang

toolang runs *agics* (agents written in its own language) in a process per
agent: an executor evaluates runs as asyncio tasks, a SQLite database shared by
every process of the agent records them, a scheduler thread starts chores, a
consumer handles messages from a hub, and HTTP clients follow the events.  This
directory holds TLA+ models of the parts whose correctness rests on the order
of things (commits against polls, claims against withdrawals, wakeups against
waits, crashes between two databases, answers that are lost, processes that are
killed between two steps), the TLC configurations that check them, and theorems
about each of them (run controls, the event stream and its subscribers, chores,
the talk consumer, the publication of events and the launch of an agent) proved
with TLAPS.

Paths below are relative to `src/src/toolang/` unless they begin with `docs/`
or `tests/`.

## 1. Inventory

### Components

| Part | State it keeps | What it does | Hard behaviour |
| --- | --- | --- | --- |
| **Run controls** `execution/store.py`, `execution/executor/executor.py`, `execution/executor/runs/agic.py` | rows of runs and controls with a revision; per process: a cache of pending controls, the polling cursor, interrupts in the loop's queue, the task of the run | accept, withdraw, claim, apply and close steers and cancels; stop; time limit | three kinds of writers, one owner; `CancelledError` has four causes; the cursor against late commits |
| **Event stream** `execution/stream.py` | a bounded ring, positions and wakeups of the readers | publish, reclaim, overflow the slow, drain, close | the ring at its limit; threads notifying loops; ends against unread frames |
| **Subscriptions** `execution/subscriptions.py`, `observation.py`, `stream_client.py`, `remote.py`, `api/common.py` | a reservation, a prefix, a batch; the client's cursor and reducer | attach, replay or replace, follow, checkpoint, reconnect | a prefix built from records while the suffix goes on; restarts change the epoch |
| **Chores** `driver/chore/` | a checkpoint row per chore; the scheduler's records, heap and waiters | publish definitions, dispatch, claim, submit, release, settle, recover | a crash between claim, run and settlement; edits under a claim |
| **Talk consumer** `driver/talk.py`, `execution/talk.py` | receipts in the agent's database, cursors in the hub, a position to be saved | read a batch, admit one run for it, await it, report a failure, save | no transaction spans the two sides; late and unanswered writes |
| Thread history `execution/threads.py` | physical history shared by forks | fork, rewind | a rewind against an accepted run |
| Child runs, spawn, limits `executor/awaitables.py`, `spawn.py`, `limits.py` | a tree of runs, boundary lock, budgets | await children, spend | parents waiting for children at a boundary |
| Flow evaluation `executor/stmts`, `runs`, `steps` | values | interpret statements | sequential |
| Compaction, recall, assembly, accounting | none | history to prompts | pure functions |
| **Event publication** `teaming/exporter.py`, `teaming/backend/valkey`, `teaming/subscriptions.py` | the exporter's position and projection; in the hub the agent's row, generation tables, a stream | recover, stage, commit, publish, repeat; a follower captures and reads | unanswered and late requests, fencing, two processes, a hub that forgets |
| **Launch** `up/sandbox.py`, `up/workload.py`, `up/instance.py`, `up/registry.py`, `up/observation.py`, `plugin/sandboxes/docker` | an entry in a status document, claim files, a container, a bootstrap directory | own the operation, create, bind, wait, follow, stop, release; report; observe and repair | a manager killed anywhere, a dead owner's claim, evidence that is old when it is used |
| Hub membership, messaging, presence `teaming/` | hub tables | join, post, lease | scripts atomic in the hub |
| Server lifetime `up/` | lifecycle | elect idle exit, clean up, close | a closing deadline |
| State and setup watching `state/`, `setup/` | revisions | watch, check, publish | an edit during a check |
| Language, catalog, statistics, HTTP, command line, plugins, shared values | files, caches | conversions | little order to get wrong |

`PROJECT.json` lists each with its status and, under `hazards`, what can go
wrong in it at the line where it bites.

### How they interact

```
 clients --HTTP--> api --threads--> executor <--- other processes (same SQLite)
    ^                                 |  one transaction: facts + frames
    |                                 v
 subscriptions <---- canonical stream (ring, readers)
                                      ^
 chores scheduler --submit--> executor|<--submit-- talk consumer <--> hub
        |  checkpoint rows (SQLite)         receipts (SQLite), cursors (hub)

 canonical stream --reader--> exporter --HTTP--> hub's scripts --stream--> follower

 managers --docker--> container [ server ]        queries of the host
     |                             |                   |
     +--------- the entry of the instance, under the claim on its lock
```

An accepted run and its records are committed by the store; the publication of
its events happens in the same critical section, so a record's cursor and the
stream's tail agree (`execution/stream.py`, `publication`).  Chores and talk both keep a durable link from a run to what it
was started for, and differ in how they repair it: chores look at the run
again when the process starts, talk looks at its receipt on every poll.

### What makes each part correct

* Controls: an accepted control is answered exactly once; who withdraws in
  time wins, who claims in time wins; nobody's steer ends a run; a cancel or a
  stop ends it without help from what it interrupts.
* Stream: bounded, and within the bound nobody misses a frame unknowingly;
  whoever waits is woken.
* Subscriptions: everything up to the cursor the client keeps is in what it
  shows; ends come through; partial progress never poses as whole.
* Chores: one run at a time per chore, one execution per occurrence, no claim
  forgotten; what a client is shown is what the row says.
* Talk: each message is in exactly one run's batch, none is passed over, one
  notice per failure, nobody's run is left behind.
* Publication: what the hub calls complete is exactly what the agent had done at
  the position it names; a repeated, late or fenced call does no harm; a
  follower sees each event once; in the end everything is shown.
* Launch: one manager acts at a time; what exists of a launch is referred to,
  so that whoever comes next can stop and remove it; nothing of an earlier
  launch survives into the next; a launch that is over stays over, and one that
  lives is neither declared dead nor robbed of its claim.

## 2. Modules

| Module | Models | Extends / instantiates |
| --- | --- | --- |
| `RunControls` | controls of one run: database, owner, clients | `ControlContract` as an instance |
| `ControlContract` | what the rows promise to any process | |
| `RunControlsProofs` | theorems about its rows, its cursor and the contract | `RunControls`, TLAPS |
| `RunEndingProofs` | theorems about how its run ends | `RunControlsProofs` |
| `EventRing` | what `_reclaim` keeps, in closed form | |
| `CanonicalStream` | the stream and its readers | `EventRing` |
| `ReclaimLoop` | `_reclaim` and `_compact` loop by loop, compared with `EventRing` | `CanonicalStream` |
| `CanonicalStreamProofs` | theorems about the stream, its ring and the loops | `ReclaimLoop`, TLAPS |
| `Subscriptions` | an HTTP subscriber from attachment to reducer | |
| `SubscriptionsProofs` | theorems about it | `Subscriptions`, TLAPS |
| `Chores` | scheduler, checkpoint rows, runs, crash and recovery | |
| `ChoresProofs` | theorems about it | `Chores`, TLAPS |
| `TalkLoop` | the message loop, the hub's cursors, receipts | |
| `TalkLoopProofs` | theorems about it | `TalkLoop`, TLAPS |
| `HubEvents` | the hub's scripts for an agent's events, as functions of the hub | |
| `EventExport` | the exporter, its process, the follower, the faults between them | `HubEvents`, `EventOutbox` as an instance |
| `EventOutbox` | what the hub promises of an agent's events | |
| `EventExportProofs` | theorems about it | `EventExport`, TLAPS |
| `StatusEntry` | what each writer makes of the entry of an instance | |
| `InstanceLaunch` | managers, the server in the container, queries, claims, kills | `StatusEntry`, `LaunchContract` as an instance |
| `LaunchContract` | what the entry promises of one launch after another | |
| `InstanceLaunchProofs` | theorems about it | `InstanceLaunch`, TLAPS |
| `MC...` | values for the constants, symmetry | the module of that name |

Operators that a run's property distinguishes from the code's (`RefreshAhead`
beside `Refresh`, and so on) are plausible mistakes in the definition that
follows them; `PROJECT.json` names them under `mutants`, and no specification
uses them.

### RunControls

A transaction of the store is one step.  The owner's task runs in slices: from
one `await` that suspends to the next, no callback, poll or other code of the
loop runs, while other processes and worker threads interleave with every
transaction (`Suspended` names the program counters where the loop is free).
`cancel()` and `steer()` reach the store from three places, `Clients`: another
process, a worker thread (the API's endpoints are plain functions, so they run
in the thread pool), or code on the loop; they differ in when the owner's cache
learns of the row (`Deliver`, `ObserveThread`).

| Variable | Code |
| --- | --- |
| `run`, `control`, `latest` | the rows of `runs` and `controls`, and the greatest `_revision` |
| `cursor`, `cache`, `callbacks` | `_control_revision`, `pending_controls`, `interrupt()` closures in the ready queue |
| `interruption`, `cancelRequested`, `limit` | `interruptions[scope]`, a `task.cancel()` not yet delivered, `_limits.error` |
| `pc`, `step`, `wanted`, `claimedInputs`, `chosen`, `outcome` | where the task is in `execute`, `_execute` and the step executors, and their locals |
| `adopted`, `reported` | what a model Step consumed and what `RunEnd` named |

`Slice` is the task (`BeginRun`, `WantSteers`/`ClaimSteers`, `BeginStep`,
`WantCancel`/`ClaimCancel`, `BeginTools`, `HandleCancelled`, `ChooseCause`,
`Reap`, `FinishRun` ...), `External` is a model or tool that answers, `Loop` is
the monitor, the interrupts, `stop` and the time limit, `Client` is everyone
else.  Simplifications: the boundary lock is free (one root run, no children);
a refresh reads and applies its rows at once; an interrupt never runs before
the task's first slice (the ready queue is FIFO); `CancelledError` may be
delivered before a queued interrupt, which allows more orders than the loop
has.  Not modelled: a crash of the owner, child runs and scopes, idempotence by
request id, imports, the `expected_control` argument.

### EventRing, CanonicalStream, ReclaimLoop

A section under the stream's lock is one step; so are `_wake` on the reader's
loop and the return of `_ready.wait()`.  `ring`, `tail`, `floor`, `closed` and
`registered`, `connected`, `seq`, `until`, `overflowed`, `shut`, `scheduled`,
`ready` are the fields of the stream and of its readers; `pc` is where a
reader's coroutine is.  `_reclaim` is written twice: `ReclaimLoop` follows its
two `while` loops, `EventRing` says what they leave (`StopLevel` is the reader
they stop at).  `LoopsAgree` compares the two, on every well-formed ring of at
most four frames of two steps and every set of positions, and at every
publication of a run.  The stream uses the closed form.  A loop is the function
of the number of its turns, which `MaxTurns` bounds: `RECURSIVE` operators would
keep the module from the prover.  Readers match every frame, frames count one (no
byte budget), a publication has one frame.

### Subscriptions

The records (`accepted`, `at`, `parts`), the stream (`epoch`, `tail`, `floor`,
`ring`), one connection (`link`, `reader`, `lost`, `prefix`, `batch`, `mark`,
`active`, `suppressed`) and one client (`cursor`, `view`, `staged`, `heard`).
`Reserve` captures boundary, records and reader in the section under the
stream's lock; `Attach` has the worker's prefix, built from what was captured
while frames go on arriving: `Replay` with the context the cached frames need,
or `Replacement` with whole trees.  `AttachNew` is the request that also
accepts the run.  What `structural()` and `replay()` send is defined as a set
of frames with a place for each (`InOrder`): a recorded fact of a tree behind
the facts it is nested in, a cached frame at its position, a Begin that is not
cached before the first frame that needs it.  `Feed` is the reducer of
`stream_client.py`; it builds the replacement's candidate frame by frame
(`staged`), the code at the checkpoint, and nothing else changes what is shown
in between.  What the ring
drops is left open within what `CanonicalStreamProofs` proves of it (`Evict`,
`Compact`, `Overflow`).  `Restart` starts a process with a new epoch and
orphans the runs; `Disconnect` also stands for an expired snapshot.  A root
run has at most one step; child runs, thread scopes, byte budgets and the
remote client's limit of three attempts are left out.

### Chores

`rows` is the table, `runs` the runs' table with what each was issued for;
`records`, `known`, `queued`, `paused` are the scheduler's memory and
`submission` says where the coroutine and the waiter of a run are.  A
transaction together with the update of the records that follows it is one
step (one thread does both, and nothing runs between).  A pass of
`_dispatch_due` is one step per chore.  A schedule is the set of its
occurrences' offsets from the anchor, the empty set a one-off; the clock does
not go back.  `Crash` forgets the memory at any step; `Start`, `Recover` and
`Serve` are `_reconcile` and `_recover_active`.  Not modelled: a cancel through
the API of an active run (`RunEnds` stands for it), reset and imports, the
request queue of foreign threads, cron arithmetic.

### TalkLoop

What the loop does between two awaits is one step.  `entries`, `member`,
`cursor` are the hub's; `receipts` and `bound` the agent's database; `at`,
`identity`, `pending`, `last`, `left`, `batch`, `signal` the loop.  A request
may fail by the transport, be applied without an answer, or be applied late
(`Unanswered`, `late`), or fail otherwise (`WriteRefused`); a batch is what
`read(after, count)` returned; an entry is "incoming" or "own".  `Stop` is
`stop_messages`, with the effect a cancellation has at each await.  `Restart`
leaves the runs of the dead process as they are, as the code does.  Entries are
not trimmed; the lease is folded into failing requests.

### HubEvents, EventExport

The Lua scripts are atomic in the hub, so each is a function from the hub to the
hub (`Applied`) with an answer (`WriteAnswer`): the fences (`Fenced`: lease and
epoch), the operation that is recognised when it is repeated (`Repeated`,
`Conflicts`), and for each kind what it demands (`EventFits`, `StageFits`,
`RecoverFits`) and does (`WithEvent`, `WithIncomplete`, `WithStage`,
`WithRecover`, `WithAbandon`).

| Variable | Code |
| --- | --- |
| `facts`, `process`, `stopping` | the agent's events (their position is their number), the process that runs, `finish()` |
| `hub` | the row of the agent, its generation tables, the lease, the end of the stream |
| `pc`, `final`, `mirror`, `reader` | where `run`/`recover`/`publish` is, its fields, its reader of the canonical stream |
| `late` | requests whose caller has given up (15 seconds) and which the hub has yet to see |
| `follower` | `_prepare` and `receive` of `subscriptions.py` |

A call and the handling of its answer are one step; `AnswerLost` leaves it open
whether the hub took the call and makes `_retry` repeat the very same one,
`Delayed` does so with a copy that arrives at any later time,
`AppliedWithoutRenewal` is a commit whose lease ends in between.  `Restart`
ends the process, `Register` and the `Expire...` steps move the lease, `Reset`
is a hub that lost its data, `ExpireStaging` the time to live of a staged table.
The snapshot is one step because it is taken under the stream's gate.  Not
modelled: budgets (frames and entities are not counted; exceeding one is
`SnapshotLimit`), record versions, trimming of the hub's stream.

Cursors and the ids of the hub's stream are numbers in the model and strings in
the code; the orders agree.  A script compares the texts of two cursors
(`event_scripts.py:137`) only after it found their epochs equal, and
`EventCursor` writes the sequence, which is below 2^64, as sixteen hexadecimal
digits and rejects any other form (`execution/types.py:2255`, `2258`): of equal
length and digit order, their texts are ordered as their numbers are.  Stream ids
are compared by `less` (`lua.py:52`), by length and then by text, which is the
order of decimal numbers without leading zeros.

`EventOutbox` is what whoever reads the hub can rely on, without exporter, calls
or generations: what is shown is the structure of the events up to a position;
`Extend` moves it by one event while the agent is called complete, `Interrupt`
ends that and `Replace` begins it again at a position that is not less, `Lose`
is the end of a dataset.  `KeepsOutbox` relates it to the row (`source`,
`status`, `epoch`) and to the live table (`Live`).

### StatusEntry, InstanceLaunch

The status document is read, changed and replaced under the claim on its lock,
so a writer's change is a function of the entry it finds (`StatusEntry`:
`Patched`, `Cleared`, `Over` ...), guarded by the launch it acts for.  Who may
take the claim, and when, is `InstanceLaunch`.

| Variable | Code |
| --- | --- |
| `entry` | launch id, operation, reference and phase of the instance's entry |
| `claim` | the claim file of the document's lock: it stays behind when its owner is killed |
| `container`, `helpers` | the container of the agent's name, and "docker run" processes that have not ended |
| `stage` | the bootstrap directory: its launch, and whether it is torn (nothing tells its launch, and it is not empty; an empty one is removed like a whole one) |
| `server` | how far the server in the container is |
| `manager` | where each process that starts or stops the agent is, and its locals |
| `query` | a query of the host: the entry it read, the evidence it has |

A manager goes through `Claim`, `Load`, `Probe`/`Halt`, `Release`, `Unstage`,
`Clear` (what an earlier launch left), `Begin`, `Intent`, `Stage`, `Prepared`,
`Run`, `Bind`, `Ready`, `Remember`, `EndOperation`, and through `Undo`,
`Rebind`, `Quit`, `Drop`, `Dropped`, `Fail`, `Abort` when something fails;
`Follow` is the foreground.  Whenever the directory is removed, the removal may
be cut short and leave it readable or torn (`CutShort`): by an error, which ends
a release (`UnstageFails`) and a failed launch's release (`Drop`) and is ignored
after a preparation that failed (`StageFails`) or a failed run (`Undo`), or by a
kill (`KillUnstaging`, after the container of the same step is gone).  A look at docker and what is made of it are two
steps, because "docker run" may end between them.  Taking the claim and writing
are one step, leaving it another, and `Kill` may come before, between and after
(a claim just taken counts).  The server's end leaves its claim in the same way
(`Left`).  The server also takes the claim to patch what the model does not
keep, the reason of its closing and its promotion (`ServerPatches`, in
`ServerCloses` and `ServerPromotes`).

`LaunchContract` is what whoever reads the entry can rely on: one launch at a
time, each `Begin` only when the one before is gone, reported over and no longer
referred to, then `Refer`, `Ask` for the container, `Create`; `Vanish` at any
point; `Report`, `End` and `Forget` of the entry, the last only when nothing is
left.  It has four variables and no processes, locks or faults.

Simplifications: one container name per agent, and the id of a bound reference
is its launch; the query's reading and looking are one step, because the repair
compares the whole entry with what was read; a server's claim names the
reference its entry had when the server read it, which may since have been
bound; a bind that fails for a taken port is tried again within `Fail`.  Left
out: registration files, temporary siblings, agents on the host itself and
their recovery by command line, `expected_launch_id` of a stop by handle, the
removal of finished instances, and two processes that remove the same claim
file one after the other (the file's inode is checked, not held).

## 3. Runs

Every passing run is exhaustive within its bounds.

| Run | What it asks | Bounds, and why they are enough |
| --- | --- | --- |
| `run_controls` | Can a control be lost to the cursor, settle twice, be claimed and withdrawn, end the run without cause, be followed by another call after a claimed cancel or an expired limit?  Do the rows keep `ControlContract`? | Two controls, so that one can be in every stage while another overtakes it; another process and worker threads, the two clients whose commits interleave with the task; stops with and without a reason |
| `run_controls_live` | Does an immediate cancel, or a stop, end the run although models and tools hang?  Is every control answered when they do not?  Does a checkpoint read a settled control? | Two controls of all six kinds; another process and loop code |
| `revoked_steer` | Is a run canceled only by a cancel or a stop? (violated) | One steer |
| `stream` | Bounded ring, no frame missed unknowingly, only the slow dropped, complete ends, no lost wakeup; the loops equal their closed form | Two readers, so that one can be slow and one fast; a limit of two and four frames, so that the ring is over its limit while a step's progress, its end and later frames compete; batches of one frame |
| `subscribe` | Does a client at its cursor show everything up to it, nested, with parts from the first? | Two runs, one of them followed or the agent (the scope is chosen initially); a lost connection and a restart; up to four frames per process, enough for a whole run with a part and one frame of another |
| `subscribe_live` | Does the client that follows learn the end? | One run, its five frames, a lost connection, a restart |
| `chores` | Are status, memory and heap right, does the thread survive, do runs and claims match, an occurrence executed once, a claim never dropped? | One chore (chores share nothing but the clock), two bodies, one-off and repeating schedules, edits, removals, crashes without limit; three moments, two runs: one is in flight while the next is due |
| `talk` | Is a message handled twice or skipped, a notice repeated, a handler left running? | Two hubs that both know the conversation; two entries read in a batch of up to two, so that a batch can grow between two reads; one late write; one restart |
| `talk_live` | Does the loop catch up, in every conversation, and does one that is stuck hold up another? | Two conversations, batches of one, one restart |
| `talk_replay` | Are messages ever admitted twice? (violated) | One late write |
| `export` | Does the hub show what `EventOutbox` promises, are exporter and follower in step with it, do repeated calls look like damage, is everything shown in the end? | Three events, the second of them progress; two processes; two faults and one late call, so that one fault meets the recovery from another; five generation ids, reused when nothing mentions them, so that a recovery never waits for one |
| `launch` | Is there one manager, is everything referred to and nothing left, can the next start always go on, is no living launch retired or robbed?  Do launches keep `LaunchContract`? | Two managers and a query, so that two decide about a third that is dead; two launches, so that an old one's server, helper and evidence meet a new one; two of managers and containers are killed |

Type invariants are stated for each state machine and checked by
`run_controls` (`RunControls`) and by proof (all; of `EventExport` with numbers
in place of the bounds of its counters); the other runs spend their time on the properties that could be wrong.

Deadlock is checked in `chores`, where the world never stops.  In the others
the system really may stop: the run has ended, the consumer is done, the frames
the bound allows are published, the last launch is over or its manager was
killed.

Symmetry is used in `stream` (readers), `subscribe` (runs) and `launch`
(managers) and never with liveness.  In `Subscriptions` the order in which two
trees of a replacement are sent is a `CHOOSE` (`TreeOrder`); since either order is reached from the initial states the
quotient only adds orders.

### Fairness

* `RunControls`: slices of the task that can go on, the monitor's poll and the
  queued interrupts happen (weak fairness), because the event loop runs what is
  ready.  Nothing makes models, tools, clients or the time limit act.
  `ControlIsAnswered` is conditional on `Answering`: models and tools answer,
  and the tool calls of one answer come to an end.
* `TalkLoop`: the loop's steps are weakly fair; a request made again and again
  is answered in the end (strong fairness), and so is an admission (the thread
  becomes free, handlers end).  Without it a hub that never answers keeps the
  loop retrying, as it should.
* `Subscriptions`: the server's coroutine runs and the client reconnects.
  Nothing is promised of the runs or of the network.
* `EventExport`: the heartbeat registers again, the lease of a dead process runs
  out, the exporter's coroutine goes on.  Faults are finitely many and nothing
  makes them happen; a follower need not read.
* `InstanceLaunch` states none: its questions are of safety, and the liveness of
  launching is not checked.

The wakeups of the stream need no fairness: `NoLostWakeup` is a state
invariant (a waiting reader with something to do has its event set or a `_wake`
on its way), from which delivery follows as soon as the loop runs its
callbacks.

## 4. Proofs

TLAPS checks, for every value of the constants that meets the modules'
assumptions (any number of controls, clients, readers, steps, any limit):

**`RunControlsProofs`**: `TypesHold`, `EndSettles`, `ClaimsWin`,
`NothingIsLost`, `SettledStaysSettled`, `DatabaseKeepsContract`.

`EndSettles` and `SettledStaysSettled` state two consequences of the contract
on their own, as the facts clients rely on; the runs check them through
`KeepsContract`.

None of the safety invariants is inductive alone.  `Inv` adds that revisions
never exceed the greatest one and that a claimed row is pending, applied or
closed with the run (`RowsInv`), that the run's row has ended exactly when the task is done
(`PhaseInv`), that a withdrawal a thread has still to deliver is in the
database (`ObservedInv`), and states the cursor's property for all the time
before the end (`CursorInv`): a refresh is harmless while a claimed row is
waiting because claiming issues no revision, and a late observation only adds
what is pending.  First come lemmas that say what each transaction does to a
row (`ClaimEffect`, `ApplyEffect`, `FinishEffect` ...), then type correctness
action by action, then `Inv` by the kind of transaction a step performs
(`QuietStep` for the steps that write none).  `Transaction` classifies every
step by what it does to the rows; `SettledIsFinal` and the refinement of
`ControlContract` (under `Contract`: `open` is "the run is active", `held` the
claimed rows) follow from it and `Inv`.

**`RunEndingProofs`**: `EndsForCause`, `NoCallOnceEnding`, and, under a
hypothesis each, `NoCallOnceStopped` and `CacheForgets`.

A second invariant, about the signals of the task, on top of `Inv`.  That a run
is canceled for a cause depends on where the `CancelledError` of an interrupt
may be met: `CauseInv` says what is collected, claimed and queued to interrupt
(`KindInv`), that a cancel is settled only by the end (`CancelsInv`), that a
task that was told to end is at a place from which it goes on only to its end
(`EndingInv`), which control the end will name (`ChosenInv`), and that, unless
somebody stopped the executor or withdrew a control, whatever cancels the task
is still there to be found when it looks (`WhyInv`).  `NoCallWhileEnding` is an
action property: each call starts at one of two places (`CallsStart`), and
`EndingInv` excludes both.  `NoCallOnceStopped` assumes
that every stop gives a reason (`FALSE \notin Stops`) and `CacheForgets` that no
client is a worker thread (`"thread" \notin Clients`); both are false without,
as section 5 says, and `run_controls_live` checks both under these same two
restrictions.

**`CanonicalStreamProofs`**: `StreamTypesHold`, `RingIsBounded`,
`EndsAreComplete`, `ReadersMissNothing`, `CompactionIsFinal`,
`OverflowIsEarned`, `WakeupsArrive`; as the properties the run checks,
`EveryReaderIsServed` (of `EndsAreComplete` and `WakeupsArrive`) and
`LossesAreEarned` (of the three in between); and `LoopsLeaveTheRing` with
`LoopsAgreeAlways`, about `_reclaim` itself.

The first part is about `EventRing` alone: the level where `_reclaim` stops
exists and is unique (`StopLevelFacts`), what it leaves fits (`ReclaimedFits`),
what it removes has been read by whoever stays (`RemovedIsRead`), what it
removes above the floor is progress of a finished step whose end stays
(`RemovedAboveFloor`), and whom it overflows had at least `Limit` unread frames
(`OverflowedIsSlow`).  `StreamInv` adds to the checked invariants that the ring
is finite, that a step's end follows its progress (`RingInv`), that positions
do not pass the tail (`PositionInv`), and that a reader is shut only when it is
complete or its consumer is cancelled (`ShutInv`).  For the wakeups, `WakeInv`
adds that an open reader of an open stream is connected, shut or overflowed
(`ConnectedInv`): that is what makes the notification of `connected` readers
reach everybody who waits.

`LoopsLeaveTheRing` says that the two `while` loops leave what `EventRing` names
on every finite ring (`RingFacts`), for any limit and number of readers.  The
turns of a loop are a function on `0 .. MaxTurns`; that what a turn keeps holds
after the last is induction over one set (`LoopEnds`), and that the loop has
then ended is that a turn which changes anything takes a frame or a reader away.
`Going` is the invariant of the first loop: the frames are what compaction at
the slowest reader's level leaves above the floor, the readers are the fast ones
of those that were there, and the level does not pass `StopLevel`; where the
loop stops, the level is `StopLevel` (`ConsumedStops`).  `Evicting` is that of
the second, which takes the oldest frames until the newest `Limit` are left.
`LoopsAgreeAlways` follows because what a publication extends is such a ring
(`AppendedRing`), and so are the calls that are looked at once.

**`ChoresProofs`**: `ChoresTypes`, `StatusHolds`, `MemoryHolds`, `ClaimsHold`,
`OccurrenceHolds`, and the action property `SettlingHolds`.

`ChoresInv` says that a row's status agrees with its columns and that its times
are of its schedule (`RowsInv`), that a claim and its run name each other
(`ClaimInv`), what the execution loop has done with a run whose waiter is told
something (`SubmissionInv`), which claims a recovering scheduler has still to
visit (`RecoverInv`), and that what was executed for a schedule is older than
the next occurrence and than the claim (`DueInv`, without which `OccurrenceOnce`
says nothing of the next claim).  The occurrences of a schedule are a subset of
the numbers, so the next one exists by well-founded induction (cited for one
set, not for an operator).  Every transaction gives a row that is sound,
carries its claim on and never sets the next occurrence back (`Carried`); the
proof of a step starts from one of the nine effects a step may have on rows,
runs and waiters.

**`TalkLoopProofs`**: `TalkTypes`, `OneHandlerHolds`, `NothingSkippedHolds`,
`NoticeHolds`.

`TalkInv` says what the loop holds at each await (`PhaseInv`), that its batch
starts where the cursor was when it was read and its receipt is that of the
handler it awaits (`BatchInv`), and, of the two sides no transaction spans: a
receipt starts at the cursor or is wholly behind it, but in conversations that a
late write has moved (`ReceiptsInv`); every position that may still be written,
from the loop's save or by a late request, passes only messages of runs that
have ended (`CoverInv`), and no receipt by half (`PendingInv`).  `CoverInv` has
to speak of the late writes as well as of the cursor, for they become the
cursor.

**`EventExportProofs`**, for `MaxLate <= 1`: `ContentHolds`, `StepHolds`,
`FinalHolds`, `NoRepairHolds`, `FollowerHolds`, and the invariant they rest on,
`ExportHolds`; `ExportKeepsOutbox`.

The hypothesis is the one the property needs: with two requests that outlive
their callers `ContentIsExact` is false (section 5).  `HubInv` is about a hub
record and a follower: the live table is the structure up to the source
whatever the status, a staged table the structure up to its own, the last
operation still describes the row, and a follower's view and the entries it has
yet to read are together, and without overlap, what the live table holds.
`LateInv` and `OwnInv` say what a late request may still ask for, as long as the
exporter is where it made it (`Own`) or once it has left (`Sound`); `StepInv` is
how far the hub is behind the exporter.  An operation is dealt with once, on a
hub record (`AppliedMoves`): every step that calls moves the hub first, with the
exporter where it is (`CallKeeps`, `LateKeeps`), and then moves the exporter
(`OnwardKeeps`, `FallKeeps`).

The refinement of `EventOutbox` (under `Outbox`) needs more: that nothing is
said to be written that was not emitted, and that a recovery the hub accepts
brings no less than what it replaces.  `LiveIsExact` makes what is shown a
function of the source (`LivesAreStructures`), so the second invariant, `PosInv`,
speaks of positions, status and epochs alone.  Once the agent is declared
incomplete for the exporter's recovery, only that recovery's table completes it
again: a late "recover" of an earlier one is not the one that is staged
(`LateReached`).  So nothing can extend or replace the live generation between
the snapshot and the commit, and the snapshot was read after all that it has
(`Reached`).  A late "recover" that replaces the live generation kept its own
position from the recovery that asked for it.  An operation shifts the row in
one of four ways (`Shifts`), of which one extends, one interrupts and one
replaces what is shown (`ShiftIsPromised`); every other step of the exporter,
the process and the follower leaves it (`AsidePromises`), and only `Reset` loses
it.  The contract says more than `ContentIsExact`, which the run checked before
and `ContentHolds` still proves: what a reader has been shown of a complete
agent is never taken back, except by the hub's loss of its data.

**`SubscriptionsProofs`**: `ViewHolds`, `EndHolds`, `PartsHold`,
`SubscriptionTypes`.

`ViewIsFaithful` relates the client's view to its cursor, and a checkpoint moves
the cursor over everything the server read and filtered, so the invariant speaks
of what is on its way.  `Known` is what the records say up to the reader's
position.  `ReachInv`: every fact of it that concerns the client is in the view
it has or is about to have (`Coming`), in the rest of the prefix, or in the rest
of the batch, and none of these tells a fact before what it is nested in.  So
when prefix and batch are empty the view is `Known`, and the cursor may be set
to the reader.  `PartsInv` says of a step that is not suppressed that exactly
the parts after the last one heard may still come.  Both need the stream and the
records: the ring holds every recorded fact, and every part of an open step,
above its floor (`FramesInv`), a fact has one cursor and a run's facts are in the
order of its life (`RecordsInv`, `OrderInv`).

One lemma per action follows.  Those of the process (`FactStepKeeps`,
`EmitKeeps`) add what is after the reader.  What the ring drops is one lemma
(`RingDropsKeeps`) with three ways to meet it; a frame it drops unread overflows
the reader, which ends what `PartsInv` has to say.  Of the frames, `SendPrefix`
and `Send` move the first of what is on its way into the view, which `RestKeeps`
and `BatchReach` account for.  The attachment has most to show: that the replay
has, in the order of the stream, every frame after the cursor and each Begin
before what needs it (`BurstHas`, `BurstBefore`, `ReplayFacts`), and a
replacement each tree whole (`StructureFacts`), with what the client keeps of
the other trees unchanged since its cursor (`ReplacementReaches`).  `InOrder`
gives both orders from the places of the frames; its facts (`InOrderFacts`) need
only cardinalities, no induction over sequences.

**`InstanceLaunchProofs`**: `LaunchTypes`, `OneManagerAtATime`,
`TerminalStays`; `ResourcesHold`, `NothingHolds`, `NeverStuckHolds`,
`RetiredIsDeadHolds`, `LiveKeepsClaimHolds`; `LaunchesKeepContract`.

`OneManager` is not inductive: nothing in it says why a second manager cannot
enter.  `Owned` adds that whoever is inside the operation is the owner recorded
in the entry, so that the guard of `Claim` (`Abandoned`: free, or the owner is
dead) means that nobody is inside, and that a manager that follows its server
has only the places of a follower, from which it stops and releases without
entering (`Proper`).  The first lemmas say what each writer makes of the entry
(`Amends`: the operation stays, and of the same launch what is over stays over,
`Final`) and where each kind of move leaves a manager (`Turns`: it does not
enter).  Then every action of a manager is one of these steps (`Steps`), those
of the server and the queries leave the managers alone (`Aside`), and taking
the operation, ending it and the end of "docker run", which moves managers that
wait for it, have proofs of their own.  `TerminalStays` needs no more than the
types beside `Final`.

The second invariant, `LaunchInv`, says what exists outside the entry at each
place of a manager.  Who launches does it in the generation that it began, with
nothing of another one there (`OwnLaunch`); once it has looked, or its "docker
run" has ended, no helper may yet create the container (`Calm`); what is
released is gone before its reference is (`Releases`); a follower's launch is
older than one that is being made, unless it is its own (`FollowersInv`); a
helper whose manager is not waiting for it means a dead manager
(`ResourcesInv`); and what a query read is of a launch that is not later than
the entry's and, if it says that the launch can be repaired, is settled or was
left by a manager that died (`QueryInv`: the exception of `RetiredIsDead`).
Most steps only take away (`Shrinks`) and move one manager between places
(`Goes`): that these keep the invariant is proved once.

The refinement of `LaunchContract` (under `Contract`: `Life` is what there is of
the entry's launch, `Said` what its phase says, `known` that it has a reference)
needs a third invariant, `SaidInv`: who prepares a launch has an entry that says
"preparing", and who releases, launches or begins with no reference left has one
that is over.  Then a step is one of three kinds.  `Quiet` ones tell nothing, and
what there is of the launch stays or ends; `Written` ones change what the entry
says (`Ended`, `Reported`, `Bound`, `Forgot`) and leave what there is; `Opened`,
`Asked` and `Came` are the steps by which a launch comes to be.  Every action is
put into its kind where its manager, the server or the query takes it
(`NextTells`), and each kind is a step of the contract or none (`QuietStep`,
`WrittenStep`, `LaunchStep`).  The contract says more than `TerminalIsFinal`,
which the run checked before and `TerminalStays` still proves: a server's late
report cannot bring back its launch, and the reference outlives the container and
the "docker run" that a killed manager may have left.

### Only model-checked

* Liveness (`InterruptsEndRun`, `ControlIsAnswered`, `EverythingIsHandled`,
  `FollowerLearnsTheEnd`, `EveryEventIsShown`): fairness and `ENABLED` are beyond
  the prover.

## 5. What the checks found

Two runs end in a violation, and `PROJECT.json` records them as findings.

* **`revoked_steer`**: a withdrawn immediate steer cancels the run.
  `interrupt()` claims a cancel but only re-reads a steer.  If the steer is
  withdrawn after it interrupted the task and before the task looks for it, no
  steer explains the `CancelledError` and the run ends as canceled, without a
  control (`executor.py:2410`).  `docs/design/execution.md:245` describes a
  revoked control as withdrawn *before* application, and
  `tests/integration/execution/test_multiprocess_scenarios.py:410` expects the
  run to succeed.
* **`talk_replay`**: messages can be admitted twice.  A cursor write that timed
  out and is applied late may leave the cursor inside an admitted range, where
  the lookup by the exact position (`driver/talk.py:117`) finds no receipt.
  `docs/design/messaging.md:304` says a restart does not replay effects.
  `HandledOnce` states the property for conversations no late write has moved.

Smaller differences between text and code, without a run of their own:

* A worker thread that commits, is overtaken by the owner's claim and then
  delivers its record leaves a settled control in the cache
  (`executor.py:1031`; `execution.md:268`).  Hence `CacheForgetsSettled` is
  checked without threads, and no property claims to cover that hazard.
* The fallback for an unstarted run names a cancel that it has not claimed
  (`executor.py:1157`; `execution.md:275`): another process may withdraw it
  before the transaction, which then leaves the row revoked and still names it.
* `stop()` without a reason writes no cancel, and a pending immediate steer
  takes its `CancelledError` (`executor.py:1085`), hence `NoCallAfterStop` is
  about stops with a reason.
* A run cancelled before it began publishes an end without a begin
  (`executor.py:2403`; `docs/design/events.md:40`); `remote.py:643` rejects it.
* A waiting chore whose schedule is edited to one without occurrences to come
  is shown as done although it never ran (`driver/chore/store.py:474`;
  `docs/design/chores.md:14`), hence `StatusAgrees` says what "pending" and
  "running" mean, not "done".
* A handler that is cancelled in the instant its run ends gets a failure reply
  for what may have succeeded (`driver/talk.py:282`), and an error of the last
  save takes the place of the cancellation (`driver/talk.py:204`).
* An exporter with nothing to publish asks the hub for its lease and epoch only
  (`teaming/exporter.py:366`).  If a late copy of its own "incomplete" is taken
  after the recovery it began, the agent is shown as incomplete until its next
  event; hence `Belied` in `EveryEventIsShown`.  With two late calls
  (`MaxLate = 2`) `ContentIsExact` fails: a late "incomplete" and a late stage
  replace the live table, a late "recover" sets its position back.  Both calls
  must then outlive the fifteen seconds of their caller.
* A manager killed between making the bootstrap directory and writing its
  `info.json` leaves a directory whose launch cannot be read, and so may a
  removal that an error or a kill cuts short (`_guest.py:143`), which a failed
  preparation tries too and whose errors it ignores (`sandbox.py:296`).
  `remove_stage_directory` keeps it without a word (`_guest.py:115`), the
  reference is cleared, and every later start ends with "unreferenced sandbox
  staging requires manual cleanup"; hence the exception in `NeverStuck`.
* A query that looks before the container exists, and whose launching manager is
  then killed before it binds it, marks a booting launch as stopped and may
  take the claim of its live server, even when another manager has taken over
  (`up/registry.py:338`, `up/instance.py:374`); hence `Orphaned` in
  `RetiredIsDead` and `LiveKeepsClaim`.
* A waiting manager looks at a server's container once (`up/instance.py:420`).
  If the container lived then and the server dies later with the claim in its
  hands, that manager waits until another process takes the lock.
* A start or a stop that cannot remove a dead container leaves the phase at
  "running", which no query repairs while another manager owns the operation.

## 6. Plan

Done: `RunControls` with its contract, the stream, subscriptions, chores, talk,
the export to the hub with its follower, the launch of an agent with its status
entry; proofs of the safety of all of them.

Next, in this order:

1. **`ThreadHistory`** (`execution/threads.py` 116-186): fork and rewind
   against accepted runs; the head check in the transaction.
2. **Child runs**: the boundary lock between siblings, added to `RunControls` or
   beside it.
3. **Server lifetime** (`up/`): election of the idle exit, cleanup order, the
   closing deadline.
4. **State watcher** (`state/watcher.py` 229-427).

### Not modelled

The language, catalog, statistics, command line, plugins and shared values,
whose code is conversions of data in one thread; flow evaluation, compaction,
recall, assembly and the inspection of records, which are functions of recorded
values; the HTTP interface beyond its streams, which checks and converts; agents
that run on the host instead of in a container, whose recovery compares command
lines.  These are most of the lines of the repository and hold little order to
get wrong, which is why the models cover few of its lines.

## 7. Running it

`tlc -workers 2 -config run_controls.cfg MCRunControls` checks a run (each takes
three minutes or less; the module is in `PROJECT.json`), `tlapm RunControlsProofs.tla`
a proof module.
