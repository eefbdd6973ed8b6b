---- MODULE TalkLoop ----
(***************************************************************************)
(* Talk: an agent's loop over the conversations of a hub.                  *)
(*                                                                         *)
(* The hub keeps, per conversation, a stream of messages and, per agent,   *)
(* how far the agent has handled it (the talk cursor).  The loop           *)
(* (driver/talk.py) reads a batch after the cursor, has one run handle it, *)
(* and then writes the cursor.  The run and the range of its batch are     *)
(* committed together in the agent's own database (execution/talk.py), the *)
(* cursor is written to the hub in a request that may fail, be applied     *)
(* without an answer, or arrive late: no transaction spans the two.        *)
(*                                                                         *)
(* Grain.  What the loop does between two awaits is one step, a request    *)
(* and the use of its answer too.  Request failures are of two kinds: the  *)
(* transport's (BackendUnavailable, or the time-out of the save), and the  *)
(* others (a lease that has expired).  A poll that fails in its first      *)
(* request changes nothing and is left out.  A stream entry is "incoming", *)
(* or "own", which stands for every entry no run handles: the agent's own, *)
(* failure replies, malformed ones.  Entries are not trimmed.              *)
(***************************************************************************)
EXTENDS Integers, Sequences, FiniteSetsExt

CONSTANTS
    Hubs,           \* the backends the agent may be connected to
    Conversations,  \* ids, numbered as they sort
    BatchSize,      \* entries read at a time, _CONTEXT
    MaxEntries,     \* bound: entries of all streams together
    MaxLate,        \* bound: cursor writes on their way at one time
    MaxRestarts     \* bound: the process ends and is started again

ASSUME ConstantsAssumption ==
    /\ Conversations \subseteq Nat \ {0}
    /\ BatchSize \in Nat \ {0}
    /\ MaxEntries \in Nat /\ MaxLate \in Nat /\ MaxRestarts \in Nat
    /\ "none" \notin Hubs

VARIABLES
    entries,    \* the streams, per scope
    member,     \* the agent belongs to the conversation
    cursor,     \* the talk cursors
    late,       \* cursor writes the loop gave up on, still on their way
    strayed,    \* history: scopes whose cursor such a write has moved
    hub,        \* the connected backend
    receipts,   \* the table talk_batches, by scope and after, with its run
    bound,      \* the hub a conversation's thread is bound to
    at,         \* what the loop awaits
    identity, pending, last,  \* MessagingLoop's fields
    left,       \* conversations this poll has not looked at
    batch,      \* the batch in hand
    signal,     \* the consumer's cancellation
    restarts

hubSide == <<entries, member, cursor, late, strayed>>
progress == <<identity, pending, last, left, batch>>
vars == <<hubSide, hub, receipts, bound, at, progress, signal, restarts>>

Scopes == Hubs \X Conversations
Positions == 0..MaxEntries
NoPending == <<0, 0>>
NoBatch == [conversation |-> 0, after |-> 0, through |-> 0]

Ended == {"succeeded", "failed", "canceled"}
\* "orphaned": pending or running in the table, of a process that is gone.
Receipt == [through : Positions, status : {"none", "active", "orphaned"} \cup Ended,
            notice : BOOLEAN, sent : Nat]
NoReceipt == [through |-> 0, status |-> "none", notice |-> FALSE, sent |-> 0]

Scope(c) == <<identity, c>>
Here == Scope(batch.conversation)
Current == receipts[Here][batch.after]

\* consume() goes on until the event is set.
Stopping == signal # "none"

\* The order of a poll: round robin after the last conversation handled.
FirstByName(c) == c \in left /\ \A d \in left : c <= d
First(c) ==
    /\ c \in left
    /\ \A d \in left : \/ c > last /\ d <= last
                       \/ c <= d /\ (c > last <=> d > last)

(***************************************************************************)
(* The hub.                                                                *)
(***************************************************************************)

Accepts(s, x) == member[s] /\ cursor[s] <= x /\ x <= Len(entries[s])

\* (The first conjunct follows from the second one.)
Post(s, kind) ==
    /\ Len(entries[s]) < MaxEntries
    /\ MapThenSumSet(LAMBDA t : Len(entries[t]), Scopes) < MaxEntries
    /\ entries' = [entries EXCEPT ![s] = Append(@, kind)]
    /\ UNCHANGED <<member, cursor, late, strayed>>

Membership(s) ==
    /\ member' = [member EXCEPT ![s] = ~@]
    /\ UNCHANGED <<entries, cursor, late, strayed>>

LateWrite(s, x) ==
    /\ <<s, x>> \in late
    /\ late' = late \ {<<s, x>>}
    /\ cursor' = IF Accepts(s, x) THEN [cursor EXCEPT ![s] = x] ELSE cursor
    /\ strayed' = IF cursor' = cursor THEN strayed ELSE strayed \cup {s}
    /\ UNCHANGED <<entries, member>>

\* A write whose answer the loop does not get: lost, applied, or on its way.
Unanswered(s, x) ==
    /\ \/ UNCHANGED <<cursor, late>>
       \/ Accepts(s, x) /\ cursor' = [cursor EXCEPT ![s] = x] /\ UNCHANGED late
       \/ /\ Cardinality(late) < MaxLate
          /\ late' = late \cup {<<s, x>>} /\ UNCHANGED cursor
    /\ UNCHANGED <<entries, member, strayed>>

\* The failure reply, a request of which the stream may show nothing.
ReplySent ==
    /\ receipts' = [receipts EXCEPT ![Here][batch.after].sent = @ + 1]
    /\ \/ UNCHANGED hubSide
       \/ member[Here] /\ Post(Here, "own")

(***************************************************************************)
(* The end of a batch.                                                     *)
(***************************************************************************)

\* consume() polls again, unless a cancellation is on its way up.
Return == /\ at' = IF signal \in {"cancelled", "raised"} THEN "done" ELSE "wait"
          /\ left' = {} /\ batch' = NoBatch

\* The finally clause of _poll, for a batch whose run has ended or that
\* needed none: save its end.
SaveFirst(b) == pending' = <<b.conversation, b.after + 1>> /\ at' = "final"
Save(b) == pending' = <<b.conversation, b.through>> /\ at' = "final"

\* The run of b has ended.  A failure is reported once per batch.
ReportedNever(receipt) == receipt
Reported(receipt) == [receipt EXCEPT !.notice = TRUE]
Fail(b) ==
    IF receipts[Scope(b.conversation)][b.after].notice
    THEN Save(b) /\ UNCHANGED receipts
    ELSE /\ receipts' = [receipts EXCEPT ![Scope(b.conversation)][b.after] = Reported(@)]
         /\ at' = "replying" /\ UNCHANGED pending
Conclude(b) ==
    IF receipts[Scope(b.conversation)][b.after].status = "succeeded"
    THEN Save(b) /\ UNCHANGED receipts
    ELSE Fail(b)

(***************************************************************************)
(* A poll.                                                                 *)
(***************************************************************************)

\* Progress made with one backend says nothing about another.
KeptAcross == pending
Kept == IF hub = identity THEN pending ELSE NoPending

Poll ==
    /\ at = "wait" /\ ~Stopping
    /\ identity' = hub
    /\ pending' = Kept
    /\ last' = IF hub = identity THEN last ELSE 0
    /\ \/ /\ pending' # NoPending
          /\ at' = "checking" /\ left' = {}
       \/ /\ pending' = NoPending
          /\ left' = {c \in Conversations : member[<<hub, c>>]}
          /\ at' = IF left' = {} THEN "wait" ELSE "cursor"
    /\ UNCHANGED <<hubSide, hub, receipts, bound, batch, signal, restarts>>

\* _save_cursor(reconcile=True): a pending position that the hub has, or that
\* a conversation left behind, is dropped.
Confirm ==
    LET s == Scope(pending[1]) IN
    /\ at = "checking"
    /\ IF member[s] /\ cursor[s] < pending[2]
       THEN at' = "writing" /\ UNCHANGED pending
       ELSE at' = "wait" /\ pending' = NoPending
    /\ UNCHANGED <<hubSide, hub, receipts, bound, identity, last, left, batch, signal, restarts>>

Skip == /\ left' = left \ {CHOOSE c \in left : First(c)}
        /\ at' = IF left' = {} THEN "wait" ELSE "cursor"
        /\ batch' = NoBatch

\* read(after, count): the end of the batch.
Through(s, after) ==
    IF Len(entries[s]) < after + BatchSize THEN Len(entries[s]) ELSE after + BatchSize

Recovered(c, after) == receipts[Scope(c)][after].through

ReadCursor(c) ==
    LET s == Scope(c)
        after == cursor[s]
        known == receipts[s][after].status
        b == [conversation |-> c, after |-> after, through |-> Recovered(c, after)]
    IN
    /\ at = "cursor" /\ First(c)
    /\ \/ /\ ~member[s]
          /\ Skip /\ UNCHANGED <<receipts, pending, last>>
       \/ /\ member[s] /\ known = "none"
          /\ at' = "reading" /\ batch' = [b EXCEPT !.through = after]
          /\ UNCHANGED <<receipts, pending, last, left>>
       \/ /\ member[s] /\ known \in {"active", "orphaned"}
          /\ last' = c
          /\ Return /\ UNCHANGED <<receipts, pending>>
       \/ /\ member[s] /\ known \in Ended
          /\ last' = c /\ left' = {} /\ batch' = b
          /\ Conclude(b)
    /\ UNCHANGED <<hubSide, hub, bound, identity, signal, restarts>>

Incoming(s, after, through) == \E i \in after + 1..through : entries[s][i] = "incoming"

ReadEntries ==
    LET through == Through(Here, batch.after) IN
    /\ at = "reading"
    /\ \/ /\ ~member[Here] \/ through <= batch.after
          /\ Skip /\ UNCHANGED <<pending, last>>
       \/ /\ member[Here] /\ through > batch.after
          /\ last' = batch.conversation /\ left' = {}
          /\ batch' = [batch EXCEPT !.through = through]
          /\ IF Incoming(Here, batch.after, through)
             THEN at' = "rules" /\ UNCHANGED pending
             ELSE Save(batch')
    /\ UNCHANGED <<hubSide, hub, receipts, bound, identity, signal, restarts>>

\* Any of these requests may fail, which ends the poll.
ReadFails ==
    /\ at \in {"checking", "cursor", "reading"}
    /\ Return
    /\ UNCHANGED <<hubSide, hub, receipts, bound, identity, pending, last, signal, restarts>>

\* ensure_talk: a conversation's thread belongs to one hub.
Bindable == bound[batch.conversation] \in {"none", identity}
Bind == bound' = [bound EXCEPT ![batch.conversation] = identity]

\* require_idle_thread: a run of this thread is not over.
Busy == \E a \in Positions : receipts[Here][a].status \in {"active", "orphaned"}

\* accept_run commits the run and the receipt of its batch.
Admit ==
    /\ at = "rules"
    /\ Bindable /\ ~Busy
    /\ Bind
    /\ receipts' = [receipts EXCEPT ![Here][batch.after] =
                       [NoReceipt EXCEPT !.through = batch.through, !.status = "active"]]
    /\ at' = "handling"
    /\ UNCHANGED <<hubSide, hub, progress, signal, restarts>>

\* The rules, the thread or the admission fail: nothing is kept but the binding.
Refuse ==
    /\ at = "rules"
    /\ \/ UNCHANGED bound
       \/ Bindable /\ Bind
    /\ Return
    /\ UNCHANGED <<hubSide, hub, receipts, identity, pending, last, signal, restarts>>

\* await handle.  A cancellation is raised again once the run has ended.
HandlerReturns ==
    /\ at = "handling" /\ Current.status \in Ended
    /\ IF signal = "cancelled" THEN Save(batch) /\ UNCHANGED receipts
                               ELSE Conclude(batch)
    /\ UNCHANGED <<hubSide, hub, bound, identity, last, left, batch, signal, restarts>>

Reply ==
    /\ at = "replying"
    /\ ReplySent
    /\ Save(batch)
    /\ UNCHANGED <<hub, bound, identity, last, left, batch, signal, restarts>>

(***************************************************************************)
(* The cursor write, at the end of a batch or after a reconciliation.      *)
(***************************************************************************)
Target == Scope(pending[1])

WriteConfirmed ==
    /\ at \in {"writing", "final"} /\ Accepts(Target, pending[2])
    /\ cursor' = [cursor EXCEPT ![Target] = pending[2]]
    /\ pending' = NoPending
    /\ Return
    /\ UNCHANGED <<entries, member, late, strayed, hub, receipts, bound, identity, last, signal, restarts>>

\* Departure after handling must not block the other conversations.
WriteDenied ==
    /\ at \in {"writing", "final"} /\ ~member[Target]
    /\ pending' = NoPending
    /\ Return
    /\ UNCHANGED <<hubSide, hub, receipts, bound, identity, last, signal, restarts>>

WriteUnanswered ==
    /\ at \in {"writing", "final"}
    /\ Unanswered(Target, pending[2])
    /\ Return
    /\ UNCHANGED <<hub, receipts, bound, identity, pending, last, signal, restarts>>

\* Any other error is raised unless the batch was cancelled, in the place of
\* a cancellation that arrived during the failure reply.
WriteRefused ==
    /\ at \in {"writing", "final"}
    /\ IF signal = "raised"
       THEN signal' = "swallowed" /\ at' = "wait" /\ left' = {} /\ batch' = NoBatch
       ELSE Return /\ UNCHANGED signal
    /\ UNCHANGED <<hubSide, hub, receipts, bound, identity, pending, last, restarts>>

(***************************************************************************)
(* stop_messages: the event is set and the consumer is cancelled.  A write *)
(* it abandons is a WriteUnanswered just before.                           *)
(***************************************************************************)
Leave == at' = "done" /\ left' = {} /\ batch' = NoBatch /\ UNCHANGED pending

\* A handler under way is cancelled, and awaited.
CancelHandler == UNCHANGED <<at, pending, left, batch>>

Stop ==
    /\ signal = "none" /\ at # "done"
    /\ \/ /\ at \notin {"handling", "replying"}
          /\ signal' = "cancelled" /\ Leave /\ UNCHANGED <<hubSide, receipts>>
       \/ /\ at = "handling" /\ Current.status = "active"
          /\ signal' = "cancelled"
          /\ CancelHandler /\ UNCHANGED <<hubSide, receipts>>
       \* The run is over and cannot be cancelled: a failure like any other.
       \/ /\ at = "handling" /\ Current.status \in Ended
          /\ signal' = "swallowed"
          /\ Fail(batch) /\ UNCHANGED <<hubSide, left, batch>>
       \/ /\ at = "replying"
          /\ signal' = "raised"
          /\ ReplySent /\ Save(batch) /\ UNCHANGED <<left, batch>>
    /\ UNCHANGED <<hub, bound, identity, last, restarts>>

\* A consumer that goes on sees the event.
Quit ==
    /\ at = "wait" /\ Stopping
    /\ Leave
    /\ UNCHANGED <<hubSide, hub, receipts, bound, identity, last, signal, restarts>>

(***************************************************************************)
(* The rest of the world.                                                  *)
(***************************************************************************)
RunEnds(s, a, status) ==
    /\ receipts[s][a].status = "active"
    /\ receipts' = [receipts EXCEPT ![s][a].status = status]
    /\ UNCHANGED <<hubSide, hub, bound, at, progress, signal, restarts>>

Switch(h) ==
    /\ h # hub /\ hub' = h
    /\ UNCHANGED <<hubSide, receipts, bound, at, progress, signal, restarts>>

Hub ==
    /\ \E s \in Scopes :
          \/ \E kind \in {"incoming", "own"} : Post(s, kind)
          \/ Membership(s)
          \/ \E x \in Positions : LateWrite(s, x)
    /\ UNCHANGED <<hub, receipts, bound, at, progress, signal, restarts>>

\* The process ends, however it does, and is started again.  Nothing repairs
\* the runs it leaves.  A request under way is one that ended just before.
Orphaned(receipt) == IF receipt.status = "active"
                     THEN [receipt EXCEPT !.status = "orphaned"] ELSE receipt
Restart ==
    /\ restarts < MaxRestarts /\ restarts' = restarts + 1
    /\ receipts' = [s \in Scopes |-> [a \in Positions |-> Orphaned(receipts[s][a])]]
    /\ at' = "wait" /\ signal' = "none"
    /\ identity' = "none" /\ pending' = NoPending /\ last' = 0
    /\ left' = {} /\ batch' = NoBatch
    /\ UNCHANGED <<hubSide, hub, bound>>

Init ==
    /\ entries = [s \in Scopes |-> <<>>] /\ member = [s \in Scopes |-> TRUE]
    /\ cursor = [s \in Scopes |-> 0] /\ late = {} /\ strayed = {}
    /\ hub \in Hubs
    /\ receipts = [s \in Scopes |-> [a \in Positions |-> NoReceipt]]
    /\ bound = [c \in Conversations |-> "none"]
    /\ at = "wait" /\ signal = "none" /\ restarts = 0
    /\ identity = "none" /\ pending = NoPending /\ last = 0
    /\ left = {} /\ batch = NoBatch

Consume ==
    \/ Poll \/ Confirm \/ ReadEntries \/ ReadFails
    \/ \E c \in Conversations : ReadCursor(c)
    \/ Admit \/ Refuse \/ HandlerReturns \/ Reply
    \/ WriteConfirmed \/ WriteDenied \/ WriteUnanswered \/ WriteRefused
    \/ Quit

Next ==
    \/ Consume \/ Stop \/ Hub \/ Restart
    \/ \E s \in Scopes, a \in Positions, status \in Ended : RunEnds(s, a, status)
    \/ \E h \in Hubs : Switch(h)

Spec == Init /\ [][Next]_vars

(***************************************************************************)
(* Fairness.  The loop goes on, the event loop sees to that: wherever it   *)
(* is, only steps of one kind are enabled.  The hub may fail, but a        *)
(* request made again and again is answered in the end.  A handler ends,   *)
(* and the thread is free, in the end.                                     *)
(***************************************************************************)
Fairness ==
    /\ WF_vars(Consume)
    /\ WF_vars(\E s \in Scopes, a \in Positions, status \in Ended : RunEnds(s, a, status))
    /\ SF_vars(Confirm) /\ SF_vars(WriteConfirmed) /\ SF_vars(Admit)
    /\ \A s \in Scopes : SF_vars(Here = s /\ ReadEntries)
    /\ \A c \in Conversations : SF_vars(ReadCursor(c))
FairSpec == Spec /\ Fairness

(***************************************************************************)
(* Properties.                                                             *)
(***************************************************************************)

\* Every variable has its type, and the loop holds a batch exactly where the
\* code has one in hand.
TypeOK ==
    /\ \A s \in Scopes : /\ entries[s] \in Seq({"incoming", "own"})
                         /\ Len(entries[s]) <= MaxEntries
                         /\ cursor[s] \in 0..Len(entries[s])
    /\ member \in [Scopes -> BOOLEAN]
    /\ late \subseteq Scopes \X Positions /\ Cardinality(late) <= MaxLate
    /\ strayed \subseteq Scopes
    /\ hub \in Hubs /\ identity \in Hubs \cup {"none"}
    /\ receipts \in [Scopes -> [Positions -> Receipt]]
    /\ bound \in [Conversations -> Hubs \cup {"none"}]
    /\ at \in {"wait", "checking", "writing", "cursor", "reading", "rules",
               "handling", "replying", "final", "done"}
    /\ pending \in {NoPending} \cup Conversations \X Positions
    /\ last \in {0} \cup Conversations /\ left \subseteq Conversations
    /\ batch = NoBatch <=> at \in {"wait", "checking", "writing", "cursor", "done"}
    /\ signal \in {"none", "cancelled", "raised", "swallowed"}
    /\ restarts \in 0..MaxRestarts

\* No message is handed to two runs: the ranges committed with the runs of a
\* conversation do not overlap, whatever was lost or restarted, as long as no
\* cursor write arrives after the loop gave up on it: such a one may leave the
\* cursor inside a range, where no receipt is found.  (Each range is committed
\* by accept_run, execution/talk.py.)
Handed(s, a) == a + 1..receipts[s][a].through
HandledOnce ==
    \A s \in Scopes \ strayed : \A a, b \in Positions :
        a # b /\ receipts[s][a].status # "none" /\ receipts[s][b].status # "none"
        => Handed(s, a) \cap Handed(s, b) = {}

\* The same without the exception, as messaging.md states it.
HandledOnceAlways ==
    \A s \in Scopes : \A a, b \in Positions :
        a # b /\ receipts[s][a].status # "none" /\ receipts[s][b].status # "none"
        => Handed(s, a) \cap Handed(s, b) = {}

\* The cursor passes no message that is not in the range of a run that has
\* ended: failed requests, busy threads, crashes and changes of backend keep
\* the message for a later poll, and a run that is not over holds the cursor.
NothingSkipped ==
    \A s \in Scopes : \A i \in 1..cursor[s] :
        entries[s][i] = "incoming"
        => \E a \in Positions : i \in Handed(s, a) /\ receipts[s][a].status \in Ended

\* The failure of a batch is reported in at most one request, across restarts
\* and repeated saves too.
NoticeAtMostOnce ==
    \A s \in Scopes, a \in Positions : receipts[s][a].sent <= 1

\* At most one run handles messages at a time, the one the loop awaits: the
\* loop does not end, or go on, while its handler runs.
HandlersAreAwaited ==
    \A s \in Scopes, a \in Positions :
        receipts[s][a].status = "active"
        => at = "handling" /\ s = Here /\ a = batch.after

\* A message is the business of one run, and of one that the loop awaits.
OneHandler == HandledOnce /\ HandlersAreAwaited

\* While the agent is connected, a member, and not stopping, the loop catches up
\* with every conversation (the posts are bounded, so it does so for good); one
\* whose run a dead process left waits, and no other waits for it.
Hindered(s) ==
    \/ hub # s[1] \/ ~member[s] \/ signal # "none"
    \/ bound[s[2]] \notin {"none", s[1]}
    \/ \E a \in Positions : receipts[s][a].status = "orphaned"
EverythingIsHandled ==
    \A s \in Scopes :
        cursor[s] < Len(entries[s]) ~> cursor[s] = Len(entries[s]) \/ Hindered(s)

====
