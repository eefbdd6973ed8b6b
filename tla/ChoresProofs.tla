---- MODULE ChoresProofs ----
(***************************************************************************)
(* Proofs about Chores, for any chores, bodies, schedules and number of    *)
(* runs.  First the schedules, then what each transaction does to a row,   *)
(* then the inductive invariant: what a row says of its claim and of its   *)
(* schedule, and what the rows, the runs and the waiters say of each other *)
(* wherever the process may die.                                           *)
(***************************************************************************)
EXTENDS Chores, WellFoundedInduction, TLAPS


----------------------------------------------------------------------------

\* The status of a row says what its columns say.
RowAgrees(row) ==
    /\ row.status = "running" <=> row.active # NoRun
    /\ row.status = "pending" <=> row.active = NoRun /\ Waits(row)

\* A request has a trigger.  The next occurrence of a row is one of its schedule, and so is the one a
\* run was claimed for, unless it is older than the schedule.  A claim was
\* made for a moment that had come.
RequestTimed(row) == row.pending # NoTime => row.pendingTrigger \in Requested
NextTimed(row) ==
    row.next # NoTime =>
        row.anchor # NoTime /\ row.next \in Occurrences(row.schedule, row.anchor)
ClaimTimed(row) ==
    row.active # NoRun =>
        /\ row.activeDue # NoTime /\ row.activeDue <= now
        /\ row.activeTrigger \in Requested \cup {"schedule"}
        /\ row.activeTrigger = "schedule" /\ row.next # NoTime => row.activeDue < row.next
        /\ row.activeTrigger = "schedule" /\ row.anchor # NoTime /\ row.anchor < row.activeDue
            => row.activeDue \in Occurrences(row.schedule, row.anchor)
RowTimed(row) == RequestTimed(row) /\ NextTimed(row) /\ ClaimTimed(row)

RowsInv == \A name \in Names : RowAgrees(rows[name]) /\ RowTimed(rows[name])

\* A claim and the run it was made with know each other.
ClaimInv ==
    \A name \in Names : rows[name].active # NoRun =>
        LET run == runs[rows[name].active] IN
        /\ run.status # "unissued" /\ run.name = name
        /\ run.trigger = rows[name].activeTrigger /\ run.due = rows[name].activeDue

\* A run that the scheduler waits for is claimed; the execution loop has done
\* with it what the waiter is told.
SubmissionInv ==
    \A r \in Runs : submission[r] # "none" =>
        /\ scheduler \in {"serving", "draining"}
        /\ rows[runs[r].name].active = r
        /\ submission[r] = "queued" => runs[r].status = "issued"
        /\ submission[r] = "waiting" => runs[r].status \in {"active"} \cup Ended
        /\ submission[r] = "backoff" => runs[r].status = "issued"
        /\ submission[r] = "refused" => runs[r].status \in {"issued", "failed"}

\* While it recovers, the scheduler still has to visit every claim but those
\* it has seen and left to a run that may have been cut off.
RecoverInv ==
    scheduler = "recovering" =>
        \A name \in Names :
            /\ name \in recovering => rows[name].active # NoRun
            /\ name \notin recovering /\ rows[name].active # NoRun =>
                    runs[rows[name].active].status = "active"

\* What has been executed for a schedule is over when the next occurrence
\* comes, and came before the one that is claimed.
Executed(r, name) ==
    runs[r].name = name /\ runs[r].trigger = "schedule" /\ runs[r].status \in {"active"} \cup Ended
DueInv ==
    \A name \in Names : \A r \in Runs : Executed(r, name) =>
        /\ runs[r].due # NoTime /\ runs[r].due <= now
        /\ rows[name].next # NoTime => runs[r].due < rows[name].next
        /\ rows[name].active # NoRun /\ rows[name].activeTrigger = "schedule" /\ rows[name].active # r
            => runs[r].due < rows[name].activeDue

MemoryInv ==
    scheduler \in {"recovering", "serving"} =>
        /\ records = rows
        /\ \A name \in Names : queued[name] = Entry(rows[name], known[name])
        /\ \A name \in Names : known[name] # NoDefinition =>
                /\ rows[name].body = known[name].body
                /\ rows[name].schedule = known[name].schedule

ChoresInv ==
    /\ TypeOK /\ RowsInv /\ ClaimInv /\ SubmissionInv /\ RecoverInv
    /\ DueInv /\ MemoryInv /\ ClaimsMatchRuns /\ OccurrenceOnce

----------------------------------------------------------------------------

\* Sets of moments have a first one, and a last one if they are bounded.
LEMMA Least ==
    ASSUME NEW T \in SUBSET Nat, T # {}
    PROVE  \E x \in T : \A y \in T : x <= y
<1> DEFINE R == OpToRel(<, Nat)
<1>1. IsWellFoundedOn(R, Nat)
  BY NatLessThanWellFounded
<1>2. \A x, y \in Nat : x < y => <<x, y>> \in R
  BY DEF OpToRel
<1> HIDE DEF R
<1>3. PICK x \in T : \A y \in T : ~ (<<y, x>> \in R)
  BY <1>1, WFMin
<1>4. \A y \in T : ~(y < x)
  BY <1>2, <1>3
<1> QED BY <1>4

\* The last of a bounded set.
LEMMA Greatest ==
    ASSUME NEW T \in SUBSET Nat, T # {}, NEW n \in Nat, \A x \in T : x <= n
    PROVE  \E x \in T : \A y \in T : y <= x
<1> DEFINE U == {n - x : x \in T}
<1>1. U \in SUBSET Nat
  OBVIOUS
<1>2. PICK u \in U : \A v \in U : u <= v
  <2>1. U # {}
    OBVIOUS
  <2> HIDE DEF U
  <2> QED BY <1>1, <2>1, Least
<1> QED BY <1>2

\* rule.after: an occurrence later than t, if there is one.
LEMMA AfterFacts ==
    ASSUME NEW schedule \in SUBSET Nat, NEW anchor \in Nat, NEW t \in Moments
    PROVE  /\ After(schedule, anchor, t) \in Moments
           /\ After(schedule, anchor, t) # NoTime =>
                /\ After(schedule, anchor, t) \in Occurrences(schedule, anchor)
                /\ After(schedule, anchor, t) \in Nat
                /\ After(schedule, anchor, t) > t
           /\ After(Once, anchor, t) = NoTime
<1> DEFINE later == {o \in Occurrences(schedule, anchor) : o > t}
<1>1. Occurrences(schedule, anchor) \in SUBSET Nat
  BY DEF Occurrences
<1>2. CASE later = {}
  BY <1>2 DEF After, Moments, Occurrences, Once
<1>3. CASE later # {}
  <2>1. \E o \in later : \A p \in later : o <= p
    <3>1. later \in SUBSET Nat
      BY <1>1
    <3> HIDE DEF later
    <3> QED BY <1>3, <3>1, Least
  <2>2. After(schedule, anchor, t) \in later
    BY <1>3, <2>1 DEF After
  <2> QED BY <1>1, <2>2 DEF Moments, NoTime, Occurrences, Once, After
<1> QED BY <1>2, <1>3

\* rule.before: the latest occurrence that has come, if any has.
LEMMA BeforeFacts ==
    ASSUME NEW schedule \in SUBSET Nat, NEW anchor \in Nat, NEW t \in Nat
    PROVE  /\ Before(schedule, anchor, t) # NoTime =>
                /\ Before(schedule, anchor, t) \in Occurrences(schedule, anchor)
                /\ Before(schedule, anchor, t) \in Nat
                /\ Before(schedule, anchor, t) <= t
           /\ \A o \in Occurrences(schedule, anchor) : o <= t =>
                /\ Before(schedule, anchor, t) # NoTime
                /\ o <= Before(schedule, anchor, t)
<1> DEFINE due == {o \in Occurrences(schedule, anchor) : o <= t}
<1>1. Occurrences(schedule, anchor) \in SUBSET Nat
  BY DEF Occurrences
<1>2. CASE due = {}
  BY <1>2 DEF Before
<1>3. CASE due # {}
  <2>1. \E o \in due : \A p \in due : p <= o
    <3>1. due \in SUBSET Nat /\ \A o \in due : o <= t
      BY <1>1
    <3> HIDE DEF due
    <3> QED BY <1>3, <3>1, Greatest
  <2>2. /\ Before(schedule, anchor, t) \in due
        /\ \A p \in due : p <= Before(schedule, anchor, t)
    BY <1>1, <1>3, <2>1 DEF Before
  <2> QED BY <1>1, <2>2 DEF NoTime
<1> QED BY <1>2, <1>3

USE ConstantsAssumption
USE DEF NoRun

----------------------------------------------------------------------------

\* A row of the table, as every transaction leaves it.
Sound(row) == row \in Row /\ RowAgrees(row) /\ RowTimed(row)

\* The columns of a claim, and what a transaction that leaves it alone may do
\* to the schedule: the next occurrence never goes back.
SameClaim(row, new) ==
    /\ new.active = row.active /\ new.activeTrigger = row.activeTrigger
    /\ new.activeDue = row.activeDue
Onward(row, new) ==
    new.next # NoTime => (new.next > now \/ (row.next # NoTime /\ row.next <= new.next))
Keeps(row, new) == SameClaim(row, new) /\ Onward(row, new)

\* The fields of a row.
LEMMA RowFields ==
    ASSUME NEW row \in Row
    PROVE  /\ row.status \in {"absent", "pending", "running", "done", "failed", "canceled"}
           /\ row.body \in Bodies /\ row.pending \in Moments
           /\ row.pendingTrigger \in Requested \cup {"none"}
           /\ row.active \in Runs \cup {NoRun}
           /\ row.activeTrigger \in Requested \cup {"schedule", "none"}
           /\ row.activeDue \in Moments /\ row.schedule \in SUBSET Nat
           /\ row.anchor \in Moments /\ row.next \in Moments
BY DEF Row

\* A row that no definition has had yet.
LEMMA NoRowFacts ==
    ASSUME now \in Nat
    PROVE  /\ Sound(NoRow) /\ NoRow.active = NoRun /\ NoRow.next = NoTime
           /\ NoRow.status = "absent" /\ NoRow.anchor = NoTime
<1>1. /\ NoRow.status = "absent" /\ NoRow.pending = NoTime /\ NoRow.pendingTrigger = "none"
      /\ NoRow.active = NoRun /\ NoRow.activeTrigger = "none" /\ NoRow.activeDue = NoTime
      /\ NoRow.anchor = NoTime /\ NoRow.next = NoTime
  BY DEF NoRow
<1>2. NoRow \in Row
  BY DEF NoRow, Row, Moments, NoTime, Once
<1> QED BY <1>1, <1>2 DEF Sound, RowAgrees, RowTimed, RequestTimed, NextTimed, ClaimTimed, Waits

\* _upsert_locked: a definition seen for the first time.
LEMMA InsertedRow ==
    ASSUME now \in Nat, NEW definition \in Definitions
    PROVE  LET new == Inserted(definition) IN
           /\ Sound(new) /\ new.active = NoRun
           /\ new.body = definition.body /\ new.schedule = definition.schedule
           /\ new.next # NoTime => new.next > now
<1> DEFINE s == definition.schedule
           next == After(s, now, now)
           new == Inserted(definition)
<1>1. s \in SUBSET Nat /\ definition.body \in Bodies
  BY DEF Definitions
<1>2. /\ next \in Moments /\ (s = Once => next = NoTime)
      /\ next # NoTime => next \in Occurrences(s, now) /\ next > now
  BY <1>1, AfterFacts DEF Moments
<1>3. now # NoTime /\ now \in Moments /\ NoTime \in Moments
  BY DEF NoTime, Moments
<1>4. /\ new.status = IF s = Once \/ next # NoTime THEN "pending" ELSE "done"
      /\ new.body = definition.body /\ new.schedule = s
      /\ new.pending = IF s = Once THEN now ELSE NoTime
      /\ new.pendingTrigger = IF s = Once THEN "source" ELSE "none"
      /\ new.anchor = IF s = Once THEN NoTime ELSE now
      /\ new.next = next /\ new.active = NoRun /\ new.activeTrigger = "none" /\ new.activeDue = NoTime
  BY DEF Inserted, NoRow
<1>5. new \in Row
  <2>1. NoRow \in Row
    BY NoRowFacts DEF Sound
  <2> HIDE DEF next, s
  <2> QED BY <1>1, <1>2, <1>3, <2>1 DEF Inserted, Row, Requested, next, s
<1> HIDE DEF next, s, new
<1>6. RowAgrees(new) /\ RowTimed(new)
  BY <1>2, <1>3, <1>4 DEF RowAgrees, RowTimed, RequestTimed, NextTimed, ClaimTimed, Waits, Requested
<1> QED BY <1>2, <1>4, <1>5, <1>6 DEF Sound, new, s

\* _upsert_locked: a definition that was edited, or not.  A new schedule
\* starts now; a claim stays.
LEMMA UpdatedRow ==
    ASSUME now \in Nat, NEW row, Sound(row), NEW definition \in Definitions
    PROVE  LET new == Updated(row, definition) IN
           /\ Sound(new) /\ Keeps(row, new)
           /\ new.body = definition.body /\ new.schedule = definition.schedule
           /\ new.status = "absent" => row.status = "absent"
<1> DEFINE s == definition.schedule
           next == After(s, now, now)
           edited == row.body # definition.body
           moved == row.schedule # s
           queues == edited /\ s = Once /\ row.pending = NoTime
           new == Updated(row, definition)
<1>1. s \in SUBSET Nat /\ definition.body \in Bodies
  BY DEF Definitions
<1>2. /\ next \in Moments /\ (s = Once => next = NoTime)
      /\ next # NoTime => next \in Occurrences(s, now) /\ next > now
  BY <1>1, AfterFacts DEF Moments
<1>3. now # NoTime /\ now \in Moments /\ NoTime \in Moments
  BY DEF NoTime, Moments
<1>4. row \in Row /\ RowAgrees(row) /\ RowTimed(row)
  BY DEF Sound
<1>5. /\ new.body = definition.body
      /\ new.schedule = IF moved THEN s ELSE row.schedule
      /\ new.anchor = IF moved THEN (IF s = Once THEN NoTime ELSE now) ELSE row.anchor
      /\ new.next = IF moved THEN next ELSE row.next
      /\ new.pending = IF queues THEN now ELSE row.pending
      /\ new.pendingTrigger = IF queues THEN "source" ELSE row.pendingTrigger
      /\ new.active = row.active /\ new.activeTrigger = row.activeTrigger
      /\ new.activeDue = row.activeDue
      /\ new.status =
            IF row.active # NoRun THEN row.status
            ELSE IF edited /\ s = Once THEN "pending"
            ELSE IF ~moved THEN row.status
            ELSE IF new.pending # NoTime \/ new.next # NoTime THEN "pending"
            ELSE IF row.status = "pending" THEN "done" ELSE row.status
      /\ new = [status |-> new.status, body |-> new.body, pending |-> new.pending,
                pendingTrigger |-> new.pendingTrigger, active |-> new.active,
                activeTrigger |-> new.activeTrigger, activeDue |-> new.activeDue,
                schedule |-> new.schedule, anchor |-> new.anchor, next |-> new.next]
  <2> DEFINE work == IF edited /\ s = Once THEN Queued(row, "source") ELSE row
             timed == IF moved THEN Rescheduled(work, definition) ELSE work
             status == IF row.active # NoRun THEN row.status
                       ELSE IF edited /\ s = Once THEN "pending"
                       ELSE IF ~moved THEN row.status
                       ELSE IF Waits(timed) THEN "pending"
                       ELSE IF row.status = "pending" THEN "done" ELSE row.status
  <2>1. /\ work \in Row
        /\ work.pending = IF queues THEN now ELSE row.pending
        /\ work.pendingTrigger = IF queues THEN "source" ELSE row.pendingTrigger
        /\ work.schedule = row.schedule /\ work.anchor = row.anchor /\ work.next = row.next
        /\ work.active = row.active /\ work.activeTrigger = row.activeTrigger
        /\ work.activeDue = row.activeDue
    BY <1>3, <1>4 DEF Queued, Row, Requested
  <2> HIDE DEF work
  <2>2. /\ timed \in Row
        /\ timed.pending = work.pending /\ timed.pendingTrigger = work.pendingTrigger
        /\ timed.schedule = IF moved THEN s ELSE row.schedule
        /\ timed.anchor = IF moved THEN (IF s = Once THEN NoTime ELSE now) ELSE row.anchor
        /\ timed.next = IF moved THEN next ELSE row.next
        /\ timed.active = work.active /\ timed.activeTrigger = work.activeTrigger
        /\ timed.activeDue = work.activeDue
    BY <1>1, <1>2, <1>3, <2>1 DEF Rescheduled, Row
  <2>3. new = [timed EXCEPT !.body = definition.body, !.status = status]
    BY DEF Updated, work
  <2>4. Waits(timed) <=> timed.pending # NoTime \/ timed.next # NoTime
    BY DEF Waits
  <2> HIDE DEF timed, new
  <2> QED BY <2>1, <2>2, <2>3, <2>4 DEF Row
<1> HIDE DEF next, new
<1>6. new \in Row
  BY <1>1, <1>2, <1>3, <1>4, <1>5 DEF Row, Requested
<1>7. RowAgrees(new)
  BY <1>3, <1>4, <1>5 DEF RowAgrees, Waits
<1>8. RowTimed(new)
  <2>1. row.activeDue \in Moments /\ row.anchor \in Moments /\ row.next \in Moments
    BY <1>4 DEF Row
  <2>2. RequestTimed(new)
    BY <1>4, <1>5 DEF RowTimed, RequestTimed, Requested
  <2>3. NextTimed(new)
    BY <1>2, <1>3, <1>4, <1>5 DEF RowTimed, NextTimed
  <2>4. ClaimTimed(new)
    <3>1. CASE moved
      BY <1>2, <1>3, <1>4, <1>5, <2>1, <3>1 DEF RowTimed, ClaimTimed, Moments, NoTime
    <3>2. CASE ~moved
      BY <1>4, <1>5, <3>2 DEF RowTimed, ClaimTimed
    <3> QED BY <3>1, <3>2
  <2> QED BY <2>2, <2>3, <2>4 DEF RowTimed
<1>9. Keeps(row, new)
  BY <1>2, <1>4, <1>5 DEF Keeps, SameClaim, Onward, Row, Moments
<1> QED BY <1>4, <1>5, <1>6, <1>7, <1>8, <1>9 DEF Sound, new, RowAgrees

\* The reconciliation of a row with the definition of its name, if it has one.
LEMMA UpsertedRow ==
    ASSUME now \in Nat, NEW row, Sound(row), row.status = "absent" => row.active = NoRun,
           NEW definition \in Definitions \cup {NoDefinition}
    PROVE  LET new == Upserted(row, definition) IN
           /\ Sound(new) /\ new.active = row.active
           /\ row.active # NoRun => SameClaim(row, new)
           /\ Onward(row, new)
           /\ definition # NoDefinition =>
                new.body = definition.body /\ new.schedule = definition.schedule
<1>1. CASE definition = NoDefinition
  BY <1>1 DEF Upserted, SameClaim, Onward, Sound, Row, Moments, NoTime
<1>2. CASE definition # NoDefinition /\ row.status = "absent"
  BY <1>2, InsertedRow DEF Upserted, Onward
<1>3. CASE definition # NoDefinition /\ row.status # "absent"
  BY <1>3, UpdatedRow DEF Upserted, Keeps, SameClaim
<1> QED BY <1>1, <1>2, <1>3

\* _consume_activation takes one activation, due by now, off the row; missed
\* occurrences of a schedule go with the latest one.
LEMMA ConsumedRow ==
    ASSUME now \in Nat, NEW row, Sound(row), NEW definition \in Definitions,
           definition.schedule = row.schedule,
           NEW trigger \in Requested \cup {"schedule"}, ~Refuses(row, definition, trigger)
    PROVE  LET rest == Consumed(row, definition, trigger)
               due == DueConsumed(row, definition, trigger)
           IN  /\ rest \in Row /\ row.active = NoRun /\ SameClaim(row, rest) /\ Onward(row, rest)
               /\ rest.body = row.body /\ rest.schedule = row.schedule /\ rest.anchor = row.anchor
               /\ rest.pending # NoTime => rest.pendingTrigger \in Requested
               /\ due \in Nat /\ due # NoTime /\ due <= now
               /\ rest.next # NoTime => rest.anchor # NoTime
                                    /\ rest.next \in Occurrences(rest.schedule, rest.anchor)
               /\ trigger = "schedule" =>
                    /\ due \in Occurrences(row.schedule, row.anchor)
                    /\ rest.next # NoTime => due < rest.next
                    /\ row.next # NoTime /\ row.next <= due
<1>1. /\ row \in Row /\ RowTimed(row) /\ row.pending \in Moments /\ row.next \in Moments
      /\ row.anchor \in Moments /\ row.schedule \in SUBSET Nat
  BY DEF Sound, Row
<1> DEFINE rest == Consumed(row, definition, trigger)
           due == DueConsumed(row, definition, trigger)
<1>2. CASE trigger \in Requested
  <2>1. /\ row.active = NoRun /\ row.pending # NoTime /\ row.pending <= now
        /\ due = row.pending
    BY <1>1, <1>2 DEF Refuses, DueConsumed, Moments, NoTime
  <2>2. rest = [row EXCEPT !.pending = NoTime, !.pendingTrigger = "none"]
    BY <1>2 DEF Consumed
  <2>3. /\ rest \in Row /\ rest.pending = NoTime /\ rest.pendingTrigger = "none"
        /\ rest.active = row.active /\ rest.activeTrigger = row.activeTrigger
        /\ rest.activeDue = row.activeDue /\ rest.body = row.body /\ rest.schedule = row.schedule
        /\ rest.anchor = row.anchor /\ rest.next = row.next
    <3> HIDE DEF rest
    <3> QED BY <1>1, <2>2 DEF Row, Moments
  <2> HIDE DEF rest, due
  <2>4. trigger # "schedule"
    BY <1>2 DEF Requested
  <2>5. due \in Nat /\ due # NoTime
    BY <1>1, <2>1 DEF Moments, NoTime
  <2>6. Onward(row, rest)
    BY <1>1, <2>3 DEF Onward, Moments, NoTime
  <2>7. rest.next # NoTime => rest.anchor # NoTime
                           /\ rest.next \in Occurrences(rest.schedule, rest.anchor)
    BY <1>1, <2>3 DEF RowTimed, NextTimed
  <2> QED BY <2>1, <2>3, <2>4, <2>5, <2>6, <2>7 DEF SameClaim, rest, due
<1>3. CASE trigger = "schedule"
  <2>1. trigger \notin Requested
    BY <1>3 DEF Requested
  <2>2. /\ row.active = NoRun /\ row.anchor # NoTime /\ row.next # NoTime /\ row.next <= now
        /\ due = Before(row.schedule, row.anchor, now) /\ due # NoTime
    BY <1>1, <1>3, <2>1 DEF Refuses, DueConsumed, Moments, NoTime
  <2>3. row.anchor \in Nat /\ row.next \in Nat
    BY <1>1, <2>2 DEF Moments
  <2>4. /\ due \in Nat /\ due <= now /\ due \in Occurrences(row.schedule, row.anchor)
        /\ row.next <= due
    <3>1. row.next \in Occurrences(row.schedule, row.anchor)
      BY <1>1, <2>2 DEF RowTimed, NextTimed
    <3>2. /\ Before(row.schedule, row.anchor, now) \in Occurrences(row.schedule, row.anchor)
          /\ Before(row.schedule, row.anchor, now) \in Nat
          /\ Before(row.schedule, row.anchor, now) <= now
          /\ row.next <= Before(row.schedule, row.anchor, now)
      BY <1>1, <2>2, <2>3, <3>1, BeforeFacts
    <3> QED BY <2>2, <3>2
  <2>5. rest = [row EXCEPT !.next = After(row.schedule, row.anchor, due)]
    BY <2>1 DEF Consumed
  <2>6. /\ After(row.schedule, row.anchor, due) \in Moments
        /\ After(row.schedule, row.anchor, due) # NoTime =>
              /\ After(row.schedule, row.anchor, due) \in Occurrences(row.schedule, row.anchor)
              /\ After(row.schedule, row.anchor, due) > due
    BY <1>1, <2>3, <2>4, AfterFacts DEF Moments
  <2>7. /\ rest \in Row /\ rest.next = After(row.schedule, row.anchor, due)
        /\ rest.active = row.active /\ rest.activeTrigger = row.activeTrigger
        /\ rest.activeDue = row.activeDue /\ rest.body = row.body /\ rest.schedule = row.schedule
        /\ rest.anchor = row.anchor /\ rest.pending = row.pending
        /\ rest.pendingTrigger = row.pendingTrigger
    <3> HIDE DEF rest
    <3> QED BY <1>1, <2>5, <2>6 DEF Row
  <2> HIDE DEF rest, due
  <2>8. Onward(row, rest)
    BY <2>2, <2>3, <2>4, <2>6, <2>7 DEF Onward, Moments
  <2>9. rest.pending # NoTime => rest.pendingTrigger \in Requested
    BY <1>1, <2>7 DEF RowTimed, RequestTimed
  <2> QED BY <2>2, <2>3, <2>4, <2>6, <2>7, <2>8, <2>9 DEF SameClaim, rest, due
<1> QED BY <1>2, <1>3

\* claim: the row is claimed for the run, and for a moment that is no earlier
\* than the occurrence that was next.
LEMMA ClaimedRow ==
    ASSUME now \in Nat, NEW row, Sound(row), NEW definition \in Definitions,
           definition.schedule = row.schedule, definition.body = row.body,
           NEW trigger \in Requested \cup {"schedule"}, ~Refuses(row, definition, trigger),
           NEW r \in Runs
    PROVE  LET new == Claimed(row, definition, trigger, r)
               due == DueConsumed(row, definition, trigger)
           IN  /\ Sound(new) /\ new.active = r /\ new.activeTrigger = trigger
               /\ new.activeDue = due /\ due \in Moments
               /\ row.active = NoRun /\ Onward(row, new)
               /\ new.body = row.body /\ new.schedule = row.schedule
               /\ trigger = "schedule" => row.next # NoTime /\ row.next <= due
<1> DEFINE rest == Consumed(row, definition, trigger)
           due == DueConsumed(row, definition, trigger)
           new == Claimed(row, definition, trigger, r)
<1>1. /\ rest \in Row /\ row.active = NoRun /\ SameClaim(row, rest) /\ Onward(row, rest)
      /\ rest.body = row.body /\ rest.schedule = row.schedule /\ rest.anchor = row.anchor
      /\ rest.pending # NoTime => rest.pendingTrigger \in Requested
      /\ due \in Nat /\ due # NoTime /\ due <= now
      /\ rest.next # NoTime => rest.anchor # NoTime
                           /\ rest.next \in Occurrences(rest.schedule, rest.anchor)
      /\ trigger = "schedule" =>
           /\ due \in Occurrences(row.schedule, row.anchor)
           /\ rest.next # NoTime => due < rest.next
           /\ row.next # NoTime /\ row.next <= due
  BY ConsumedRow
<1>2. new = [rest EXCEPT !.status = "running", !.body = definition.body, !.active = r,
                         !.activeTrigger = trigger, !.activeDue = due]
  BY DEF Claimed
<1>3. definition.body \in Bodies
  BY DEF Definitions
<1> HIDE DEF rest, due, new
<1>4. /\ new \in Row /\ new.status = "running" /\ new.body = definition.body /\ new.active = r
      /\ new.activeTrigger = trigger /\ new.activeDue = due
      /\ new.pending = rest.pending /\ new.pendingTrigger = rest.pendingTrigger
      /\ new.schedule = rest.schedule /\ new.anchor = rest.anchor /\ new.next = rest.next
  BY <1>1, <1>2, <1>3 DEF Row, Moments
<1>5. r # NoRun
  BY DEF Runs
<1>6. RowAgrees(new)
  BY <1>4, <1>5 DEF RowAgrees
<1>7. RowTimed(new)
  BY <1>1, <1>4 DEF RowTimed, RequestTimed, NextTimed, ClaimTimed
<1> QED BY <1>1, <1>4, <1>6, <1>7 DEF Sound, Onward, Moments, new, due

\* reject_activation: the activation is spent.
LEMMA RejectedRow ==
    ASSUME now \in Nat, NEW row, Sound(row), NEW definition \in Definitions,
           definition.schedule = row.schedule, definition.body = row.body,
           NEW trigger \in Requested \cup {"schedule"}, ~Refuses(row, definition, trigger)
    PROVE  LET new == Rejected(row, definition, trigger) IN
           /\ Sound(new) /\ Keeps(row, new) /\ row.active = NoRun
           /\ new.body = row.body /\ new.schedule = row.schedule
<1> DEFINE rest == Consumed(row, definition, trigger)
           new == Rejected(row, definition, trigger)
<1>1. /\ rest \in Row /\ row.active = NoRun /\ SameClaim(row, rest) /\ Onward(row, rest)
      /\ rest.body = row.body /\ rest.schedule = row.schedule
      /\ rest.pending # NoTime => rest.pendingTrigger \in Requested
      /\ rest.next # NoTime => rest.anchor # NoTime
                           /\ rest.next \in Occurrences(rest.schedule, rest.anchor)
  BY ConsumedRow
<1>2. new = [rest EXCEPT !.status = IF Waits(rest) THEN "pending" ELSE "failed",
                         !.body = definition.body]
  BY DEF Rejected
<1>3. definition.body \in Bodies
  BY DEF Definitions
<1> HIDE DEF rest, new
<1>4. /\ new \in Row /\ new.status = IF Waits(rest) THEN "pending" ELSE "failed"
      /\ new.body = definition.body /\ new.active = rest.active
      /\ new.activeTrigger = rest.activeTrigger /\ new.activeDue = rest.activeDue
      /\ new.pending = rest.pending /\ new.pendingTrigger = rest.pendingTrigger
      /\ new.schedule = rest.schedule /\ new.anchor = rest.anchor /\ new.next = rest.next
  BY <1>1, <1>2, <1>3 DEF Row
<1>5. RowAgrees(new) /\ RowTimed(new)
  BY <1>1, <1>4 DEF RowAgrees, RowTimed, RequestTimed, NextTimed, ClaimTimed, SameClaim, Waits
<1> QED BY <1>1, <1>4, <1>5 DEF Sound, Keeps, SameClaim, Onward, new

\* finish_run and reject_claim: the claim is gone, the schedule goes on.
LEMMA FinishedRow ==
    ASSUME now \in Nat, NEW row, Sound(row), NEW status \in Ended
    PROVE  LET new == Finished(row, status) IN
           /\ Sound(new) /\ new.active = NoRun /\ new.next = row.next
           /\ new.body = row.body /\ new.schedule = row.schedule
<1> DEFINE new == Finished(row, status)
           ends == IF Waits(row) THEN "pending" ELSE IF status = "succeeded" THEN "done" ELSE status
<1>1. row \in Row /\ RowAgrees(row) /\ RowTimed(row)
  BY DEF Sound
<1>2. ends \in {"pending", "done", "failed", "canceled"} /\ (ends = "pending" <=> Waits(row))
  BY DEF Ended
<1>3. new = [Unclaimed(row) EXCEPT !.status = ends]
  BY DEF Finished
<1> HIDE DEF new, ends
<1>4. /\ new \in Row /\ new.status = ends /\ new.active = NoRun /\ new.body = row.body
      /\ new.pending = row.pending /\ new.pendingTrigger = row.pendingTrigger
      /\ new.schedule = row.schedule /\ new.anchor = row.anchor /\ new.next = row.next
  BY <1>1, <1>2, <1>3 DEF Unclaimed, Row, Moments, NoTime
<1>5. RowAgrees(new) /\ RowTimed(new)
  BY <1>1, <1>2, <1>4 DEF RowAgrees, RowTimed, RequestTimed, NextTimed, ClaimTimed, Waits
<1> QED BY <1>4, <1>5 DEF Sound, new

\* release_claim: a request comes back; a scheduled occurrence does, unless
\* the schedule has started again since.
LEMMA ReleasedRow ==
    ASSUME now \in Nat, NEW row, Sound(row), row.active # NoRun
    PROVE  LET new == Released(row) IN
           /\ Sound(new) /\ new.active = NoRun
           /\ new.body = row.body /\ new.schedule = row.schedule
           /\ new.next = row.next \/ (row.activeTrigger = "schedule" /\ new.next = row.activeDue)
           /\ \/ new.pending # NoTime /\ new.pending <= row.activeDue
              \/ new.next # NoTime /\ new.next <= row.activeDue
              \/ /\ row.activeTrigger = "schedule"
                 /\ row.anchor = NoTime \/ row.anchor >= row.activeDue
<1> DEFINE new == Released(row)
           requested == row.activeTrigger \in Requested
           first == requested /\ (row.pending = NoTime \/ row.activeDue < row.pending)
           timely == row.activeTrigger = "schedule" /\ row.anchor # NoTime
                           /\ row.activeDue > row.anchor
           pending == IF requested THEN Earliest(row.pending, row.activeDue) ELSE row.pending
           trigger == IF first THEN row.activeTrigger ELSE row.pendingTrigger
           next == IF timely THEN Earliest(row.next, row.activeDue) ELSE row.next
           waits == pending # NoTime \/ next # NoTime
<1>1. /\ row \in Row /\ RowAgrees(row) /\ RequestTimed(row) /\ NextTimed(row) /\ ClaimTimed(row)
      /\ row.activeDue \in Nat /\ row.pending \in Moments /\ row.next \in Moments
      /\ row.anchor \in Moments
  BY DEF Sound, Row, RowTimed, ClaimTimed, Moments
<1>2. /\ new \in Row /\ new.status = IF waits THEN "pending" ELSE "done"
      /\ new.body = row.body /\ new.active = NoRun /\ new.schedule = row.schedule
      /\ new.anchor = row.anchor /\ new.next = next
      /\ new.pending = pending /\ new.pendingTrigger = trigger
  <2> DEFINE back == [Unclaimed(row) EXCEPT
                        !.pending = IF requested THEN Earliest(row.pending, row.activeDue) ELSE @,
                        !.pendingTrigger = IF first THEN row.activeTrigger ELSE @,
                        !.next = IF timely THEN Earliest(row.next, row.activeDue) ELSE @]
  <2>1. new = [back EXCEPT !.status = IF Waits(back) THEN "pending" ELSE "done"]
    BY DEF Released
  <2>2. pending \in Moments /\ next \in Moments
    BY <1>1 DEF Earliest, Moments
  <2>3. trigger \in Requested \cup {"none"}
    BY <1>1 DEF Row
  <2>4. /\ Unclaimed(row) \in Row /\ Unclaimed(row).pending = row.pending
        /\ Unclaimed(row).pendingTrigger = row.pendingTrigger /\ Unclaimed(row).next = row.next
        /\ Unclaimed(row).body = row.body /\ Unclaimed(row).active = NoRun
        /\ Unclaimed(row).schedule = row.schedule /\ Unclaimed(row).anchor = row.anchor
    BY <1>1 DEF Unclaimed, Row, Moments, NoTime
  <2>5. /\ back = [Unclaimed(row) EXCEPT !.pending = pending, !.pendingTrigger = trigger, !.next = next]
    BY <2>4
  <2> HIDE DEF back, pending, next, trigger
  <2>6. /\ back \in Row /\ back.pending = pending /\ back.pendingTrigger = trigger /\ back.next = next
        /\ back.body = row.body /\ back.active = NoRun /\ back.schedule = row.schedule
        /\ back.anchor = row.anchor
    BY <2>2, <2>3, <2>4, <2>5 DEF Row
  <2> HIDE DEF new
  <2> QED BY <2>1, <2>6 DEF Row, Waits
<1> HIDE DEF new
<1>3. RowAgrees(new) /\ ClaimTimed(new)
  <2> HIDE DEF pending, next, trigger
  <2> QED BY <1>2 DEF RowAgrees, ClaimTimed, Waits
<1>4. RequestTimed(new)
  BY <1>1, <1>2 DEF RequestTimed, Earliest
<1>5. /\ timely => next \in {row.next, row.activeDue} /\ next # NoTime /\ next <= row.activeDue
      /\ ~timely => next = row.next
  BY <1>1 DEF Earliest, Moments, NoTime
<1>6. requested => pending # NoTime /\ pending <= row.activeDue
  BY <1>1 DEF Earliest, Moments, NoTime
<1>7. timely => row.activeDue \in Occurrences(row.schedule, row.anchor)
  BY <1>1 DEF ClaimTimed
<1> HIDE DEF pending, next, trigger
<1>8. NextTimed(new)
  BY <1>1, <1>2, <1>5, <1>7 DEF NextTimed
<1>9. requested \/ row.activeTrigger = "schedule"
  BY <1>1 DEF ClaimTimed
<1>10. ~timely /\ ~requested => row.anchor = NoTime \/ row.anchor >= row.activeDue
  BY <1>1, <1>9 DEF Moments
<1> QED
  BY <1>2, <1>3, <1>4, <1>5, <1>6, <1>8, <1>9, <1>10 DEF Sound, RowTimed, new

\* request_manual_chore: the request is queued, whatever else goes on.
LEMMA ManualRow ==
    ASSUME now \in Nat, NEW row, Sound(row)
    PROVE  LET new == Manual(row) IN
           /\ Sound(new) /\ Keeps(row, new)
           /\ new.body = row.body /\ new.schedule = row.schedule
<1> DEFINE work == Queued(row, "manual")
           new == Manual(row)
<1>1. row \in Row /\ RowAgrees(row) /\ RowTimed(row) /\ now \in Moments /\ now # NoTime
      /\ row.next \in Moments
  BY DEF Sound, Row, Moments, NoTime
<1>2. /\ work \in Row /\ work.pending # NoTime /\ SameClaim(row, work)
      /\ work.body = row.body /\ work.schedule = row.schedule /\ work.anchor = row.anchor
      /\ work.next = row.next
      /\ \/ work.pendingTrigger = "manual"
         \/ work.pendingTrigger = row.pendingTrigger /\ row.pending # NoTime
  <2>1. CASE row.pending = NoTime
    BY <1>1, <2>1 DEF Queued, Row, Requested, SameClaim
  <2>2. CASE row.pending # NoTime
    BY <1>1, <2>2 DEF Queued, SameClaim
  <2> QED BY <2>1, <2>2
<1>3. new = [work EXCEPT !.status = IF row.active # NoRun THEN "running" ELSE "pending"]
  BY DEF Manual
<1> HIDE DEF new, work
<1>4. /\ new \in Row /\ new.status = IF row.active # NoRun THEN "running" ELSE "pending"
      /\ new.pending # NoTime /\ SameClaim(row, new)
      /\ new.body = row.body /\ new.schedule = row.schedule /\ new.anchor = row.anchor
      /\ new.next = row.next /\ new.pendingTrigger = work.pendingTrigger
  BY <1>2, <1>3 DEF Row, SameClaim
<1>5. RowAgrees(new)
  BY <1>4 DEF RowAgrees, Waits, SameClaim
<1>6. RowTimed(new)
  BY <1>1, <1>2, <1>4 DEF RowTimed, RequestTimed, NextTimed, ClaimTimed, Requested, SameClaim
<1> QED BY <1>1, <1>4, <1>5, <1>6 DEF Sound, Keeps, Onward, Moments, NoTime, new

\* cancel_pending_chore: the request is withdrawn, the schedule goes on.
LEMMA WithdrawnRow ==
    ASSUME now \in Nat, NEW row, Sound(row), row.active = NoRun
    PROVE  LET new == Withdrawn(row) IN
           /\ Sound(new) /\ Keeps(row, new)
           /\ new.body = row.body /\ new.schedule = row.schedule
<1> DEFINE new == Withdrawn(row)
<1>1. row \in Row /\ RowAgrees(row) /\ RowTimed(row) /\ row.next \in Moments
  BY DEF Sound, Row
<1>2. new = [row EXCEPT !.pending = NoTime, !.pendingTrigger = "none",
                        !.status = IF row.next = NoTime THEN "canceled" ELSE "pending"]
  BY DEF Withdrawn
<1> HIDE DEF new
<1>3. /\ new \in Row /\ new.status = IF row.next = NoTime THEN "canceled" ELSE "pending"
      /\ new.pending = NoTime /\ SameClaim(row, new)
      /\ new.body = row.body /\ new.schedule = row.schedule /\ new.anchor = row.anchor
      /\ new.next = row.next
  BY <1>1, <1>2 DEF Row, SameClaim, Moments
<1>4. RowAgrees(new) /\ RowTimed(new)
  BY <1>1, <1>3
     DEF RowAgrees, RowTimed, RequestTimed, NextTimed, ClaimTimed, Waits, SameClaim
<1> QED BY <1>1, <1>3, <1>4 DEF Sound, Keeps, Onward, Moments, NoTime, new

----------------------------------------------------------------------------

\* What holds of the values the variables have.
LEMMA Typed ==
    ASSUME TypeOK, RowsInv
    PROVE  /\ now \in Nat /\ now \in Moments
           /\ \A name \in Names :
                /\ Sound(rows[name]) /\ rows[name] \in Row
                /\ rows[name].status = "absent" => rows[name].active = NoRun
                /\ rows[name].active \in Runs \cup {NoRun}
                /\ rows[name].next \in Moments /\ rows[name].activeDue \in Moments
           /\ \A r \in Runs : runs[r] \in Run /\ runs[r].name \in Names /\ runs[r].due \in Moments
<1>1. \A name \in Names : rows[name] \in Row /\ Sound(rows[name])
  BY DEF TypeOK, RowsInv, Sound
<1>2. \A name \in Names :
        /\ rows[name].status = "absent" => rows[name].active = NoRun
        /\ rows[name].active \in Runs \cup {NoRun}
        /\ rows[name].next \in Moments /\ rows[name].activeDue \in Moments
  BY <1>1, RowFields DEF Sound, RowAgrees
<1>3. \A r \in Runs : runs[r] \in Run /\ runs[r].name \in Names /\ runs[r].due \in Moments
  BY DEF TypeOK, Run
<1> QED BY <1>1, <1>2, <1>3 DEF TypeOK, Moments

\* The heap holds moments.
LEMMA EntryType ==
    ASSUME NEW row \in Row, NEW definition
    PROVE  Entry(row, definition) \in Moments
BY RowFields DEF Entry, NextDue, Earliest, Moments, NoTime

\* What carries a row on may be done twice.
LEMMA OnwardTransitive ==
    ASSUME now \in Nat, NEW a \in Row, NEW b \in Row, NEW c \in Row, Onward(a, b), Onward(b, c)
    PROVE  Onward(a, c)
BY RowFields DEF Onward, Moments, NoTime

\* A table that a transaction may put in the place of the rows: every row is
\* sound, carries its claim on, and its definition too.
Carried(row, new, definition) ==
    /\ Sound(new) /\ new.active = row.active
    /\ row.active # NoRun => SameClaim(row, new)
    /\ Onward(row, new)
    /\ definition # NoDefinition =>
            new.body = definition.body /\ new.schedule = definition.schedule
Continues(table, definitions) ==
    \A name \in Names : Carried(rows[name], table[name], definitions[name])

\* _reconcile gives such a table.
LEMMA ReconciledContinues ==
    ASSUME TypeOK, RowsInv, NEW definitions \in [Names -> Definitions \cup {NoDefinition}]
    PROVE  ReconciledRows(definitions) \in [Names -> Row] /\ Continues(ReconciledRows(definitions), definitions)
<1>1. now \in Nat
  BY Typed
<1>2. ASSUME NEW name \in Names
      PROVE  /\ Upserted(rows[name], definitions[name]) \in Row
             /\ Carried(rows[name], Upserted(rows[name], definitions[name]), definitions[name])
  <2>1. Sound(rows[name]) /\ (rows[name].status = "absent" => rows[name].active = NoRun)
    BY Typed
  <2> QED BY <1>1, <2>1, UpsertedRow DEF Carried, Sound
<1> QED BY <1>2 DEF ReconciledRows, Continues

\* A request, made or withdrawn, is added to the reconciled table.
LEMMA RequestContinues ==
    ASSUME TypeOK, RowsInv, NEW definitions \in [Names -> Definitions \cup {NoDefinition}],
           NEW table \in [Names -> Row], Continues(table, definitions), NEW name \in Names,
           NEW new, new = Manual(table[name]) \/ (new = Withdrawn(table[name]) /\ table[name].active = NoRun)
    PROVE  /\ [table EXCEPT ![name] = new] \in [Names -> Row]
           /\ Continues([table EXCEPT ![name] = new], definitions)
<1>1. now \in Nat /\ rows[name] \in Row /\ Sound(rows[name])
  BY Typed
<1>2. Carried(rows[name], table[name], definitions[name]) /\ table[name] \in Row
  BY DEF Continues
<1>3. Sound(new) /\ Keeps(table[name], new) /\ new.body = table[name].body
      /\ new.schedule = table[name].schedule
  BY <1>1, <1>2, ManualRow, WithdrawnRow DEF Carried
<1>4. Onward(rows[name], new)
  BY <1>1, <1>2, <1>3, OnwardTransitive DEF Carried, Keeps, Sound
<1>5. Carried(rows[name], new, definitions[name])
  BY <1>2, <1>3, <1>4 DEF Carried, Keeps, SameClaim
<1> QED BY <1>3, <1>5 DEF Continues, Sound

\* What the scheduler has in memory after it adopted a table.
LEMMA AdoptEffect ==
    ASSUME TypeOK, RowsInv, NEW definitions \in [Names -> Definitions \cup {NoDefinition}],
           NEW table \in [Names -> Row], Continues(table, definitions), Adopt(table, definitions),
           now' = now
    PROVE  /\ rows' = table /\ rows' \in [Names -> Row] /\ records' \in [Names -> Row]
           /\ queued' \in [Names -> Moments]
           /\ known' \in [Names -> Definitions \cup {NoDefinition}]
           /\ RowsInv' /\ MemoryInv'
<1>1. /\ rows' = table /\ records' = table /\ known' = definitions
      /\ queued' = [name \in Names |-> Entry(table[name], definitions[name])]
  BY DEF Adopt
<1>2. queued' \in [Names -> Moments]
  BY <1>1, EntryType
<1>3. RowsInv'
  BY <1>1 DEF RowsInv, Continues, Carried, Sound, RowTimed, ClaimTimed
<1>4. MemoryInv'
  BY <1>1 DEF MemoryInv, Continues, Carried
<1> QED BY <1>1, <1>2, <1>3, <1>4

\* The same of a transaction on one row.
LEMMA ReplaceEffect ==
    ASSUME TypeOK, RowsInv, MemoryInv, NEW name \in Names, NEW new, Sound(new), Replace(name, new),
           new.body = rows[name].body, new.schedule = rows[name].schedule,
           UNCHANGED <<now, known, scheduler>>
    PROVE  /\ rows' = [rows EXCEPT ![name] = new]
           /\ rows' \in [Names -> Row] /\ records' \in [Names -> Row]
           /\ queued' \in [Names -> Moments]
           /\ RowsInv' /\ MemoryInv'
<1>1. /\ rows' = [rows EXCEPT ![name] = new] /\ records' = [records EXCEPT ![name] = new]
      /\ queued' = [queued EXCEPT ![name] = Entry(new, known[name])]
      /\ new \in Row
  BY DEF Replace, Sound
<1>2. /\ rows \in [Names -> Row] /\ records \in [Names -> Row] /\ queued \in [Names -> Moments]
  BY DEF TypeOK
<1>3. RowsInv'
  BY <1>1, <1>2 DEF RowsInv, Sound, RowTimed, ClaimTimed
<1>4. MemoryInv'
  BY <1>1, <1>2 DEF MemoryInv
<1> QED BY <1>1, <1>2, <1>3, <1>4, EntryType

----------------------------------------------------------------------------

\* What _dispatch_due knows of a chore that is due.
LEMMA DueFacts ==
    ASSUME TypeOK, RowsInv, MemoryInv, NEW name \in Names, Due(name)
    PROVE  /\ known[name] \in Definitions
           /\ known[name].body = rows[name].body /\ known[name].schedule = rows[name].schedule
           /\ records[name] = rows[name]
           /\ NextTrigger(records[name]) \in Requested \cup {"schedule"}
<1>1. /\ known[name] # NoDefinition /\ scheduler = "serving"
      /\ known[name] \in Definitions \cup {NoDefinition}
  BY DEF Due, TypeOK
<1>2. records[name] = rows[name] /\ RequestTimed(rows[name])
  BY <1>1 DEF MemoryInv, RowsInv, RowTimed
<1> QED BY <1>1, <1>2 DEF MemoryInv, NextTrigger, RequestTimed

\* The claimed row of a settled submission, and what comes of it.
LEMMA SettledRow ==
    ASSUME TypeOK, RowsInv, SubmissionInv, NEW r \in Runs, FinishRun(r) \/ RejectClaim(r) \/ ReleaseClaim(r)
    PROVE  \E name \in Names : \E new :
              /\ name = runs[r].name /\ rows[name].active = r
              /\ Replace(name, new) /\ Sound(new) /\ new.active = NoRun
              /\ new.body = rows[name].body /\ new.schedule = rows[name].schedule
              /\ \/ new.next = rows[name].next
                 \/ /\ rows[name].activeTrigger = "schedule" /\ new.next = rows[name].activeDue
                    /\ submission[r] = "backoff"
              /\ \/ runs[r].status \in Ended
                 \/ submission[r] = "refused"
                 \/ new.pending # NoTime /\ new.pending <= rows[name].activeDue
                 \/ new.next # NoTime /\ new.next <= rows[name].activeDue
                 \/ /\ rows[name].activeTrigger = "schedule"
                    /\ rows[name].anchor = NoTime \/ rows[name].anchor >= rows[name].activeDue
              /\ submission' = [submission EXCEPT ![r] = "none"]
              /\ UNCHANGED <<now, accepted, runs, scheduler, paused, recovering, known>>
              /\ Serving /\ submission[r] \in {"waiting", "refused", "backoff"}
              /\ submission[r] = "waiting" => runs[r].status \in Ended
<1> DEFINE name == runs[r].name
           row == rows[name]
<1>1. /\ name \in Names /\ row.active = r /\ now \in Nat /\ Sound(row) /\ r # NoRun
  BY Typed DEF FinishRun, RejectClaim, ReleaseClaim, Settles, Runs
<1>2. CASE FinishRun(r)
  <2>1. runs[r].status \in Ended /\ Settles(r, Finished(row, runs[r].status)) /\ Serving
        /\ submission[r] = "waiting"
    BY <1>2 DEF FinishRun
  <2> HIDE DEF name, row
  <2>2. LET new == Finished(row, runs[r].status) IN
            /\ Sound(new) /\ new.active = NoRun /\ new.next = row.next
            /\ new.body = row.body /\ new.schedule = row.schedule
    BY <1>1, <2>1, FinishedRow
  <2> QED BY <1>1, <2>1, <2>2 DEF Settles, name, row
<1>3. CASE RejectClaim(r)
  <2>1. Settles(r, Finished(row, "failed")) /\ Serving /\ submission[r] = "refused"
    BY <1>3 DEF RejectClaim
  <2> HIDE DEF name, row
  <2>2. LET new == Finished(row, "failed") IN
            /\ Sound(new) /\ new.active = NoRun /\ new.next = row.next
            /\ new.body = row.body /\ new.schedule = row.schedule
    BY <1>1, FinishedRow DEF Ended
  <2> QED BY <1>1, <2>1, <2>2 DEF Settles, name, row
<1>4. CASE ReleaseClaim(r)
  <2>1. Settles(r, Released(row)) /\ Serving /\ submission[r] = "backoff"
    BY <1>4 DEF ReleaseClaim
  <2> HIDE DEF name, row
  <2>2. LET new == Released(row) IN
           /\ Sound(new) /\ new.active = NoRun
           /\ new.body = row.body /\ new.schedule = row.schedule
           /\ new.next = row.next \/ (row.activeTrigger = "schedule" /\ new.next = row.activeDue)
           /\ \/ new.pending # NoTime /\ new.pending <= row.activeDue
              \/ new.next # NoTime /\ new.next <= row.activeDue
              \/ /\ row.activeTrigger = "schedule"
                 /\ row.anchor = NoTime \/ row.anchor >= row.activeDue
    BY <1>1, ReleasedRow
  <2> QED BY <1>1, <2>1, <2>2 DEF Settles, name, row
<1> QED BY <1>2, <1>3, <1>4

\* What recovery makes of a claimed row.
LEMMA RecoveredRow ==
    ASSUME TypeOK, RowsInv, ClaimInv, RecoverInv, NEW name \in Names, Recover(name)
    PROVE  LET new == Recovered(rows[name])
               run == runs[rows[name].active] IN
           /\ rows[name].active # NoRun /\ rows[name].active \in Runs
           /\ Sound(new)
           /\ new.body = rows[name].body /\ new.schedule = rows[name].schedule
           /\ \/ run.status = "active" /\ new = rows[name]
              \/ /\ new.active = NoRun
                 /\ \/ run.status \in Ended /\ new.next = rows[name].next
                    \/ /\ run.status = "issued"
                       /\ \/ new.next = rows[name].next
                          \/ rows[name].activeTrigger = "schedule" /\ new.next = rows[name].activeDue
                       /\ \/ new.pending # NoTime /\ new.pending <= rows[name].activeDue
                          \/ new.next # NoTime /\ new.next <= rows[name].activeDue
                          \/ /\ rows[name].activeTrigger = "schedule"
                             /\ rows[name].anchor = NoTime \/ rows[name].anchor >= rows[name].activeDue
<1> DEFINE row == rows[name]
           run == runs[row.active]
<1>1. /\ row.active # NoRun /\ row.active \in Runs /\ now \in Nat /\ Sound(row)
  BY Typed DEF Recover, RecoverInv
<1>2. run.status \in {"issued", "active"} \cup Ended
  <2>1. run.status # "unissued" /\ run \in Run
    BY <1>1, Typed DEF ClaimInv
  <2> QED BY <2>1 DEF Run
<1> HIDE DEF row, run
<1>3. CASE run.status = "issued"
  BY <1>1, <1>3, ReleasedRow DEF Recovered, row, run
<1>4. CASE run.status \in Ended
  <2>1. Recovered(row) = Finished(row, run.status)
    BY <1>4 DEF Recovered, Ended, row, run
  <2>2. LET new == Finished(row, run.status) IN
            /\ Sound(new) /\ new.active = NoRun /\ new.next = row.next
            /\ new.body = row.body /\ new.schedule = row.schedule
    BY <1>1, <1>4, FinishedRow
  <2> QED BY <1>1, <1>4, <2>1, <2>2 DEF row, run
<1>5. CASE run.status = "active"
  BY <1>1, <1>5 DEF Recovered, Ended, row, run
<1> QED BY <1>2, <1>3, <1>4, <1>5

----------------------------------------------------------------------------

\* The types, the rows and the memory of the scheduler.
CoreInv == TypeOK /\ RowsInv /\ MemoryInv

\* A definition is in use: the current state, or the one the thread knows.
\* Each step that adopts a table does so with one that continues the rows.
TableStep(definitions, table) ==
    /\ definitions \in [Names -> Definitions \cup {NoDefinition}]
    /\ table \in [Names -> Row]
    /\ Continues(table, definitions) /\ Adopt(table, definitions)
    /\ UNCHANGED <<now, accepted, runs, submission>>

\* The steps that adopt a table.
LEMMA TableSteps ==
    ASSUME TypeOK, RowsInv, NEW name \in Names,
           Start \/ Serve \/ Reconcile \/ RunChore(name) \/ CancelChore(name)
    PROVE  \E definitions, table : TableStep(definitions, table)
<1>1. accepted \in [Names -> Definitions \cup {NoDefinition}]
      /\ known \in [Names -> Definitions \cup {NoDefinition}]
  BY DEF TypeOK
<1>2. CASE Start \/ Serve \/ Reconcile
  BY <1>1, <1>2, ReconciledContinues DEF Start, Serve, Reconcile, TableStep
<1>3. CASE RunChore(name) \/ CancelChore(name)
  <2> DEFINE table == ReconciledRows(accepted)
  <2>1. table \in [Names -> Row] /\ Continues(table, accepted)
    BY <1>1, ReconciledContinues
  <2>2. \E new : /\ new = Manual(table[name]) \/ (new = Withdrawn(table[name]) /\ table[name].active = NoRun)
                 /\ Adopt([table EXCEPT ![name] = new], accepted)
    BY <1>3 DEF RunChore, CancelChore
  <2> HIDE DEF table
  <2>3. PICK new : /\ new = Manual(table[name]) \/ (new = Withdrawn(table[name]) /\ table[name].active = NoRun)
                   /\ Adopt([table EXCEPT ![name] = new], accepted)
    BY <2>2
  <2>4. /\ [table EXCEPT ![name] = new] \in [Names -> Row]
        /\ Continues([table EXCEPT ![name] = new], accepted)
    BY <1>1, <2>1, <2>3, RequestContinues
  <2> QED BY <1>1, <1>3, <2>3, <2>4 DEF TableStep, RunChore, CancelChore
<1> QED BY <1>2, <1>3

\* The program starts with no rows.
LEMMA InitChores == Init => ChoresInv
<1> SUFFICES ASSUME Init PROVE ChoresInv
  OBVIOUS
<1>1. /\ now = 0 /\ scheduler = "down" /\ paused = FALSE /\ recovering = {}
      /\ rows = [name \in Names |-> NoRow] /\ records = [name \in Names |-> NoRow]
      /\ \A r \in Runs : runs[r].status = "unissued" /\ submission[r] = "none"
  BY DEF Init
<1>2. Sound(NoRow) /\ NoRow.active = NoRun
  BY <1>1, NoRowFacts
<1>3. TypeOK
  <2>1. runs \in [Runs -> Run]
    <3>1. [status |-> "unissued", name |-> CHOOSE n \in Names : TRUE,
           trigger |-> "manual", due |-> NoTime] \in Run
      BY DEF Run, Requested, Moments
    <3> QED BY <3>1 DEF Init
  <2>2. now \in 0..MaxTime
    BY <1>1
  <2>3. NoRow \in Row /\ NoTime \in Moments
    BY <1>2 DEF Sound, Moments
  <2>4. /\ rows \in [Names -> Row] /\ records \in [Names -> Row]
        /\ queued \in [Names -> Moments]
    BY <1>1, <2>3 DEF Init
  <2>5. /\ known \in [Names -> Definitions \cup {NoDefinition}]
        /\ submission \in [Runs -> {"none", "queued", "waiting", "backoff", "refused"}]
        /\ accepted \in [Names -> Definitions \cup {NoDefinition}]
    BY DEF Init
  <2> QED BY <1>1, <2>1, <2>2, <2>4, <2>5 DEF TypeOK
<1>4. RowsInv /\ ClaimInv /\ MemoryInv /\ RecoverInv
  BY <1>1, <1>2 DEF RowsInv, ClaimInv, MemoryInv, RecoverInv, Sound
<1>5. SubmissionInv
  BY <1>1 DEF SubmissionInv
<1>6. DueInv /\ ClaimsMatchRuns /\ OccurrenceOnce
  BY <1>1 DEF DueInv, Executed, ClaimsMatchRuns, OccurrenceOnce, Ended
<1> QED BY <1>3, <1>4, <1>5, <1>6 DEF ChoresInv

\* Every step keeps the types, the rows sound, and the memory in step with them.
LEMMA CoreStep == ChoresInv /\ [Next]_vars => CoreInv'
<1> SUFFICES ASSUME ChoresInv, [Next]_vars PROVE CoreInv'
  OBVIOUS
<1>0. /\ TypeOK /\ RowsInv /\ MemoryInv /\ SubmissionInv /\ ClaimInv /\ RecoverInv /\ now \in Nat
  BY Typed DEF ChoresInv
<1> USE DEF memory
<1>a. ASSUME UNCHANGED <<now, rows, records, queued, known>>,
             scheduler' = scheduler \/ scheduler' \notin {"recovering", "serving"}
      PROVE  RowsInv' /\ MemoryInv'
  BY <1>0, <1>a DEF RowsInv, MemoryInv, RowTimed, ClaimTimed
<1>1. ASSUME NEW name \in Names, Start \/ Serve \/ Reconcile \/ RunChore(name) \/ CancelChore(name)
      PROVE  CoreInv'
  <2>1. PICK definitions, table : TableStep(definitions, table)
    BY <1>0, <1>1, TableSteps
  <2>2. /\ rows' \in [Names -> Row] /\ records' \in [Names -> Row]
        /\ queued' \in [Names -> Moments]
        /\ known' \in [Names -> Definitions \cup {NoDefinition}]
        /\ RowsInv' /\ MemoryInv'
    BY <1>0, <2>1, AdoptEffect DEF TableStep
  <2>3. /\ scheduler' \in {"down", "recovering", "serving", "draining"} /\ paused' \in BOOLEAN
        /\ recovering' \subseteq Names
    BY <1>0, <1>1 DEF Start, Serve, Reconcile, RunChore, CancelChore, TypeOK
  <2> QED BY <1>0, <2>1, <2>2, <2>3 DEF CoreInv, TableStep, TypeOK
<1>2. ASSUME NEW name \in Names, Recover(name) PROVE CoreInv'
  <2>1. LET new == Recovered(rows[name]) IN
        /\ Sound(new) /\ new.body = rows[name].body /\ new.schedule = rows[name].schedule
    BY <1>0, <1>2, RecoveredRow
  <2>2. /\ rows' \in [Names -> Row] /\ records' \in [Names -> Row]
        /\ queued' \in [Names -> Moments] /\ RowsInv' /\ MemoryInv'
    BY <1>0, <1>2, <2>1, ReplaceEffect DEF Recover
  <2> QED BY <1>0, <1>2, <2>2 DEF CoreInv, Recover, TypeOK
<1>3. ASSUME NEW r \in Runs, FinishRun(r) \/ RejectClaim(r) \/ ReleaseClaim(r) PROVE CoreInv'
  <2>1. PICK name \in Names : \E new :
              /\ Replace(name, new) /\ Sound(new)
              /\ new.body = rows[name].body /\ new.schedule = rows[name].schedule
              /\ submission' = [submission EXCEPT ![r] = "none"]
              /\ UNCHANGED <<now, accepted, runs, scheduler, paused, recovering, known>>
    BY <1>0, <1>3, SettledRow
  <2>2. /\ rows' \in [Names -> Row] /\ records' \in [Names -> Row]
        /\ queued' \in [Names -> Moments] /\ RowsInv' /\ MemoryInv'
    BY <1>0, <2>1, ReplaceEffect
  <2> QED BY <1>0, <2>1, <2>2 DEF CoreInv, TypeOK
<1>4. ASSUME NEW name \in Names, Dispatch(name) \/ RejectActivation(name) PROVE CoreInv'
  <2> DEFINE trigger == NextTrigger(records[name])
             r == CHOOSE s \in Unissued : \A t \in Unissued : s <= t
             due == DueConsumed(rows[name], known[name], trigger)
  <2>1. Due(name) /\ ~Refuses(rows[name], known[name], trigger)
        /\ UNCHANGED <<now, accepted, known, scheduler, paused, recovering>>
    BY <1>4 DEF Dispatch, RejectActivation
  <2>2. /\ known[name] \in Definitions
        /\ known[name].body = rows[name].body /\ known[name].schedule = rows[name].schedule
        /\ trigger \in Requested \cup {"schedule"} /\ Sound(rows[name])
    BY <1>0, <2>1, DueFacts, Typed
  <2>3. CASE RejectActivation(name)
    <3> HIDE DEF trigger
    <3>1. Replace(name, Rejected(rows[name], known[name], trigger)) /\ UNCHANGED <<runs, submission>>
      BY <2>3 DEF RejectActivation, trigger
    <3>2. LET new == Rejected(rows[name], known[name], trigger) IN
           /\ Sound(new) /\ new.body = rows[name].body /\ new.schedule = rows[name].schedule
      BY <1>0, <2>1, <2>2, RejectedRow
    <3>3. /\ rows' \in [Names -> Row] /\ records' \in [Names -> Row]
          /\ queued' \in [Names -> Moments] /\ RowsInv' /\ MemoryInv'
      BY <1>0, <2>1, <3>1, <3>2, ReplaceEffect
    <3> QED BY <1>0, <2>1, <3>1, <3>3 DEF CoreInv, TypeOK
  <2>4. CASE Dispatch(name)
    <3>1. /\ Unissued # {}
          /\ Replace(name, Claimed(rows[name], known[name], trigger, r))
          /\ runs' = [runs EXCEPT ![r] = [status |-> "issued", name |-> name,
                                          trigger |-> trigger, due |-> due]]
          /\ submission' = [submission EXCEPT ![r] = "queued"]
      BY <2>4 DEF Dispatch
    <3>2. r \in Runs
      <4>1. Unissued \in SUBSET Nat /\ Unissued \subseteq Runs
        BY DEF Unissued, Runs
      <4>2. \E s \in Unissued : \A t \in Unissued : s <= t
        BY <3>1, <4>1, Least
      <4> QED BY <4>1, <4>2
    <3> HIDE DEF trigger, r, due
    <3>3. LET new == Claimed(rows[name], known[name], trigger, r)  IN
           /\ Sound(new) /\ new.body = rows[name].body /\ new.schedule = rows[name].schedule
           /\ due \in Moments
      BY <1>0, <2>1, <2>2, <3>2, ClaimedRow DEF due
    <3>4. /\ rows' \in [Names -> Row] /\ records' \in [Names -> Row]
          /\ queued' \in [Names -> Moments] /\ RowsInv' /\ MemoryInv'
      BY <1>0, <2>1, <3>1, <3>3, ReplaceEffect
    <3>5. runs' \in [Runs -> Run]
      <4>1. [status |-> "issued", name |-> name, trigger |-> trigger, due |-> due] \in Run
        BY <2>2, <3>3 DEF Run
      <4> QED BY <1>0, <3>1, <4>1 DEF TypeOK
    <3>6. submission' \in [Runs -> {"none", "queued", "waiting", "backoff", "refused"}]
      BY <1>0, <3>1 DEF TypeOK
    <3> QED BY <1>0, <2>1, <3>4, <3>5, <3>6 DEF CoreInv, TypeOK
  <2> QED BY <1>4, <2>3, <2>4
<1>5. ASSUME NEW r \in Runs, Execute(r) \/ RunEnds(r) PROVE CoreInv'
  <2>1. /\ UNCHANGED <<now, accepted, rows, scheduler, paused, recovering, known, records, queued>>
        /\ \/ runs' = runs
           \/ \E status \in {"active"} \cup Ended : runs' = [runs EXCEPT ![r].status = status]
        /\ \/ submission' = submission
           \/ \E s \in {"waiting", "refused", "backoff"} : submission' = [submission EXCEPT ![r] = s]
    BY <1>5 DEF Execute, RunEnds, Ended
  <2>2. runs' \in [Runs -> Run]
    BY <1>0, <2>1 DEF TypeOK, Run
  <2>3. submission' \in [Runs -> {"none", "queued", "waiting", "backoff", "refused"}]
    BY <1>0, <2>1 DEF TypeOK
  <2> QED BY <1>0, <1>a, <2>1, <2>2, <2>3 DEF CoreInv, TypeOK
<1>6. CASE Forget /\ UNCHANGED <<now, accepted, rows, runs>>
  <2>1. RowsInv' /\ MemoryInv'
    BY <1>0, <1>6 DEF Forget, RowsInv, MemoryInv, RowTimed, ClaimTimed
  <2>2. NoRow \in Row
    BY <1>0, NoRowFacts DEF Sound
  <2> QED BY <1>0, <1>6, <2>1, <2>2 DEF CoreInv, TypeOK, Forget, Moments
<1>7. CASE Pause \/ Stop \/ (\E name \in Names : Publish(name)) \/ UNCHANGED vars
  <2>1. RowsInv' /\ MemoryInv'
    BY <1>a, <1>7 DEF Pause, Stop, Publish, vars
  <2>2. accepted' \in [Names -> Definitions \cup {NoDefinition}]
    BY <1>0, <1>7 DEF Pause, Stop, Publish, vars, TypeOK
  <2> QED BY <1>0, <1>7, <2>1, <2>2 DEF Pause, Stop, Publish, vars, CoreInv, TypeOK
<1>8. CASE Tick
  <2>1. now' = now + 1 /\ now' \in 0..MaxTime
        /\ UNCHANGED <<accepted, rows, runs, scheduler, memory>>
    BY <1>0, <1>8 DEF Tick, TypeOK
  <2>2. RowsInv'
    <3>1. ASSUME NEW name \in Names PROVE RowTimed(rows[name])'
      <4>1. rows[name].activeDue \in Moments /\ RowTimed(rows[name])
        BY <1>0, Typed DEF Sound
      <4>2. ClaimTimed(rows[name])'
        BY <1>0, <2>1, <4>1 DEF RowTimed, ClaimTimed, Moments, NoTime
      <4> QED BY <2>1, <4>1, <4>2 DEF RowTimed
    <3> QED BY <1>0, <2>1, <3>1 DEF RowsInv
  <2> QED BY <1>0, <2>1, <2>2 DEF MemoryInv, CoreInv, TypeOK
<1>9. CASE Crash \/ Drained
  BY <1>6, <1>9 DEF Crash, Drained
<1>10. Names # {}
  OBVIOUS
<1> QED BY ONLY [Next]_vars, <1>1, <1>2, <1>3, <1>4, <1>5, <1>7, <1>8, <1>9, <1>10
        DEF Next, Startup, Dispatching, Settling, Execution, Commands, World

----------------------------------------------------------------------------

\* What a step does to the claims, the runs and the waiters: nothing, but for
\* where the scheduler is;
Carries ==
    /\ \A name \in Names :
        /\ rows'[name].active = rows[name].active
        /\ rows[name].active # NoRun => SameClaim(rows[name], rows'[name])
        /\ Onward(rows[name], rows'[name])
    /\ UNCHANGED <<now, runs>>
    /\ \/ UNCHANGED <<scheduler, recovering, submission>>
       \/ /\ scheduler = "down" /\ scheduler' = "recovering"
          /\ recovering' = {name \in Names : rows'[name].active # NoRun} /\ UNCHANGED submission
       \/ /\ scheduler = "recovering" /\ recovering = {} /\ scheduler' = "serving"
          /\ UNCHANGED submission
       \/ scheduler = "serving" /\ scheduler' = "draining" /\ UNCHANGED submission
       \/ scheduler' = "down" /\ \A r \in Runs : submission'[r] = "none"

\* a chore is claimed for a run;
ClaimsFor(name, r) ==
    /\ scheduler = "serving" /\ UNCHANGED <<now, scheduler, recovering>>
    /\ rows[name].active = NoRun /\ rows'[name].active = r /\ Onward(rows[name], rows'[name])
    /\ \A n \in Names : n # name => rows'[n] = rows[n]
    /\ rows'[name].activeTrigger = "schedule" =>
            rows[name].next # NoTime /\ rows[name].next <= rows'[name].activeDue
    /\ runs[r].status = "unissued" /\ runs'[r].status = "issued" /\ runs'[r].name = name
    /\ runs'[r].trigger = rows'[name].activeTrigger /\ runs'[r].due = rows'[name].activeDue
    /\ \A s \in Runs : s # r => runs'[s] = runs[s] /\ submission'[s] = submission[s]
    /\ submission'[r] = "queued"

\* a claim is given up by the waiter of its run, or by recovery;
Unclaims(name) ==
    /\ rows[name].active # NoRun /\ rows'[name].active = NoRun
    /\ \A n \in Names : n # name => rows'[n] = rows[n]
    /\ \/ rows'[name].next = rows[name].next
       \/ /\ rows[name].activeTrigger = "schedule"
          /\ rows'[name].next = rows[name].activeDue
          /\ runs[rows[name].active].status = "issued"
    /\ UNCHANGED <<now, runs, scheduler>>
    /\ runs[rows[name].active].status # "active"
    /\ \/ /\ submission' = [submission EXCEPT ![rows[name].active] = "none"] /\ UNCHANGED recovering
          /\ Serving
       \/ /\ scheduler = "recovering" /\ recovering' = recovering \ {name} /\ UNCHANGED submission
    /\ \/ runs[rows[name].active].status \in Ended
       \/ submission[rows[name].active] = "refused"
       \/ rows'[name].pending # NoTime /\ rows'[name].pending <= rows[name].activeDue
       \/ rows'[name].next # NoTime /\ rows'[name].next <= rows[name].activeDue
       \/ /\ rows[name].activeTrigger = "schedule"
          /\ rows[name].anchor = NoTime \/ rows[name].anchor >= rows[name].activeDue

\* recovery leaves a claim to a run that was cut off;
LeavesClaim(name) ==
    /\ scheduler = "recovering" /\ name \in recovering /\ recovering' = recovering \ {name}
    /\ runs[rows[name].active].status = "active"
    /\ UNCHANGED <<now, rows, runs, scheduler, submission>>

\* the execution loop goes on with a run;
GoesOn(r) ==
    /\ UNCHANGED <<now, rows, scheduler, recovering>>
    /\ runs'[r].name = runs[r].name /\ runs'[r].trigger = runs[r].trigger
    /\ runs'[r].due = runs[r].due
    /\ \A s \in Runs : s # r => runs'[s] = runs[s] /\ submission'[s] = submission[s]
    /\ \/ /\ submission[r] = "queued"
          /\ \/ runs'[r].status = "active" /\ submission'[r] = "waiting"
             \/ runs'[r].status = "failed" /\ submission'[r] = "refused"
             \/ runs'[r].status = runs[r].status /\ submission'[r] \in {"backoff", "refused"}
       \/ /\ submission[r] = "waiting" /\ runs[r].status = "active"
          /\ runs'[r].status \in Ended /\ submission'[r] = "waiting"

\* or time passes.
TimePasses ==
    /\ now' = now + 1
    /\ UNCHANGED <<rows, runs, scheduler, recovering, submission>>

\* Those are all the steps there are.
LEMMA Effects ==
    ChoresInv /\ [Next]_vars =>
        \/ Carries \/ TimePasses
        \/ \E name \in Names, r \in Runs : ClaimsFor(name, r)
        \/ \E name \in Names : Unclaims(name) \/ LeavesClaim(name)
        \/ \E r \in Runs : GoesOn(r)
<1> SUFFICES ASSUME ChoresInv, [Next]_vars
             PROVE  \/ Carries \/ TimePasses
                    \/ \E name \in Names, r \in Runs : ClaimsFor(name, r)
                    \/ \E name \in Names : Unclaims(name) \/ LeavesClaim(name)
                    \/ \E r \in Runs : GoesOn(r)
  OBVIOUS
<1>0. /\ TypeOK /\ RowsInv /\ MemoryInv /\ SubmissionInv /\ ClaimInv /\ RecoverInv /\ now \in Nat
      /\ rows \in [Names -> Row] /\ runs \in [Runs -> Run] /\ submission \in [Runs -> {"none", "queued", "waiting", "backoff", "refused"}]
  BY Typed DEF ChoresInv, TypeOK
<1> USE DEF memory
<1>a. ASSUME UNCHANGED rows
      PROVE  \A name \in Names :
                /\ rows'[name].active = rows[name].active
                /\ rows[name].active # NoRun => SameClaim(rows[name], rows'[name])
                /\ Onward(rows[name], rows'[name])
  BY <1>0, <1>a, Typed DEF SameClaim, Onward, Moments, NoTime
<1>1. ASSUME NEW name \in Names, Start \/ Serve \/ Reconcile \/ RunChore(name) \/ CancelChore(name)
      PROVE  Carries
  <2>1. PICK definitions, table : TableStep(definitions, table)
    BY <1>0, <1>1, TableSteps
  <2>2. rows' = table /\ Continues(table, definitions) /\ UNCHANGED <<now, runs, submission>>
    BY <2>1 DEF TableStep, Adopt
  <2> QED BY <1>1, <2>2 DEF Carries, Continues, Carried, Start, Serve, Reconcile, RunChore, CancelChore
<1>2. ASSUME NEW name \in Names, Recover(name) PROVE Unclaims(name) \/ LeavesClaim(name)
  <2> DEFINE new == Recovered(rows[name])
  <2>1. /\ rows' = [rows EXCEPT ![name] = new] /\ scheduler = "recovering" /\ name \in recovering
        /\ recovering' = recovering \ {name} /\ UNCHANGED <<now, runs, scheduler, submission>>
    BY <1>2 DEF Recover, Replace
  <2>2. LET run == runs[rows[name].active] IN
           /\ rows[name].active # NoRun
           /\ \/ run.status = "active" /\ new = rows[name]
              \/ /\ new.active = NoRun
                 /\ \/ run.status \in Ended /\ new.next = rows[name].next
                    \/ /\ run.status = "issued"
                       /\ \/ new.next = rows[name].next
                          \/ rows[name].activeTrigger = "schedule" /\ new.next = rows[name].activeDue
                       /\ \/ new.pending # NoTime /\ new.pending <= rows[name].activeDue
                          \/ new.next # NoTime /\ new.next <= rows[name].activeDue
                          \/ /\ rows[name].activeTrigger = "schedule"
                             /\ rows[name].anchor = NoTime \/ rows[name].anchor >= rows[name].activeDue
    BY <1>0, <1>2, RecoveredRow
  <2> HIDE DEF new
  <2>3. CASE new = rows[name] /\ runs[rows[name].active].status = "active"
    <3>1. rows' = rows
      BY <1>0, <2>1, <2>3
    <3> QED BY <2>1, <2>3, <3>1 DEF LeavesClaim
  <2>4. rows'[name] = new /\ \A n \in Names : n # name => rows'[n] = rows[n]
    BY <1>0, <2>1
  <2> QED BY <2>1, <2>2, <2>3, <2>4 DEF Unclaims, Ended
<1>3. ASSUME NEW r \in Runs, FinishRun(r) \/ RejectClaim(r) \/ ReleaseClaim(r)
      PROVE  \E name \in Names : Unclaims(name)
  <2>1. PICK name \in Names : \E new :
              /\ name = runs[r].name /\ rows[name].active = r
              /\ Replace(name, new) /\ Sound(new) /\ new.active = NoRun
              /\ new.body = rows[name].body /\ new.schedule = rows[name].schedule
              /\ \/ new.next = rows[name].next
                 \/ /\ rows[name].activeTrigger = "schedule" /\ new.next = rows[name].activeDue
                    /\ submission[r] = "backoff"
              /\ \/ runs[r].status \in Ended
                 \/ submission[r] = "refused"
                 \/ new.pending # NoTime /\ new.pending <= rows[name].activeDue
                 \/ new.next # NoTime /\ new.next <= rows[name].activeDue
                 \/ /\ rows[name].activeTrigger = "schedule"
                    /\ rows[name].anchor = NoTime \/ rows[name].anchor >= rows[name].activeDue
              /\ submission' = [submission EXCEPT ![r] = "none"]
              /\ UNCHANGED <<now, accepted, runs, scheduler, paused, recovering, known>>
              /\ Serving /\ submission[r] \in {"waiting", "refused", "backoff"}
              /\ submission[r] = "waiting" => runs[r].status \in Ended
    BY <1>0, <1>3, SettledRow
  <2>2. PICK new :
              /\ rows' = [rows EXCEPT ![name] = new] /\ rows[name].active = r /\ new.active = NoRun
              /\ \/ new.next = rows[name].next
                 \/ /\ rows[name].activeTrigger = "schedule" /\ new.next = rows[name].activeDue
                    /\ submission[r] = "backoff"
              /\ \/ runs[r].status \in Ended
                 \/ submission[r] = "refused"
                 \/ new.pending # NoTime /\ new.pending <= rows[name].activeDue
                 \/ new.next # NoTime /\ new.next <= rows[name].activeDue
                 \/ /\ rows[name].activeTrigger = "schedule"
                    /\ rows[name].anchor = NoTime \/ rows[name].anchor >= rows[name].activeDue
    BY <2>1 DEF Replace
  <2>3. rows'[name] = new /\ (\A n \in Names : n # name => rows'[n] = rows[n]) /\ r # NoRun
    BY <1>0, <2>2 DEF Runs
  <2>4. /\ runs[r].status # "active"
        /\ submission[r] = "backoff" => runs[r].status = "issued"
    BY <1>0, <2>1 DEF SubmissionInv, Ended
  <2>5. Unclaims(name)
    BY <2>1, <2>2, <2>3, <2>4 DEF Unclaims
  <2> QED BY <2>5
<1>4. ASSUME NEW name \in Names, Dispatch(name) \/ RejectActivation(name)
      PROVE  Carries \/ \E r \in Runs : ClaimsFor(name, r)
  <2> DEFINE trigger == NextTrigger(records[name])
             r == CHOOSE s \in Unissued : \A t \in Unissued : s <= t
             due == DueConsumed(rows[name], known[name], trigger)
  <2>1. Due(name) /\ ~Refuses(rows[name], known[name], trigger)
        /\ UNCHANGED <<now, accepted, known, scheduler, paused, recovering>> /\ scheduler = "serving"
    BY <1>4 DEF Dispatch, RejectActivation, Due
  <2>2. /\ known[name] \in Definitions
        /\ known[name].body = rows[name].body /\ known[name].schedule = rows[name].schedule
        /\ trigger \in Requested \cup {"schedule"} /\ Sound(rows[name])
    BY <1>0, <2>1, DueFacts, Typed
  <2>3. CASE RejectActivation(name)
    <3> HIDE DEF trigger
    <3> DEFINE new == Rejected(rows[name], known[name], trigger)
    <3>1. rows' = [rows EXCEPT ![name] = new] /\ UNCHANGED <<runs, submission>>
      BY <2>3 DEF RejectActivation, trigger, Replace
    <3>2. Keeps(rows[name], new)
      BY <1>0, <2>1, <2>2, RejectedRow
    <3> HIDE DEF new
    <3>3. ASSUME NEW n \in Names
          PROVE  SameClaim(rows[n], rows'[n]) /\ Onward(rows[n], rows'[n])
      <4>1. CASE n = name
        BY <1>0, <3>1, <3>2, <4>1 DEF Keeps
      <4>2. CASE n # name
        <5>1. rows'[n] = rows[n]
          BY <1>0, <3>1, <4>2
        <5> QED BY <1>0, <5>1, Typed DEF SameClaim, Onward, Moments, NoTime
      <4> QED BY <4>1, <4>2
    <3> QED BY <2>1, <3>1, <3>3 DEF Carries, SameClaim
  <2>4. CASE Dispatch(name)
    <3>1. /\ Unissued # {}
          /\ Replace(name, Claimed(rows[name], known[name], trigger, r))
          /\ runs' = [runs EXCEPT ![r] = [status |-> "issued", name |-> name,
                                          trigger |-> trigger, due |-> due]]
          /\ submission' = [submission EXCEPT ![r] = "queued"]
      BY <2>4 DEF Dispatch
    <3>2. r \in Runs /\ runs[r].status = "unissued"
      <4>1. Unissued \in SUBSET Nat /\ Unissued \subseteq Runs
        BY DEF Unissued, Runs
      <4>2. \E s \in Unissued : \A t \in Unissued : s <= t
        BY <3>1, <4>1, Least
      <4>3. r \in Unissued
        BY <4>2
      <4> QED BY <4>1, <4>3 DEF Unissued
    <3> HIDE DEF trigger, r, due
    <3> DEFINE new == Claimed(rows[name], known[name], trigger, r)
    <3>3. /\ new.active = r /\ new.activeTrigger = trigger
          /\ new.activeDue = due /\ rows[name].active = NoRun /\ Onward(rows[name], new)
          /\ trigger = "schedule" => rows[name].next # NoTime /\ rows[name].next <= due
      BY <1>0, <2>1, <2>2, <3>2, ClaimedRow DEF due
    <3> HIDE DEF new
    <3>4. rows'[name] = new /\ (\A n \in Names : n # name => rows'[n] = rows[n])
      BY <1>0, <3>1 DEF Replace, new
    <3>5. /\ runs'[r].status = "issued" /\ runs'[r].name = name /\ runs'[r].trigger = trigger
          /\ runs'[r].due = due /\ submission'[r] = "queued"
          /\ \A s \in Runs : s # r => runs'[s] = runs[s] /\ submission'[s] = submission[s]
      BY <1>0, <3>1, <3>2
    <3>6. ClaimsFor(name, r)
      BY <2>1, <3>2, <3>3, <3>4, <3>5 DEF ClaimsFor
    <3> QED BY <3>2, <3>6
  <2> QED BY <1>4, <2>3, <2>4
<1>5. ASSUME NEW r \in Runs, Execute(r) \/ RunEnds(r) PROVE GoesOn(r)
  <2>1. UNCHANGED <<now, rows, scheduler, recovering>>
    BY <1>5 DEF Execute, RunEnds
  <2>2. runs[r] \in Run
    BY <1>0
  <2>3. \/ runs' = runs
        \/ \E status : runs' = [runs EXCEPT ![r].status = status]
    BY <1>5 DEF Execute, RunEnds
  <2>4. /\ runs'[r].name = runs[r].name /\ runs'[r].trigger = runs[r].trigger
        /\ runs'[r].due = runs[r].due
        /\ \A s \in Runs : s # r => runs'[s] = runs[s]
    BY <1>0, <2>2, <2>3 DEF Run
  <2>5. \A s \in Runs : s # r => submission'[s] = submission[s]
    BY <1>0, <1>5 DEF Execute, RunEnds
  <2>6. CASE Execute(r)
    <3>1. submission[r] = "queued"
      BY <2>6 DEF Execute
    <3>2. CASE runs' = [runs EXCEPT ![r].status = "active"] /\ submission' = [submission EXCEPT ![r] = "waiting"]
      <4>1. runs'[r].status = "active" /\ submission'[r] = "waiting"
        BY <1>0, <2>2, <3>2 DEF Run
      <4> QED BY <2>1, <2>4, <2>5, <3>1, <4>1 DEF GoesOn
    <3>3. CASE runs' = [runs EXCEPT ![r].status = "failed"] /\ submission' = [submission EXCEPT ![r] = "refused"]
      <4>1. runs'[r].status = "failed" /\ submission'[r] = "refused"
        BY <1>0, <2>2, <3>3 DEF Run
      <4> QED BY <2>1, <2>4, <2>5, <3>1, <4>1 DEF GoesOn
    <3>4. CASE UNCHANGED runs /\ \E result \in {"backoff", "refused"} : submission' = [submission EXCEPT ![r] = result]
      <4>1. runs'[r].status = runs[r].status /\ submission'[r] \in {"backoff", "refused"}
        BY <1>0, <3>4
      <4> QED BY <2>1, <2>4, <2>5, <3>1, <4>1 DEF GoesOn
    <3> QED BY <2>6, <3>2, <3>3, <3>4 DEF Execute
  <2>7. CASE RunEnds(r)
    <3>1. submission[r] = "waiting" /\ runs[r].status = "active" /\ submission' = submission
          /\ \E status \in Ended : runs' = [runs EXCEPT ![r].status = status]
      BY <2>7 DEF RunEnds
    <3>2. runs'[r].status \in Ended
      BY <1>0, <2>2, <3>1 DEF Run
    <3> QED BY <2>1, <2>4, <2>5, <3>1, <3>2 DEF GoesOn
  <2> QED BY <1>5, <2>6, <2>7
<1>6. CASE Forget /\ UNCHANGED <<now, accepted, rows, runs>>
  BY <1>a, <1>6 DEF Forget, Carries
<1>7. CASE Pause \/ Stop \/ (\E name \in Names : Publish(name)) \/ UNCHANGED vars
  BY <1>a, <1>7 DEF Pause, Stop, Publish, vars, Carries
<1>8. CASE Tick
  BY <1>8 DEF Tick, TimePasses
<1>9. CASE Crash \/ Drained
  BY <1>6, <1>9 DEF Crash, Drained
<1>10. Names # {}
  OBVIOUS
<1> QED BY ONLY [Next]_vars, <1>1, <1>2, <1>3, <1>4, <1>5, <1>7, <1>8, <1>9, <1>10
        DEF Next, Startup, Dispatching, Settling, Execution, Commands, World

----------------------------------------------------------------------------

\* What the rest of the invariant is needed for, as the lemmas below use it.
LEMMA Known ==
    ASSUME ChoresInv
    PROVE  /\ TypeOK /\ RowsInv /\ ClaimInv /\ SubmissionInv /\ RecoverInv /\ DueInv
           /\ ClaimsMatchRuns /\ OccurrenceOnce
           /\ now \in Nat /\ NoRun \notin Runs
           /\ \A name \in Names :
                /\ rows[name].active \in Runs \cup {NoRun}
                /\ rows[name].next \in Moments /\ rows[name].activeDue \in Moments
                /\ ClaimTimed(rows[name])
           /\ \A r \in Runs : runs[r].name \in Names /\ runs[r].due \in Moments
  <1>1. NoRun \notin Runs
    BY DEF Runs
  <1> QED BY <1>1, Typed DEF ChoresInv, RowsInv, RowTimed

\* A claim and its run go on knowing each other.
LEMMA ClaimStep == ChoresInv /\ [Next]_vars => ClaimInv'
<1> SUFFICES ASSUME ChoresInv, [Next]_vars, NEW name \in Names, rows'[name].active # NoRun
             PROVE  LET run == runs'[rows'[name].active] IN
                    /\ run.status # "unissued" /\ run.name = name
                    /\ run.trigger = rows'[name].activeTrigger /\ run.due = rows'[name].activeDue
  BY DEF ClaimInv
<1>1. CASE Carries
  BY <1>1, Known DEF Carries, ClaimInv, SameClaim
<1>2. ASSUME NEW n \in Names, NEW r \in Runs, ClaimsFor(n, r)
      PROVE  LET run == runs'[rows'[name].active] IN
                /\ run.status # "unissued" /\ run.name = name
                /\ run.trigger = rows'[name].activeTrigger /\ run.due = rows'[name].activeDue
  BY <1>2, Known DEF ClaimsFor, ClaimInv
<1>3. ASSUME NEW n \in Names, Unclaims(n) \/ LeavesClaim(n)
      PROVE  LET run == runs'[rows'[name].active] IN
                /\ run.status # "unissued" /\ run.name = name
                /\ run.trigger = rows'[name].activeTrigger /\ run.due = rows'[name].activeDue
  BY <1>3, Known DEF Unclaims, LeavesClaim, ClaimInv
<1>4. ASSUME NEW r \in Runs, GoesOn(r)
      PROVE  LET run == runs'[rows'[name].active] IN
                /\ run.status # "unissued" /\ run.name = name
                /\ run.trigger = rows'[name].activeTrigger /\ run.due = rows'[name].activeDue
  BY <1>4, Known DEF GoesOn, ClaimInv, Ended
<1>5. CASE TimePasses
  BY <1>5, Known DEF TimePasses, ClaimInv
<1> QED BY <1>1, <1>2, <1>3, <1>4, <1>5, Effects

\* A run that is waited for stays claimed until its waiter has settled it.
LEMMA SubmissionStep == ChoresInv /\ [Next]_vars => SubmissionInv'
<1> DEFINE Holds(s) ==
        /\ scheduler' \in {"serving", "draining"}
        /\ rows'[runs'[s].name].active = s
        /\ submission'[s] = "queued" => runs'[s].status = "issued"
        /\ submission'[s] = "waiting" => runs'[s].status \in {"active"} \cup Ended
        /\ submission'[s] = "backoff" => runs'[s].status = "issued"
        /\ submission'[s] = "refused" => runs'[s].status \in {"issued", "failed"}
<1> SUFFICES ASSUME ChoresInv, [Next]_vars, NEW s \in Runs, submission'[s] # "none" PROVE Holds(s)
  BY DEF SubmissionInv
<1>1. CASE Carries
  BY <1>1, Known DEF Carries, SubmissionInv
<1>2. ASSUME NEW n \in Names, NEW r \in Runs, ClaimsFor(n, r) PROVE Holds(s)
  <2>1. CASE s = r
    BY <1>2, <2>1 DEF ClaimsFor
  <2>2. CASE s # r
    <3>1. runs'[s] = runs[s] /\ submission'[s] = submission[s] /\ runs[s].name # n
      BY <1>2, <2>2, Known DEF ClaimsFor, SubmissionInv
    <3> QED BY <1>2, <3>1, Known DEF ClaimsFor, SubmissionInv
  <2> QED BY <2>1, <2>2
<1>3. ASSUME NEW n \in Names, Unclaims(n) PROVE Holds(s)
  <2>1. rows[n].active \in Runs /\ submission \in [Runs -> {"none", "queued", "waiting", "backoff", "refused"}]
    BY <1>3, Known DEF Unclaims, TypeOK
  <2>2. /\ submission' = [submission EXCEPT ![rows[n].active] = "none"]
        /\ scheduler' = scheduler /\ runs' = runs
    BY <1>3, Known DEF Unclaims, SubmissionInv
  <2>3. s # rows[n].active /\ submission'[s] = submission[s]
    BY <2>1, <2>2
  <2>4. runs[s].name # n
    BY <2>3, Known DEF SubmissionInv
  <2>5. rows'[runs[s].name] = rows[runs[s].name]
    BY <1>3, <2>4, Known DEF Unclaims
  <2> QED BY <2>2, <2>3, <2>5, Known DEF SubmissionInv
<1>4. ASSUME NEW n \in Names, LeavesClaim(n) PROVE Holds(s)
  BY <1>4, Known DEF LeavesClaim, SubmissionInv
<1>5. ASSUME NEW r \in Runs, GoesOn(r) PROVE Holds(s)
  <2>1. CASE s = r
    BY <1>5, <2>1, Known DEF GoesOn, SubmissionInv, Ended
  <2>2. CASE s # r
    BY <1>5, <2>2, Known DEF GoesOn, SubmissionInv
  <2> QED BY <2>1, <2>2
<1>6. CASE TimePasses
  BY <1>6, Known DEF TimePasses, SubmissionInv
<1> QED BY <1>1, <1>2, <1>3, <1>4, <1>5, <1>6, Effects

\* Recovery visits every claim it has not left to a run that was cut off.
LEMMA RecoverStep == ChoresInv /\ [Next]_vars => RecoverInv'
<1> SUFFICES ASSUME ChoresInv, [Next]_vars, scheduler' = "recovering", NEW name \in Names
             PROVE  /\ name \in recovering' => rows'[name].active # NoRun
                    /\ name \notin recovering' /\ rows'[name].active # NoRun =>
                            runs'[rows'[name].active].status = "active"
  BY DEF RecoverInv
<1>1. CASE Carries
  BY <1>1, Known DEF Carries, RecoverInv
<1>2. ASSUME NEW n \in Names, Unclaims(n) \/ LeavesClaim(n)
      PROVE  /\ name \in recovering' => rows'[name].active # NoRun
             /\ name \notin recovering' /\ rows'[name].active # NoRun =>
                     runs'[rows'[name].active].status = "active"
  BY <1>2, Known DEF Unclaims, LeavesClaim, RecoverInv, Serving
<1>3. ASSUME NEW r \in Runs, GoesOn(r) PROVE FALSE
  BY <1>3, Known DEF GoesOn, SubmissionInv
<1>4. CASE TimePasses
  BY <1>4, Known DEF TimePasses, RecoverInv
<1>5. ~ \E n \in Names, r \in Runs : ClaimsFor(n, r)
  BY DEF ClaimsFor
<1> QED BY <1>1, <1>2, <1>3, <1>4, <1>5, Effects

\* The schedule of a chore stays behind what was executed for it.
LEMMA DueStep == ChoresInv /\ [Next]_vars => DueInv'
<1> DEFINE Holds(name, s) ==
        /\ runs'[s].due # NoTime /\ runs'[s].due <= now'
        /\ rows'[name].next # NoTime => runs'[s].due < rows'[name].next
        /\ rows'[name].active # NoRun /\ rows'[name].activeTrigger = "schedule"
             /\ rows'[name].active # s
            => runs'[s].due < rows'[name].activeDue
<1> SUFFICES ASSUME ChoresInv, CoreInv', [Next]_vars, NEW name \in Names, NEW s \in Runs,
                    runs'[s].name = name, runs'[s].trigger = "schedule",
                    runs'[s].status \in {"active"} \cup Ended
             PROVE  Holds(name, s)
  BY CoreStep DEF DueInv, Executed
<1>0. rows'[name].next \in Moments
  BY RowFields DEF CoreInv, TypeOK
<1>1. CASE Carries
  <2>1. Executed(s, name) /\ runs' = runs /\ now' = now
    BY <1>1 DEF Carries, Executed
  <2>2. /\ runs[s].due # NoTime /\ runs[s].due <= now
        /\ rows[name].next # NoTime => runs[s].due < rows[name].next
        /\ rows[name].active # NoRun /\ rows[name].activeTrigger = "schedule" /\ rows[name].active # s
            => runs[s].due < rows[name].activeDue
    BY <2>1, Known DEF DueInv
  <2>3. /\ rows'[name].active = rows[name].active /\ Onward(rows[name], rows'[name])
        /\ rows[name].active # NoRun => SameClaim(rows[name], rows'[name])
    BY <1>1 DEF Carries
  <2>4. rows'[name].next # NoTime => runs[s].due < rows'[name].next
    BY <1>0, <2>2, <2>3, Known DEF Onward, Moments, NoTime
  <2> QED BY <2>1, <2>2, <2>3, <2>4 DEF SameClaim
<1>2. ASSUME NEW n \in Names, NEW r \in Runs, ClaimsFor(n, r) PROVE Holds(name, s)
  <2>1. s # r /\ runs'[s] = runs[s] /\ now' = now
    BY <1>2 DEF ClaimsFor, Ended
  <2>2. /\ runs[s].due # NoTime /\ runs[s].due <= now /\ runs[s].due \in Moments
        /\ rows[name].next # NoTime => runs[s].due < rows[name].next
        /\ rows[name].active # NoRun /\ rows[name].activeTrigger = "schedule" /\ rows[name].active # s
            => runs[s].due < rows[name].activeDue
    BY <2>1, Known DEF DueInv, Executed
  <2>3. CASE n = name
    <3>1. /\ Onward(rows[name], rows'[name])
          /\ rows'[name].activeTrigger = "schedule" =>
                rows[name].next # NoTime /\ rows[name].next <= rows'[name].activeDue
      BY <1>2, <2>3 DEF ClaimsFor
    <3>2. rows'[name].next # NoTime => runs[s].due < rows'[name].next
      BY <1>0, <2>2, <3>1, Known DEF Onward, Moments, NoTime
    <3>3. rows'[name].activeDue \in Moments
      BY RowFields DEF CoreInv, TypeOK
    <3>4. rows'[name].activeTrigger = "schedule" => runs[s].due < rows'[name].activeDue
      BY <2>2, <3>1, <3>3, Known DEF Moments, NoTime
    <3> QED BY <2>1, <2>2, <3>2, <3>4
  <2>4. CASE n # name
    <3>1. rows'[name] = rows[name]
      BY <1>2, <2>4 DEF ClaimsFor
    <3> QED BY <2>1, <2>2, <3>1
  <2> QED BY <2>3, <2>4
<1>3. ASSUME NEW n \in Names, Unclaims(n) PROVE Holds(name, s)
  <2>1. runs' = runs /\ now' = now /\ Executed(s, name)
    BY <1>3 DEF Unclaims, Executed
  <2>2. /\ runs[s].due # NoTime /\ runs[s].due <= now
        /\ rows[name].next # NoTime => runs[s].due < rows[name].next
        /\ rows[name].active # NoRun /\ rows[name].activeTrigger = "schedule" /\ rows[name].active # s
            => runs[s].due < rows[name].activeDue
    BY <2>1, Known DEF DueInv
  <2>3. CASE n = name
    <3>1. rows'[name].active = NoRun /\ rows[name].active # NoRun
      BY <1>3, <2>3 DEF Unclaims
    <3>2. CASE rows'[name].next = rows[name].next
      BY <2>1, <2>2, <3>1, <3>2
    <3>3. CASE /\ rows[name].activeTrigger = "schedule" /\ rows'[name].next = rows[name].activeDue
               /\ runs[rows[name].active].status = "issued"
      <4>1. rows[name].active # s
        BY <2>1, <3>3 DEF Executed, Ended
      <4> QED BY <2>1, <2>2, <3>1, <3>3, <4>1
    <3> QED BY <1>3, <2>3, <3>2, <3>3 DEF Unclaims
  <2>4. CASE n # name
    <3>1. rows'[name] = rows[name]
      BY <1>3, <2>4 DEF Unclaims
    <3> QED BY <2>1, <2>2, <3>1
  <2> QED BY <2>3, <2>4
<1>4. ASSUME NEW n \in Names, LeavesClaim(n) PROVE Holds(name, s)
  BY <1>4, Known DEF LeavesClaim, DueInv, Executed
<1>5. ASSUME NEW r \in Runs, GoesOn(r) PROVE Holds(name, s)
  <2>1. rows' = rows /\ now' = now
    BY <1>5 DEF GoesOn
  <2>2. CASE s = r /\ submission[r] = "queued"
    <3>1. rows[name].active = s /\ runs[s].name = name /\ runs[s].trigger = "schedule"
          /\ runs'[s].due = runs[s].due
      BY <1>5, <2>2, Known DEF GoesOn, SubmissionInv
    <3>2. rows[name].activeTrigger = "schedule" /\ runs[s].due = rows[name].activeDue
      BY <3>1, Known DEF ClaimInv
    <3> QED BY <2>1, <3>1, <3>2, Known DEF ClaimTimed
  <2>3. CASE s = r /\ submission[r] # "queued"
    <3>1. Executed(s, name) /\ runs'[s].due = runs[s].due
      BY <1>5, <2>3 DEF GoesOn, Executed
    <3> QED BY <2>1, <3>1, Known DEF DueInv
  <2>4. CASE s # r
    <3>1. Executed(s, name) /\ runs'[s] = runs[s]
      BY <1>5, <2>4 DEF GoesOn, Executed
    <3> QED BY <2>1, <3>1, Known DEF DueInv
  <2> QED BY <2>2, <2>3, <2>4
<1>6. CASE TimePasses
  <2>1. Executed(s, name) /\ rows' = rows /\ runs' = runs /\ now' = now + 1
    BY <1>6 DEF TimePasses, Executed
  <2>2. runs[s].due # NoTime /\ runs[s].due <= now /\ runs[s].due \in Moments
    BY <2>1, Known DEF DueInv
  <2>3. runs[s].due <= now'
    BY <2>1, <2>2, Known DEF Moments, NoTime
  <2> QED BY <2>1, <2>2, <2>3, Known DEF DueInv
<1> QED BY <1>1, <1>2, <1>3, <1>4, <1>5, <1>6, Effects

\* A run that may still be executing is claimed, and a claim has somebody to
\* settle it, or such a run.
LEMMA ClaimsStep == ChoresInv /\ [Next]_vars => ClaimsMatchRuns'
<1> SUFFICES ASSUME ChoresInv, [Next]_vars PROVE ClaimsMatchRuns'
  OBVIOUS
<1>1. ASSUME NEW s \in Runs, runs'[s].status = "active" PROVE rows'[runs'[s].name].active = s
  <2>1. CASE Carries
    BY <1>1, <2>1, Known DEF Carries, ClaimsMatchRuns
  <2>2. ASSUME NEW n \in Names, NEW r \in Runs, ClaimsFor(n, r) PROVE rows'[runs'[s].name].active = s
    BY <1>1, <2>2, Known DEF ClaimsFor, ClaimsMatchRuns
  <2>3. ASSUME NEW n \in Names, Unclaims(n) \/ LeavesClaim(n) PROVE rows'[runs'[s].name].active = s
    BY <1>1, <2>3, Known DEF Unclaims, LeavesClaim, ClaimsMatchRuns
  <2>4. ASSUME NEW r \in Runs, GoesOn(r) PROVE rows'[runs'[s].name].active = s
    <3>1. CASE s = r
      BY <1>1, <2>4, <3>1, Known DEF GoesOn, ClaimsMatchRuns, SubmissionInv, Ended
    <3>2. CASE s # r
      BY <1>1, <2>4, <3>2, Known DEF GoesOn, ClaimsMatchRuns
    <3> QED BY <3>1, <3>2
  <2>5. CASE TimePasses
    BY <1>1, <2>5, Known DEF TimePasses, ClaimsMatchRuns
  <2> QED BY <2>1, <2>2, <2>3, <2>4, <2>5, Effects
<1>2. ASSUME scheduler' = "serving", NEW name \in Names, NEW s \in Runs, rows'[name].active = s
      PROVE  submission'[s] # "none" \/ runs'[s].status = "active"
  <2>1. CASE Carries
    <3>1. rows[name].active = s /\ runs' = runs
      BY <2>1, <1>2 DEF Carries
    <3>2. CASE scheduler = "serving" /\ submission' = submission
      BY <3>1, <3>2, Known DEF ClaimsMatchRuns
    <3>3. CASE scheduler = "recovering" /\ recovering = {}
      BY <3>1, <3>3, Known DEF RecoverInv
    <3> QED BY <1>2, <2>1, <3>2, <3>3 DEF Carries
  <2>2. ASSUME NEW n \in Names, NEW r \in Runs, ClaimsFor(n, r)
        PROVE  submission'[s] # "none" \/ runs'[s].status = "active"
    <3>1. CASE s = r
      BY <2>2, <3>1 DEF ClaimsFor
    <3>2. CASE s # r
      BY <1>2, <2>2, <3>2, Known DEF ClaimsFor, ClaimsMatchRuns
    <3> QED BY <3>1, <3>2
  <2>3. ASSUME NEW n \in Names, Unclaims(n)
        PROVE  submission'[s] # "none" \/ runs'[s].status = "active"
    <3>1. n # name /\ rows[name].active = s /\ runs' = runs /\ scheduler = "serving"
          /\ rows[n].active # NoRun
      BY <1>2, <2>3, Known DEF Unclaims
    <3>2. rows[n].active # s
      BY <3>1, Known DEF ClaimInv
    <3>3. submission'[s] = submission[s]
      BY <2>3, <3>1, <3>2, Known DEF Unclaims, TypeOK
    <3> QED BY <3>1, <3>3, Known DEF ClaimsMatchRuns
  <2>4. ASSUME NEW n \in Names, LeavesClaim(n) PROVE FALSE
    BY <1>2, <2>4 DEF LeavesClaim
  <2>5. ASSUME NEW r \in Runs, GoesOn(r)
        PROVE  submission'[s] # "none" \/ runs'[s].status = "active"
    <3>1. CASE s = r
      BY <2>5, <3>1 DEF GoesOn
    <3>2. CASE s # r
      BY <1>2, <2>5, <3>2, Known DEF GoesOn, ClaimsMatchRuns
    <3> QED BY <3>1, <3>2
  <2>6. CASE TimePasses
    BY <1>2, <2>6, Known DEF TimePasses, ClaimsMatchRuns
  <2> QED BY <2>1, <2>2, <2>3, <2>4, <2>5, <2>6, Effects
<1> QED BY <1>1, <1>2 DEF ClaimsMatchRuns

\* An occurrence that is executed is later than those executed before it.
LEMMA OccurrenceStep == ChoresInv /\ [Next]_vars => OccurrenceOnce'
<1> SUFFICES ASSUME ChoresInv, [Next]_vars, NEW a \in Runs, NEW b \in Runs, a # b,
                    runs'[a].name = runs'[b].name,
                    runs'[a].trigger = "schedule", runs'[b].trigger = "schedule",
                    runs'[a].status \in Ended \cup {"active"}, runs'[b].status \in Ended \cup {"active"}
             PROVE  runs'[a].due # runs'[b].due
  BY DEF OccurrenceOnce
<1>1. CASE runs' = runs
  BY <1>1, Known DEF OccurrenceOnce
<1>2. ASSUME NEW n \in Names, NEW r \in Runs, ClaimsFor(n, r) PROVE runs'[a].due # runs'[b].due
  <2>1. a # r /\ b # r
    BY <1>2 DEF ClaimsFor, Ended
  <2>2. runs'[a] = runs[a] /\ runs'[b] = runs[b]
    BY <1>2, <2>1 DEF ClaimsFor
  <2> QED BY <2>2, Known DEF OccurrenceOnce
<1>3. ASSUME NEW r \in Runs, GoesOn(r) PROVE runs'[a].due # runs'[b].due
  <2>1. ASSUME NEW x \in Runs, NEW y \in Runs, x = r, y # r, runs'[x].name = runs'[y].name,
               runs'[x].trigger = "schedule", runs'[y].trigger = "schedule",
               runs'[x].status \in Ended \cup {"active"}, runs'[y].status \in Ended \cup {"active"}
        PROVE  runs'[x].due # runs'[y].due
    <3>1. /\ runs'[y] = runs[y] /\ runs'[x].name = runs[x].name
          /\ runs'[x].trigger = runs[x].trigger /\ runs'[x].due = runs[x].due
      BY <1>3, <2>1 DEF GoesOn
    <3>2. CASE submission[x] = "queued"
      <4>1. rows[runs[x].name].active = x /\ runs[x].name \in Names /\ x # NoRun
        BY <3>2, Known DEF SubmissionInv
      <4>2. rows[runs[x].name].activeTrigger = "schedule" /\ rows[runs[x].name].activeDue = runs[x].due
        BY <2>1, <3>1, <4>1, Known DEF ClaimInv
      <4>3. Executed(y, runs[x].name)
        BY <2>1, <3>1 DEF Executed
      <4>4. runs[y].due < runs[x].due
        BY <2>1, <4>1, <4>2, <4>3, Known DEF DueInv
      <4> QED BY <3>1, <4>4, Known DEF Moments, NoTime
    <3>3. CASE submission[x] # "queued"
      <4>1. runs[x].status = "active"
        BY <1>3, <2>1, <3>3 DEF GoesOn
      <4> QED BY <2>1, <3>1, <4>1, Known DEF OccurrenceOnce
    <3> QED BY <3>2, <3>3
  <2>2. CASE a # r /\ b # r
    <3>1. runs'[a] = runs[a] /\ runs'[b] = runs[b]
      BY <1>3, <2>2 DEF GoesOn
    <3> QED BY <3>1, Known DEF OccurrenceOnce
  <2> QED BY <2>1, <2>2
<1>4. CASE Carries \/ TimePasses \/ \E n \in Names : Unclaims(n) \/ LeavesClaim(n)
  BY <1>1, <1>4 DEF Carries, TimePasses, Unclaims, LeavesClaim
<1> QED BY <1>2, <1>3, <1>4, Effects

----------------------------------------------------------------------------

\* The invariant of the chores holds of every reachable state.
THEOREM ChoresHold == Spec => []ChoresInv
<1>1. ChoresInv /\ [Next]_vars => ChoresInv'
  BY CoreStep, ClaimStep, SubmissionStep, RecoverStep, DueStep, ClaimsStep, OccurrenceStep
     DEF ChoresInv, CoreInv
<1> QED BY InitChores, <1>1, PTL DEF Spec

\* Every variable has its type.
THEOREM ChoresTypes == Spec => []TypeOK
<1>1. ChoresInv => TypeOK
  BY DEF ChoresInv
<1> QED BY ChoresHold, <1>1, PTL

\* The status of a row says what its columns say, after every transaction of
\* the store.
THEOREM StatusHolds == Spec => []StatusAgrees
<1>1. ChoresInv => StatusAgrees
  BY DEF ChoresInv, RowsInv, RowAgrees, StatusAgrees
<1> QED BY ChoresHold, <1>1, PTL

\* The store refuses nothing that the heap says is due: an activation on the
\* heap is in the columns, and an occurrence of its schedule has come.
LEMMA DueIsAccepted ==
    ASSUME TypeOK, RowsInv, MemoryInv, NEW name \in Names, Due(name)
    PROVE  ~Refuses(rows[name], known[name], NextTrigger(records[name]))
<1> DEFINE row == rows[name]
           definition == known[name]
           trigger == NextTrigger(records[name])
<1>1. /\ definition \in Definitions /\ definition.schedule = row.schedule
      /\ records[name] = row /\ trigger \in Requested \cup {"schedule"}
      /\ row \in Row /\ Sound(row) /\ now \in Nat
  BY DueFacts, Typed
<1>2. /\ row.pending \in Moments /\ row.next \in Moments /\ row.anchor \in Moments
      /\ row.schedule \in SUBSET Nat
  BY <1>1, RowFields
<1>3. /\ queued[name] = NextDue(row) /\ queued[name] # NoTime /\ queued[name] <= now
  BY <1>1 DEF Due, MemoryInv, Entry
<1>4. /\ row.active = NoRun /\ Earliest(row.pending, row.next) # NoTime
      /\ Earliest(row.pending, row.next) <= now
  BY <1>3 DEF NextDue
<1>5. CASE trigger \in Requested
  <2>1. /\ row.pending # NoTime /\ (row.next = NoTime \/ row.pending <= row.next)
        /\ trigger = row.pendingTrigger
    BY <1>1, <1>2, <1>5 DEF NextTrigger, Requested, Moments
  <2>2. row.pending <= now
    BY <1>2, <1>4, <2>1 DEF Earliest, Moments, NoTime
  <2>3. trigger # "schedule"
    BY <1>5 DEF Requested
  <2>4. row.pending \in Nat
    BY <1>2, <2>1 DEF Moments
  <2>5. ~(row.pending > now)
    BY <1>1, <2>2, <2>4
  <2>6. row.active = NoRun
    BY <1>4
  <2> QED BY <2>1, <2>3, <2>5, <2>6 DEF Refuses
<1>6. CASE trigger = "schedule"
  <2>1. row.pending # NoTime => row.pendingTrigger \in Requested
    BY <1>1 DEF Sound, RowTimed, RequestTimed
  <2>2. row.next # NoTime /\ (row.pending = NoTime \/ row.next <= row.pending)
    BY <1>1, <1>2, <1>4, <1>6, <2>1 DEF NextTrigger, Requested, Moments, Earliest
  <2>3. row.next \in Nat /\ row.next <= now
    BY <1>2, <1>4, <2>2 DEF Earliest, Moments, NoTime
  <2>4. row.anchor \in Nat /\ row.next \in Occurrences(row.schedule, row.anchor)
    BY <1>1, <1>2, <2>2 DEF Sound, RowTimed, NextTimed, Moments
  <2>5. Before(row.schedule, row.anchor, now) # NoTime
    BY <1>1, <1>2, <2>3, <2>4, BeforeFacts
  <2>6. row.schedule # Once
    BY <2>4 DEF Occurrences, Once
  <2> QED BY <1>1, <1>4, <1>6, <2>2, <2>3, <2>4, <2>5, <2>6 DEF Refuses, Requested, NoTime
<1> QED BY <1>1, <1>5, <1>6

\* The records, the heap and the known definitions of a serving scheduler are
\* those of the rows, and nothing that is due is refused.
THEOREM MemoryHolds == Spec => []MemoryMatches
<1>1. ChoresInv => MemoryMatches
  BY DueIsAccepted DEF ChoresInv, MemoryInv, MemoryMatches
<1> QED BY ChoresHold, <1>1, PTL

\* A chore executes one run at a time, and no claim is left without anybody to
\* settle it but that of a run that was cut off.
THEOREM ClaimsHold == Spec => []ClaimsMatchRuns
<1>1. ChoresInv => ClaimsMatchRuns
  BY DEF ChoresInv
<1> QED BY ChoresHold, <1>1, PTL

\* A scheduled occurrence is executed once, whatever is released, edited or
\* recovered in between (_consume_activation, release_claim, _upsert_locked).
THEOREM OccurrenceHolds == Spec => []OccurrenceOnce
<1>1. ChoresInv => OccurrenceOnce
  BY DEF ChoresInv
<1> QED BY ChoresHold, <1>1, PTL

\* A claim is given up only when its run ended or was refused, or with its
\* activation put back, unless its schedule started again (finish_run,
\* reject_claim, release_claim and _recover_active).
THEOREM SettlingHolds == Spec => ClaimIsSettled
<1> DEFINE Settles1 == \A name \in Names :
        rows[name].active # NoRun /\ rows'[name].active # rows[name].active =>
            \/ runs[rows[name].active].status \in Ended
            \/ submission[rows[name].active] = "refused"
            \/ rows'[name].pending # NoTime /\ rows'[name].pending <= rows[name].activeDue
            \/ rows'[name].next # NoTime /\ rows'[name].next <= rows[name].activeDue
            \/ /\ rows[name].activeTrigger = "schedule"
               /\ rows[name].anchor = NoTime \/ rows[name].anchor >= rows[name].activeDue
<1>1. ChoresInv /\ [Next]_vars => [Settles1]_vars
  <2> SUFFICES ASSUME ChoresInv, [Next]_vars PROVE Settles1
    OBVIOUS
  <2>1. CASE Carries
    BY <2>1 DEF Carries
  <2>2. ASSUME NEW n \in Names, NEW r \in Runs, ClaimsFor(n, r) PROVE Settles1
    BY <2>2 DEF ClaimsFor
  <2>3. ASSUME NEW n \in Names, Unclaims(n) PROVE Settles1
    BY <2>3 DEF Unclaims
  <2>4. CASE TimePasses \/ (\E n \in Names : LeavesClaim(n)) \/ \E r \in Runs : GoesOn(r)
    BY <2>4 DEF TimePasses, LeavesClaim, GoesOn
  <2> QED BY <2>1, <2>2, <2>3, <2>4, Effects
<1> QED BY ChoresHold, <1>1, PTL DEF Spec, ClaimIsSettled

====
