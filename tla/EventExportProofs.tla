-------------------------- MODULE EventExportProofs --------------------------
(***************************************************************************)
(* Proofs about the publication of an agent to the hub, for any number of  *)
(* events, generations, processes and faults, as long as at most one       *)
(* request at a time outlives its caller (MaxLate <= 1): with two of them  *)
(* ContentIsExact is not an invariant.                                     *)
(*                                                                         *)
(* What the hub keeps is stated of a hub record h and a follower f, apart  *)
(* from the exporter (HubInv), so that the operations of the hub are dealt *)
(* with once, whether they are answered, lost or late.  What the exporter  *)
(* relies on is stated of h as well (ExportAt): a call moves the hub first *)
(* and the exporter then goes on.                                          *)
(*                                                                         *)
(* The refinement of EventOutbox rests on a second invariant (PosInv) and  *)
(* comes last.                                                             *)
(***************************************************************************)
EXTENDS EventExport, TLAPS, FiniteSetTheorems

(***************************************************************************)
(* Types, with numbers where TypeOK has bounds.                            *)
(***************************************************************************)

MirrorType == [epoch : Nat, generation : Generations \cup {None}, highwater : Nat,
               projection : SUBSET Nat, reason : Reasons,
               old : Generations \cup {None}, oldStaging : Generations \cup {None}]

ReaderType == [acquired : Nat, lost : BOOLEAN]

FollowerType == [phase : {"out", "captured", "read", "following"}, epoch : Nat,
                 token : Nat, generation : Generations \cup {None},
                 complete : BOOLEAN, view : SUBSET Nat]

(* At most one request is on its way. *)
SlotInv == late = {} \/ \E op \in Operation : late = {op}

Typed ==
    /\ facts \in Nat /\ process \in Nat
    /\ hub \in Hub
    /\ pc \in Steps
    /\ mirror \in MirrorType
    /\ reader \in ReaderType
    /\ follower \in FollowerType
    /\ SlotInv

(* The hub without the entries and revisions that a follower f is not      *)
(* there to read.                                                          *)
Kept(h, f) ==
    [h EXCEPT !.entries = IF f.phase = "out" THEN <<>> ELSE @,
              !.revision = IF f.phase \in {"captured", "read"} THEN @ ELSE 0]

(***************************************************************************)
(* The invariant: what the hub keeps.                                      *)
(***************************************************************************)

(* The live generation is the structure up to the source it has, whatever  *)
(* the status; a table that is staged is the structure up to its own.      *)
LiveIsExact(h) ==
    h.generation # None =>
        /\ h.tables[h.generation].present /\ ~h.tables[h.generation].expiring
        /\ h.tables[h.generation].entities = Structure(h.source)
StagedIsExact(h) ==
    \A g \in Generations :
        g # h.generation /\ h.tables[g].present => h.tables[g].entities = Structure(h.tables[g].source)

(* A recovery is under way, or the agent is complete.                      *)
StatusAgrees(h) ==
    /\ h.staging # None => h.status = "incomplete"
    /\ h.status = "complete" => h.generation # None

(* What the last operation made of the row is still so.                    *)
LastAgrees(h) ==
    /\ h.last.kind = "recover" =>
          h.staging = None /\ h.generation = h.last.generation /\ h.source = h.last.at
    /\ h.last.kind = "event" => h.generation = h.last.generation /\ h.source = h.last.at

EntriesOf(h) == {h.entries[i].at : i \in DOMAIN h.entries} \ Parts
EventsOnly(h) == \A i \in DOMAIN h.entries : h.entries[i].kind = "event"

(* A follower f that has captured the row, as long as it meets no entry of *)
(* a recovery.                                                             *)
RowIsFollowed(h, f) ==
    f.phase # "out" /\ h.epoch = f.epoch /\ EventsOnly(h) =>
        /\ h.generation = f.generation
        /\ f.complete => h.status = "complete"
        /\ \A i \in DOMAIN h.entries : h.entries[i].at <= h.source
        /\ \A i, j \in DOMAIN h.entries : i < j => h.entries[i].at < h.entries[j].at
TableIsFollowed(h, f) ==
    /\ f.phase \in {"captured", "read"} /\ h.epoch = f.epoch /\ h.revision = 0 =>
          /\ EventsOnly(h) /\ EntriesOf(h) = {}
          /\ f.phase = "read" /\ h.generation # None => f.view = h.tables[h.generation].entities
    /\ f.phase = "following" /\ h.epoch = f.epoch /\ EventsOnly(h) /\ h.generation # None =>
          /\ f.view \cup EntriesOf(h) = h.tables[h.generation].entities
          /\ f.view \cap EntriesOf(h) = {}

HubInv(h, f) ==
    /\ LiveIsExact(h) /\ StagedIsExact(h) /\ StatusAgrees(h) /\ LastAgrees(h)
    /\ RowIsFollowed(h, f) /\ TableIsFollowed(h, f)

(***************************************************************************)
(* The invariant: the requests on their way, and the exporter.             *)
(***************************************************************************)

(* What is asked of the hub h makes no table what it is not.               *)
Sound(h, op) ==
    /\ op.kind \in {"stage", "recover"} => op.generation # None
    /\ op.kind = "event" => op.at = op.prior + 1
    /\ op.kind = "stage" =>
          /\ op.entities = Structure(op.at)
          /\ h.staging = op.generation => h.generation # op.generation
    /\ op.kind = "recover" =>
          (h.staging = op.generation /\ h.generation = op.generation => h.source = op.at)

Publishing == {"serve", "publish"}
Serving == Publishing \cup {"done"}
Before == {"abandon", "incomplete", "snapshot", "stage"}
Underway == Before \cup {"commit"} \cup Serving

Position == mirror.highwater + (IF pc = "publish" THEN 1 ELSE 0)

(* An operation with the exporter's generation is one of this recovery.    *)
OwnEvent(op) ==
    op.kind = "event" =>
        /\ pc \in Serving /\ op.at <= Position
        /\ op = [Call("event") EXCEPT !.at = op.at, !.prior = op.prior] /\ op.at = op.prior + 1
Own(op) ==
    /\ OwnEvent(op)
    /\ op.kind = "incomplete" => pc # "abandon" /\ (pc = "incomplete" => op = IncompleteCall)
    /\ op.kind = "stage" => pc \notin {"abandon", "incomplete", "snapshot"}
    /\ op.kind = "recover" => pc \notin Before /\ (pc = "commit" => op = RecoverCall)

LateInv(h) ==
    \A op \in late :
        /\ op.kind # "none" /\ Sound(h, op)
        /\ pc \in Underway /\ op.kind = "recover" =>
              IF op.generation = mirror.generation
              THEN pc \in Serving => h.staging # op.generation
              ELSE op.old # mirror.generation
OwnInv(h) ==
    pc \in Underway =>
        /\ mirror.generation # None
        /\ \A op \in late \cup {h.last} : op.generation = mirror.generation => Own(op)

(* How far the recovery, or the publication, is.                           *)
StepInv(h) ==
    /\ pc # "broken"
    /\ mirror.epoch <= h.epoch /\ follower.epoch <= h.epoch
    /\ pc \in Before => h.generation # mirror.generation
    /\ pc \in {"stage", "commit"} => mirror.projection = Structure(mirror.highwater)
    /\ pc = "commit" /\ h.generation = mirror.generation => h.source = mirror.highwater
    /\ pc \in Serving /\ h.epoch = mirror.epoch =>
          h.generation = mirror.generation /\ h.source \in {mirror.highwater, Position}

(* The end.                                                                *)
FinalInv ==
    /\ final => stopping
    /\ (final /\ pc \in {"stage", "commit"}) \/ pc = "done" => stopping /\ mirror.highwater = facts

(* All of it, for a hub h and for the hub. *)
ExportAt(h) == HubInv(h, follower) /\ LateInv(h) /\ OwnInv(h) /\ StepInv(h) /\ FinalInv
ExportInv == ExportAt(hub)

(***************************************************************************)
(* What the operations make of the hub, field by field.                    *)
(***************************************************************************)

EntryType == [kind : {"event", "incomplete", "recovered"}, at : Nat]

(* The structure up to the next position has at most that one more.        *)
LEMMA StructureGrows ==
    ASSUME NEW n \in Nat
    PROVE  /\ Structure(n + 1) = Structure(n) \cup ({n + 1} \ Parts)
           /\ Structure(n) \subseteq 1 .. n
  BY DEF Structure

(* What the model keeps of the hub is what its follower is there to read.  *)
LEMMA SeenIsKept == \A h : Seen(h) = Kept(h, follower)
  BY DEF Seen, Kept

(* The fields but the entries and the revision. *)
SameRest(k, h) ==
    /\ k.epoch = h.epoch /\ k.lease = h.lease /\ k.known = h.known /\ k.status = h.status
    /\ k.token = h.token /\ k.generation = h.generation /\ k.staging = h.staging
    /\ k.stream = h.stream /\ k.source = h.source /\ k.last = h.last /\ k.tables = h.tables
    /\ k.reason = h.reason

(* Nothing but entries and revisions is lost by it.                        *)
LEMMA KeptFields ==
    ASSUME NEW h \in Hub, NEW f
    PROVE  /\ Kept(h, f) \in Hub
           /\ SameRest(Kept(h, f), h)
           /\ f.phase = "out" => Kept(h, f).entries = <<>>
           /\ f.phase # "out" => Kept(h, f).entries = h.entries
           /\ f.phase \in {"captured", "read"} => Kept(h, f).revision = h.revision
           /\ f.phase \notin {"captured", "read"} => Kept(h, f).revision = 0
<1> DEFINE entries == IF f.phase = "out" THEN <<>> ELSE h.entries
           revision == IF f.phase \in {"captured", "read"} THEN h.revision ELSE 0
<1>1. entries \in Seq(EntryType) /\ revision \in Nat
  BY DEF Hub, EntryType
<1>2. Kept(h, f) = [h EXCEPT !.entries = entries, !.revision = revision]
  BY DEF Kept, Hub
<1>3. /\ f.phase = "out" => entries = <<>>
      /\ f.phase # "out" => entries = h.entries
      /\ f.phase \in {"captured", "read"} => revision = h.revision
      /\ f.phase \notin {"captured", "read"} => revision = 0
  OBVIOUS
<1> HIDE DEF entries, revision
<1>4. Kept(h, f) \in Hub
  BY <1>1, <1>2 DEF Hub, EntryType
<1>5. Kept(h, f).entries = entries /\ Kept(h, f).revision = revision
  BY <1>2 DEF Hub
<1>6. SameRest(Kept(h, f), h)
  BY <1>2 DEF Hub, SameRest
<1> QED
  BY <1>3, <1>4, <1>5, <1>6

(* The types of the fields of a hub.                                       *)
LEMMA HubTyped ==
    ASSUME NEW h \in Hub
    PROVE  /\ h.epoch \in Nat /\ h.lease \in Nat /\ h.generation \in Generations \cup {None}
           /\ h.staging \in Generations \cup {None} /\ h.source \in Nat
           /\ h.last \in Operation /\ h.tables \in [Generations -> Table]
           /\ h.entries \in Seq(EntryType) /\ h.revision \in Nat
           /\ h.status \in {"incomplete", "complete"}
  BY DEF Hub, EntryType

(* An event that is written.                                               *)
LEMMA EventFields ==
    ASSUME NEW h \in Hub, NEW op \in Operation, op.generation \in Generations
    PROVE  LET k == WithEvent(h, op)
               t == h.tables[op.generation] IN
           /\ k \in Hub
           /\ k.entries = Append(h.entries, [kind |-> "event", at |-> op.at])
           /\ k.tables = [h.tables EXCEPT ![op.generation] =
                             [t EXCEPT !.entities = @ \cup ({op.at} \ Parts)]]
           /\ k.revision = IF op.at \in Parts THEN h.revision ELSE h.revision + 1
           /\ k.source = op.at /\ k.last = op
           /\ k.epoch = h.epoch /\ k.generation = h.generation
           /\ k.staging = h.staging /\ k.status = h.status
<1> DEFINE t == h.tables[op.generation]
           tables == [h.tables EXCEPT ![op.generation] =
                         [t EXCEPT !.entities = @ \cup ({op.at} \ Parts)]]
           entries == Append(h.entries, [kind |-> "event", at |-> op.at])
           revision == IF op.at \in Parts THEN h.revision ELSE h.revision + 1
<1>1. op.at \in Nat /\ [kind |-> "event", at |-> op.at] \in EntryType
  BY DEF Operation, EntryType
<1>2. h.tables \in [Generations -> Table] /\ h.entries \in Seq(EntryType) /\ h.revision \in Nat
  BY HubTyped
<1>3. t \in Table
  BY <1>2
<1>4. [t EXCEPT !.entities = @ \cup ({op.at} \ Parts)] \in Table
  BY <1>1, <1>3 DEF Table
<1>5. tables \in [Generations -> Table]
  BY <1>2, <1>4
<1>6. entries \in Seq(EntryType)
  BY <1>1, <1>2
<1>7. revision \in Nat
  BY <1>2
<1>8. WithEvent(h, op) = [h EXCEPT !.entries = entries, !.tables = tables,
                                   !.revision = revision, !.source = op.at, !.last = op]
  BY <1>2 DEF WithEvent, Hub
<1> HIDE DEF tables, entries, revision, t
<1>9. WithEvent(h, op) \in Hub
  BY <1>1, <1>5, <1>6, <1>7, <1>8 DEF Hub, EntryType
<1>10. /\ WithEvent(h, op).entries = entries /\ WithEvent(h, op).tables = tables
       /\ WithEvent(h, op).revision = revision /\ WithEvent(h, op).source = op.at
       /\ WithEvent(h, op).last = op
       /\ WithEvent(h, op).epoch = h.epoch /\ WithEvent(h, op).generation = h.generation
       /\ WithEvent(h, op).staging = h.staging /\ WithEvent(h, op).status = h.status
  BY <1>8 DEF Hub
<1> QED
  BY <1>9, <1>10 DEF tables, entries, revision, t

News(h, op) == \/ h.status # "incomplete" \/ ~h.known
               \/ h.token # op.token \/ h.reason # op.reason

(* A declaration that the agent is incomplete.                             *)
LEMMA IncompleteFields ==
    ASSUME NEW h \in Hub, NEW op \in Operation
    PROVE  LET k == WithIncomplete(h, op) IN
           /\ k \in Hub
           /\ News(h, op) => /\ k.entries = Append(h.entries, [kind |-> "incomplete", at |-> 0])
                             /\ k.revision = h.revision + 1
           /\ ~News(h, op) => k.entries = h.entries /\ k.revision = h.revision
           /\ k.status = "incomplete" /\ k.staging = op.generation /\ k.last = op
           /\ k.tables = h.tables /\ k.source = h.source
           /\ k.epoch = h.epoch /\ k.generation = h.generation
<1> DEFINE entries == IF News(h, op)
                      THEN Append(h.entries, [kind |-> "incomplete", at |-> 0]) ELSE h.entries
           revision == IF News(h, op) THEN h.revision + 1 ELSE h.revision
<1>1. [kind |-> "incomplete", at |-> 0] \in EntryType
  BY DEF EntryType
<1>2. entries \in Seq(EntryType) /\ revision \in Nat
  BY <1>1, HubTyped
<1>3. WithIncomplete(h, op) =
        [h EXCEPT !.entries = entries, !.revision = revision,
                  !.known = TRUE, !.status = "incomplete", !.reason = op.reason,
                  !.token = op.token, !.staging = op.generation, !.last = op]
  BY DEF WithIncomplete, News, Hub
<1>4. /\ News(h, op) => /\ entries = Append(h.entries, [kind |-> "incomplete", at |-> 0])
                        /\ revision = h.revision + 1
      /\ ~News(h, op) => entries = h.entries /\ revision = h.revision
  OBVIOUS
<1> HIDE DEF entries, revision
<1>5. op.reason \in Reasons /\ op.token \in Nat /\ op.generation \in Generations \cup {None}
  BY DEF Operation
<1>6. WithIncomplete(h, op) \in Hub
  BY <1>2, <1>3, <1>5 DEF Hub, EntryType
<1> QED
  BY <1>3, <1>4, <1>6 DEF Hub

(* A table that is staged.                                                 *)
LEMMA StageFields ==
    ASSUME NEW h \in Hub, NEW op \in Operation
    PROVE  LET k == WithStage(h, op)
               t == [present |-> TRUE, source |-> op.at, entities |-> op.entities,
                     expiring |-> TRUE] IN
           /\ k \in Hub
           /\ k.tables = [h.tables EXCEPT ![op.generation] = t]
           /\ k.entries = h.entries /\ k.revision = h.revision
           /\ k.status = h.status /\ k.staging = h.staging /\ k.last = h.last
           /\ k.source = h.source /\ k.epoch = h.epoch /\ k.generation = h.generation
<1> DEFINE t == [present |-> TRUE, source |-> op.at, entities |-> op.entities,
                 expiring |-> TRUE]
           tables == [h.tables EXCEPT ![op.generation] = t]
<1>1. t \in Table
  BY DEF Table, Operation
<1>2. tables \in [Generations -> Table]
  BY <1>1, HubTyped
<1>3. WithStage(h, op) = [h EXCEPT !.tables = tables]
  BY DEF WithStage, Hub
<1> HIDE DEF tables
<1>4. WithStage(h, op) \in Hub
  BY <1>2, <1>3 DEF Hub
<1>5. WithStage(h, op).tables = tables
  BY <1>3 DEF Hub
<1>6. LET k == WithStage(h, op) IN
      /\ k.entries = h.entries /\ k.revision = h.revision
      /\ k.status = h.status /\ k.staging = h.staging /\ k.last = h.last
      /\ k.source = h.source /\ k.epoch = h.epoch /\ k.generation = h.generation
  BY <1>3 DEF Hub
<1> QED
  BY <1>4, <1>5, <1>6 DEF tables

(* A table that is removed.                                                *)
LEMMA UnlinkedTables ==
    ASSUME NEW tables \in [Generations -> Table], NEW g
    PROVE  /\ Unlinked(tables, g) \in [Generations -> Table]
           /\ \A x \in Generations :
                 /\ x # g => Unlinked(tables, g)[x] = tables[x]
                 /\ x = g /\ g # None => Unlinked(tables, g)[x] = NoTable
<1>1. NoTable \in Table
  BY DEF NoTable, Table
<1> QED
  BY <1>1 DEF Unlinked

(* Where there is no table, none is present and none expires.              *)
LEMMA NoTableFields == NoTable.present = FALSE /\ NoTable.expiring = FALSE
  BY DEF NoTable

(* A generation that is abandoned.                                         *)
LEMMA AbandonFields ==
    ASSUME NEW h \in Hub, NEW op \in Operation
    PROVE  LET k == WithAbandon(h, op) IN
           /\ k \in Hub
           /\ k.tables = Unlinked(h.tables, op.generation)
           /\ k.entries = h.entries /\ k.revision = h.revision
           /\ k.status = h.status /\ k.staging = h.staging /\ k.last = h.last
           /\ k.source = h.source /\ k.epoch = h.epoch /\ k.generation = h.generation
<1>1. Unlinked(h.tables, op.generation) \in [Generations -> Table]
  BY HubTyped, UnlinkedTables
<1>2. WithAbandon(h, op) = [h EXCEPT !.tables = Unlinked(h.tables, op.generation)]
  BY DEF WithAbandon
<1>3. WithAbandon(h, op) \in Hub
  BY <1>1, <1>2 DEF Hub
<1> QED
  BY <1>2, <1>3 DEF Hub

(* The tables after a recovery. *)
Committed(h, op) ==
    [Unlinked(h.tables, IF h.generation = op.generation THEN None ELSE h.generation)
        EXCEPT ![op.generation].expiring = FALSE]

(* The recovered table is live, the one it replaces is gone, the others    *)
(* are as they were.                                                       *)
LEMMA CommittedTables ==
    ASSUME NEW h \in Hub, NEW op \in Operation, op.generation \in Generations
    PROVE  /\ Committed(h, op) \in [Generations -> Table]
           /\ Committed(h, op)[op.generation].present = h.tables[op.generation].present
           /\ Committed(h, op)[op.generation].entities = h.tables[op.generation].entities
           /\ Committed(h, op)[op.generation].expiring = FALSE
           /\ \A x \in Generations \ {op.generation} :
                 Committed(h, op)[x] \in {NoTable, h.tables[x]}
<1> DEFINE g == IF h.generation = op.generation THEN None ELSE h.generation
           u == Unlinked(h.tables, g)
<1>0. g # op.generation
  BY GenerationsAssumption DEF None
<1>1. h.tables \in [Generations -> Table]
  BY HubTyped
<1>2. u \in [Generations -> Table] /\ u[op.generation] = h.tables[op.generation]
  BY <1>0, <1>1, UnlinkedTables
<1>3. \A x \in Generations : u[x] \in {NoTable, h.tables[x]}
  BY <1>1 DEF Unlinked
<1>4. Committed(h, op) = [u EXCEPT ![op.generation].expiring = FALSE]
  BY DEF Committed
<1> HIDE DEF u
<1>5. u[op.generation] \in Table
  BY <1>2
<1>6. Committed(h, op) = [u EXCEPT ![op.generation] = [u[op.generation] EXCEPT !.expiring = FALSE]]
  BY <1>4
<1>7. [u[op.generation] EXCEPT !.expiring = FALSE] \in Table
  BY <1>5 DEF Table
<1>8. Committed(h, op)[op.generation] = [u[op.generation] EXCEPT !.expiring = FALSE]
  BY <1>2, <1>6
<1>9. /\ Committed(h, op)[op.generation].present = u[op.generation].present
      /\ Committed(h, op)[op.generation].entities = u[op.generation].entities
      /\ Committed(h, op)[op.generation].expiring = FALSE
  BY <1>5, <1>8 DEF Table
<1>10. Committed(h, op) \in [Generations -> Table]
  BY <1>2, <1>6, <1>7
<1>11. \A x \in Generations \ {op.generation} : Committed(h, op)[x] = u[x]
  BY <1>2, <1>6
<1> QED
  BY <1>2, <1>3, <1>9, <1>10, <1>11

(* A recovery that is committed.                                           *)
LEMMA RecoverFields ==
    ASSUME NEW h \in Hub, NEW op \in Operation, op.generation \in Generations
    PROVE  LET k == WithRecover(h, op) IN
           /\ k \in Hub
           /\ k.tables = Committed(h, op)
           /\ k.entries = Append(h.entries, [kind |-> "recovered", at |-> op.at])
           /\ k.revision = h.revision + 1
           /\ k.status = "complete" /\ k.staging = None /\ k.last = op
           /\ k.source = op.at /\ k.epoch = h.epoch /\ k.generation = op.generation
<1> DEFINE entries == Append(h.entries, [kind |-> "recovered", at |-> op.at])
<1>1. op.at \in Nat /\ op.token \in Nat /\ [kind |-> "recovered", at |-> op.at] \in EntryType
  BY DEF Operation, EntryType
<1>2. entries \in Seq(EntryType) /\ h.revision + 1 \in Nat
  BY <1>1, HubTyped
<1>3. Committed(h, op) \in [Generations -> Table]
  BY CommittedTables
<1>4. WithRecover(h, op) =
        [h EXCEPT !.entries = entries, !.tables = Committed(h, op),
                  !.generation = op.generation, !.staging = None,
                  !.status = "complete", !.reason = "",
                  !.source = op.at, !.stream = op.token,
                  !.revision = h.revision + 1, !.last = op]
  BY DEF WithRecover, Committed, Hub
<1> HIDE DEF entries
<1>5. WithRecover(h, op) \in Hub
  BY <1>1, <1>2, <1>3, <1>4 DEF Hub, EntryType, Reasons
<1>6. LET k == WithRecover(h, op) IN
      /\ k.tables = Committed(h, op) /\ k.entries = entries
      /\ k.revision = h.revision + 1
      /\ k.status = "complete" /\ k.staging = None /\ k.last = op
      /\ k.source = op.at /\ k.epoch = h.epoch /\ k.generation = op.generation
  BY <1>4 DEF Hub
<1> QED
  BY <1>5, <1>6 DEF entries

(***************************************************************************)
(* What is known of the hub survives every operation.                      *)
(***************************************************************************)

(* Two sequences of entries of which one has one entry more. *)
Extends(s, e, r) ==
    /\ DOMAIN s = 1 .. Len(r) + 1
    /\ DOMAIN r = 1 .. Len(r)
    /\ s[Len(r) + 1] = e
    /\ \A i \in DOMAIN r : s[i] = r[i]

(* Append adds one entry.                                                  *)
LEMMA AppendExtends ==
    ASSUME NEW r \in Seq(EntryType), NEW e \in EntryType
    PROVE  Extends(Append(r, e), e, r) /\ Len(r) \in Nat
  BY DEF Extends

(* One entry more is one event more, or an end to the events.              *)
LEMMA ExtendedEntries ==
    ASSUME NEW h, NEW k, NEW e, Extends(k.entries, e, h.entries), Len(h.entries) \in Nat
    PROVE  /\ EventsOnly(k) <=> (EventsOnly(h) /\ e.kind = "event")
           /\ EntriesOf(k) = EntriesOf(h) \cup ({e.at} \ Parts)
<1> DEFINE n == Len(h.entries)
<1>1. DOMAIN k.entries = 1 .. n + 1 /\ DOMAIN h.entries = 1 .. n /\ k.entries[n + 1] = e
  BY DEF Extends
<1>2. \A i \in 1 .. n : k.entries[i] = h.entries[i]
  BY DEF Extends
<1> HIDE DEF n
<1>3. n \in Nat
  BY DEF n
<1>4. 1 .. n + 1 = (1 .. n) \cup {n + 1}
  BY <1>3
<1>5. EventsOnly(k) <=> (EventsOnly(h) /\ e.kind = "event")
  BY <1>1, <1>2, <1>4 DEF EventsOnly
<1>6. {k.entries[i].at : i \in DOMAIN k.entries} = {h.entries[i].at : i \in DOMAIN h.entries} \cup {e.at}
  BY <1>1, <1>2, <1>4
<1>7. EntriesOf(k) = EntriesOf(h) \cup ({e.at} \ Parts)
  BY <1>6 DEF EntriesOf
<1> QED
  BY <1>5, <1>7

SameHub(k, h) ==
    /\ k.generation = h.generation /\ k.tables = h.tables /\ k.source = h.source
    /\ k.staging = h.staging /\ k.status = h.status /\ k.last = h.last /\ k.epoch = h.epoch

(* Only what a follower reads of the entries and of the revision matters.  *)
LEMMA SameHubKeeps ==
    ASSUME NEW h, NEW k, NEW f, HubInv(h, f), SameHub(k, h),
           f.phase # "out" => k.entries = h.entries,
           f.phase \in {"captured", "read"} => k.revision = h.revision
    PROVE  HubInv(k, f)
<1>1. LiveIsExact(k) /\ StagedIsExact(k) /\ StatusAgrees(k) /\ LastAgrees(k)
  BY DEF HubInv, SameHub, LiveIsExact, StagedIsExact, StatusAgrees, LastAgrees
<1>2. CASE f.phase = "out"
  BY <1>1, <1>2 DEF HubInv, RowIsFollowed, TableIsFollowed
<1>3. CASE f.phase # "out"
  <2>1. (EventsOnly(k) <=> EventsOnly(h)) /\ EntriesOf(k) = EntriesOf(h)
    BY <1>3 DEF EventsOnly, EntriesOf
  <2>2. RowIsFollowed(k, f)
    BY <1>3, <2>1 DEF HubInv, SameHub, RowIsFollowed
  <2>3. TableIsFollowed(k, f)
    BY <1>3, <2>1 DEF HubInv, SameHub, TableIsFollowed
  <2> QED
    BY <1>1, <2>2, <2>3 DEF HubInv
<1> QED
  BY <1>2, <1>3

(* What nobody reads does not matter.                                      *)
LEMMA KeptKeeps ==
    ASSUME NEW h \in Hub, NEW f, HubInv(h, f) PROVE HubInv(Kept(h, f), f)
<1>1. SameHub(Kept(h, f), h)
  BY KeptFields DEF SameHub, SameRest
<1> QED
  BY <1>1, KeptFields, SameHubKeeps

(* An event extends the live table and the entries alike.                  *)
LEMMA EventKeeps ==
    ASSUME NEW h \in Hub, NEW f, NEW op \in Operation, HubInv(h, f), op.kind = "event",
           op.at = op.prior + 1, EventFits(h, op)
    PROVE  HubInv(WithEvent(h, op), f)
<1> DEFINE k == WithEvent(h, op)
           g == op.generation
           e == [kind |-> "event", at |-> op.at]
<1>1. /\ g = h.generation /\ g \in Generations /\ h.status = "complete"
      /\ h.source \in Nat /\ op.at = h.source + 1
  BY HubTyped DEF EventFits, Continues, HubInv, StatusAgrees
<1>2. /\ k.entries = Append(h.entries, e) /\ k.source = op.at /\ k.last = op
      /\ k.tables = [h.tables EXCEPT ![g] =
                        [h.tables[g] EXCEPT !.entities = @ \cup ({op.at} \ Parts)]]
      /\ k.revision = IF op.at \in Parts THEN h.revision ELSE h.revision + 1
      /\ k.epoch = h.epoch /\ k.generation = h.generation
      /\ k.staging = h.staging /\ k.status = h.status
  BY <1>1, EventFields
<1> HIDE DEF k
<1>3. h.tables \in [Generations -> Table] /\ h.revision \in Nat
  BY HubTyped
<1>4. /\ k.tables[g].present = h.tables[g].present
      /\ k.tables[g].expiring = h.tables[g].expiring
      /\ k.tables[g].entities = h.tables[g].entities \cup ({op.at} \ Parts)
      /\ \A x \in Generations \ {g} : k.tables[x] = h.tables[x]
  <2>1. h.tables[g] \in Table
    BY <1>1, <1>3
  <2>2. k.tables[g] = [h.tables[g] EXCEPT !.entities = @ \cup ({op.at} \ Parts)]
    BY <1>1, <1>2, <1>3
  <2> QED
    BY <1>1, <1>2, <1>3, <2>1, <2>2 DEF Table
<1>5. Extends(k.entries, e, h.entries) /\ Len(h.entries) \in Nat
  BY <1>2, HubTyped, AppendExtends DEF Operation, EntryType
<1>6. /\ EventsOnly(k) <=> EventsOnly(h)
      /\ EntriesOf(k) = EntriesOf(h) \cup ({op.at} \ Parts)
  <2>1. e.kind = "event" /\ e.at = op.at
    OBVIOUS
  <2> HIDE DEF e
  <2> QED
    BY <1>5, <2>1, ExtendedEntries
<1>7. LiveIsExact(k)
  <2>1. /\ h.generation # None
        /\ h.tables[g].present /\ ~h.tables[g].expiring
        /\ h.tables[g].entities = Structure(h.source)
    BY <1>1, GenerationsAssumption DEF HubInv, LiveIsExact, None
  <2>2. k.tables[g].entities = Structure(k.source)
    <3>1. Structure(h.source + 1) = Structure(h.source) \cup ({h.source + 1} \ Parts)
      BY <1>1, StructureGrows
    <3> QED
      BY <1>1, <1>2, <1>4, <2>1, <3>1
  <2> QED
    BY <1>1, <1>2, <1>4, <2>1, <2>2 DEF LiveIsExact
<1>8. StagedIsExact(k)
  BY <1>1, <1>2, <1>4 DEF HubInv, StagedIsExact
<1>9. StatusAgrees(k) /\ LastAgrees(k)
  BY <1>1, <1>2 DEF HubInv, StatusAgrees, LastAgrees
<1>10. RowIsFollowed(k, f)
  <2> SUFFICES ASSUME f.phase # "out", k.epoch = f.epoch, EventsOnly(k)
               PROVE  /\ k.generation = f.generation
                      /\ f.complete => k.status = "complete"
                      /\ \A i \in DOMAIN k.entries : k.entries[i].at <= k.source
                      /\ \A i, j \in DOMAIN k.entries : i < j => k.entries[i].at < k.entries[j].at
    BY DEF RowIsFollowed
  <2>1. /\ h.generation = f.generation
        /\ f.complete => h.status = "complete"
        /\ \A i \in DOMAIN h.entries : h.entries[i].at <= h.source
        /\ \A i, j \in DOMAIN h.entries : i < j => h.entries[i].at < h.entries[j].at
    BY <1>2, <1>6 DEF HubInv, RowIsFollowed
  <2>2. \A i \in DOMAIN h.entries : h.entries[i].at \in Nat
    <3>1. h.entries \in Seq(EntryType)
      BY HubTyped
    <3>2. \A i \in DOMAIN h.entries : h.entries[i] \in EntryType
      BY <3>1
    <3> QED
      BY <3>2 DEF EntryType
  <2>3. \A i \in DOMAIN k.entries :
            \/ i = Len(h.entries) + 1 /\ k.entries[i].at = h.source + 1
            \/ i \in DOMAIN h.entries /\ k.entries[i].at = h.entries[i].at
    BY <1>1, <1>5 DEF Extends
  <2>4. \A i \in DOMAIN h.entries : i \in Nat /\ i <= Len(h.entries)
    BY <1>5 DEF Extends
  <2>5. \A i \in DOMAIN k.entries : k.entries[i].at <= k.source
    BY <1>1, <1>2, <2>1, <2>2, <2>3
  <2>6. \A i, j \in DOMAIN k.entries : i < j => k.entries[i].at < k.entries[j].at
    BY <1>1, <1>5, <2>1, <2>2, <2>3, <2>4
  <2> QED
    BY <1>2, <2>1, <2>5, <2>6
<1>11. TableIsFollowed(k, f)
  <2>1. ASSUME f.phase \in {"captured", "read"}, k.epoch = f.epoch, k.revision = 0
        PROVE  /\ EventsOnly(k) /\ EntriesOf(k) = {}
               /\ f.phase = "read" /\ k.generation # None =>
                      f.view = k.tables[k.generation].entities
    <3>1. op.at \in Parts /\ h.revision = 0
      BY <1>2, <1>3, <2>1
    <3>2. {op.at} \ Parts = {}
      BY <3>1
    <3>3. /\ EventsOnly(h) /\ EntriesOf(h) = {}
          /\ f.phase = "read" /\ h.generation # None =>
                 f.view = h.tables[h.generation].entities
      BY <1>2, <2>1, <3>1 DEF HubInv, TableIsFollowed
    <3>4. EventsOnly(k) /\ EntriesOf(k) = {}
      BY <1>6, <3>2, <3>3
    <3>5. k.tables[g].entities = h.tables[g].entities
      BY <1>4, <3>2
    <3> QED
      BY <1>1, <1>2, <3>3, <3>4, <3>5
  <2>2. ASSUME f.phase = "following", k.epoch = f.epoch, EventsOnly(k), k.generation # None
        PROVE  /\ f.view \cup EntriesOf(k) = k.tables[k.generation].entities
               /\ f.view \cap EntriesOf(k) = {}
    <3>1. /\ f.view \cup EntriesOf(h) = h.tables[g].entities
          /\ f.view \cap EntriesOf(h) = {}
      BY <1>1, <1>2, <1>6, <2>2 DEF HubInv, TableIsFollowed
    <3>2. h.tables[g].entities = Structure(h.source)
      BY <1>1, <1>2, <2>2 DEF HubInv, LiveIsExact
    <3>3. op.at \notin h.tables[g].entities
      BY <1>1, <3>2, StructureGrows
    <3>4. op.at \notin f.view
      BY <3>1, <3>3
    <3> QED
      BY <1>1, <1>2, <1>4, <1>6, <3>1, <3>4
  <2> QED
    BY <2>1, <2>2 DEF TableIsFollowed
<1> QED
  BY <1>7, <1>8, <1>9, <1>10, <1>11 DEF HubInv, k

(* An entry of a recovery ends what a follower can be asked. *)
LEMMA EndedIsFollowed ==
    ASSUME NEW h \in Hub, NEW k, NEW f, NEW e \in EntryType, e.kind # "event",
           k.entries = Append(h.entries, e), k.revision = h.revision + 1
    PROVE  RowIsFollowed(k, f) /\ TableIsFollowed(k, f)
<1>1. h.entries \in Seq(EntryType) /\ h.revision \in Nat
  BY HubTyped
<1>2. ~EventsOnly(k) /\ k.revision # 0
  BY <1>1, AppendExtends, ExtendedEntries DEF EventsOnly
<1> QED
  BY <1>2 DEF RowIsFollowed, TableIsFollowed

(* A declaration is news, which ends the events, or changes nothing for a  *)
(* follower.                                                               *)
LEMMA IncompleteKeeps ==
    ASSUME NEW h \in Hub, NEW f, NEW op \in Operation, HubInv(h, f), op.kind = "incomplete"
    PROVE  HubInv(WithIncomplete(h, op), f)
<1> DEFINE k == WithIncomplete(h, op)
<1>1. /\ News(h, op) => /\ k.entries = Append(h.entries, [kind |-> "incomplete", at |-> 0])
                        /\ k.revision = h.revision + 1
      /\ ~News(h, op) => k.entries = h.entries /\ k.revision = h.revision
      /\ k.status = "incomplete" /\ k.staging = op.generation /\ k.last = op
      /\ k.tables = h.tables /\ k.source = h.source
      /\ k.epoch = h.epoch /\ k.generation = h.generation
  BY IncompleteFields
<1> HIDE DEF k
<1>2. LiveIsExact(k) /\ StagedIsExact(k) /\ StatusAgrees(k) /\ LastAgrees(k)
  BY <1>1 DEF HubInv, LiveIsExact, StagedIsExact, StatusAgrees, LastAgrees
<1>3. CASE News(h, op)
  <2>1. RowIsFollowed(k, f) /\ TableIsFollowed(k, f)
    BY <1>1, <1>3, EndedIsFollowed DEF EntryType
  <2> QED
    BY <1>2, <2>1 DEF HubInv, k
<1>4. CASE ~News(h, op)
  <2>1. h.status = "incomplete"
    BY <1>4 DEF News
  <2>2. (EventsOnly(k) <=> EventsOnly(h)) /\ EntriesOf(k) = EntriesOf(h)
    BY <1>1, <1>4 DEF EventsOnly, EntriesOf
  <2>3. RowIsFollowed(k, f)
    BY <1>1, <1>4, <2>1, <2>2 DEF HubInv, RowIsFollowed
  <2>4. TableIsFollowed(k, f)
    BY <1>1, <1>4, <2>1, <2>2 DEF HubInv, TableIsFollowed
  <2> QED
    BY <1>2, <2>3, <2>4 DEF HubInv, k
<1> QED
  BY <1>3, <1>4

(* The staged table is not the live one.                                   *)
LEMMA StageKeeps ==
    ASSUME NEW h \in Hub, NEW f, NEW op \in Operation, HubInv(h, f), op.kind = "stage",
           StageFits(h, op), Sound(h, op)
    PROVE  HubInv(WithStage(h, op), f)
<1> DEFINE k == WithStage(h, op)
           t == [present |-> TRUE, source |-> op.at, entities |-> op.entities,
                 expiring |-> TRUE]
<1>1. /\ k.tables = [h.tables EXCEPT ![op.generation] = t]
      /\ k.entries = h.entries /\ k.revision = h.revision
      /\ k.status = h.status /\ k.staging = h.staging /\ k.last = h.last
      /\ k.source = h.source /\ k.epoch = h.epoch /\ k.generation = h.generation
  BY StageFields
<1> HIDE DEF k
<1>2. h.generation # op.generation /\ op.entities = Structure(op.at)
  BY DEF StageFits, Sound
<1>3. h.tables \in [Generations -> Table] /\ h.generation \in Generations \cup {None}
  BY HubTyped
<1>4. \A x \in Generations : x # op.generation => k.tables[x] = h.tables[x]
  BY <1>1, <1>3
<1>5. op.generation \in Generations => k.tables[op.generation] = t
  BY <1>1, <1>3
<1>6. h.generation # None => k.tables[k.generation] = h.tables[h.generation]
  BY <1>1, <1>2, <1>3, <1>4
<1>7. LiveIsExact(k)
  BY <1>1, <1>6 DEF HubInv, LiveIsExact
<1>8. StagedIsExact(k)
  BY <1>1, <1>2, <1>4, <1>5 DEF HubInv, StagedIsExact
<1>9. StatusAgrees(k) /\ LastAgrees(k)
  BY <1>1 DEF HubInv, StatusAgrees, LastAgrees
<1>10. (EventsOnly(k) <=> EventsOnly(h)) /\ EntriesOf(k) = EntriesOf(h)
  BY <1>1 DEF EventsOnly, EntriesOf
<1>11. RowIsFollowed(k, f)
  BY <1>1, <1>10 DEF HubInv, RowIsFollowed
<1>12. TableIsFollowed(k, f)
  BY <1>1, <1>6, <1>10 DEF HubInv, TableIsFollowed
<1> QED
  BY <1>7, <1>8, <1>9, <1>11, <1>12 DEF HubInv, k

(* Tables that are not live may be removed. *)
LEMMA UnlinkKeeps ==
    ASSUME NEW h \in Hub, NEW f, NEW k, HubInv(h, f),
           k.generation = h.generation, k.source = h.source, k.staging = h.staging,
           k.status = h.status, k.last = h.last, k.epoch = h.epoch,
           k.entries = h.entries, k.revision = h.revision,
           \A x \in Generations : k.tables[x] \in {NoTable, h.tables[x]},
           h.generation # None => k.tables[h.generation] = h.tables[h.generation]
    PROVE  HubInv(k, f)
<1>1. LiveIsExact(k)
  BY DEF HubInv, LiveIsExact
<1>2. StagedIsExact(k)
  BY NoTableFields DEF HubInv, StagedIsExact
<1>3. StatusAgrees(k) /\ LastAgrees(k)
  BY DEF HubInv, StatusAgrees, LastAgrees
<1>4. (EventsOnly(k) <=> EventsOnly(h)) /\ EntriesOf(k) = EntriesOf(h)
  BY DEF EventsOnly, EntriesOf
<1>5. RowIsFollowed(k, f)
  BY <1>4 DEF HubInv, RowIsFollowed
<1>6. TableIsFollowed(k, f)
  BY <1>4 DEF HubInv, TableIsFollowed
<1> QED
  BY <1>1, <1>2, <1>3, <1>5, <1>6 DEF HubInv

(* An abandoned generation is not the live one.                            *)
LEMMA AbandonKeeps ==
    ASSUME NEW h \in Hub, NEW f, NEW op \in Operation, HubInv(h, f),
           h.generation # op.generation
    PROVE  HubInv(WithAbandon(h, op), f)
<1> DEFINE k == WithAbandon(h, op)
<1>1. /\ k.tables = Unlinked(h.tables, op.generation)
      /\ k.entries = h.entries /\ k.revision = h.revision
      /\ k.status = h.status /\ k.staging = h.staging /\ k.last = h.last
      /\ k.source = h.source /\ k.epoch = h.epoch /\ k.generation = h.generation
  BY AbandonFields
<1> HIDE DEF k
<1>2. h.tables \in [Generations -> Table] /\ h.generation \in Generations \cup {None}
  BY HubTyped
<1>3. \A x \in Generations : k.tables[x] \in {NoTable, h.tables[x]}
  BY <1>1, <1>2 DEF Unlinked
<1>4. h.generation # None => k.tables[h.generation] = h.tables[h.generation]
  BY <1>1, <1>2, UnlinkedTables
<1>5. HubInv(k, f)
  BY <1>1, <1>3, <1>4, UnlinkKeeps
<1> QED
  BY <1>5 DEF k

(* The table that becomes live is the structure up to the position it is   *)
(* committed at.                                                           *)
LEMMA RecoverKeeps ==
    ASSUME NEW h \in Hub, NEW f, NEW op \in Operation, HubInv(h, f), op.kind = "recover",
           RecoverFits(h, op), Sound(h, op)
    PROVE  HubInv(WithRecover(h, op), f)
<1> DEFINE k == WithRecover(h, op)
           g == op.generation
<1>1. g \in Generations
  BY DEF Operation, Sound
<1>2. /\ k.tables = Committed(h, op)
      /\ k.entries = Append(h.entries, [kind |-> "recovered", at |-> op.at])
      /\ k.revision = h.revision + 1
      /\ k.status = "complete" /\ k.staging = None /\ k.last = op
      /\ k.source = op.at /\ k.epoch = h.epoch /\ k.generation = g
  BY <1>1, RecoverFields
<1> HIDE DEF k
<1>3. /\ k.tables[g].present = h.tables[g].present
      /\ k.tables[g].entities = h.tables[g].entities
      /\ k.tables[g].expiring = FALSE
      /\ \A x \in Generations \ {g} : k.tables[x] \in {NoTable, h.tables[x]}
  <2>1. /\ Committed(h, op)[g].present = h.tables[g].present
        /\ Committed(h, op)[g].entities = h.tables[g].entities
        /\ Committed(h, op)[g].expiring = FALSE
        /\ \A x \in Generations \ {g} : Committed(h, op)[x] \in {NoTable, h.tables[x]}
    BY <1>1, CommittedTables
  <2> QED
    BY <1>2, <2>1
<1>4. h.staging = g /\ h.tables[g].present /\ h.tables[g].source = op.at
  BY DEF RecoverFits
<1>5. h.tables[g].entities = Structure(op.at)
  <2>1. CASE h.generation = g
    BY <1>1, <1>4, <2>1, GenerationsAssumption DEF HubInv, LiveIsExact, Sound, None
  <2>2. CASE h.generation # g
    BY <1>1, <1>4, <2>2 DEF HubInv, StagedIsExact
  <2> QED
    BY <2>1, <2>2
<1>6. LiveIsExact(k)
  BY <1>2, <1>3, <1>4, <1>5 DEF LiveIsExact
<1>7. StagedIsExact(k)
  <2> SUFFICES ASSUME NEW x \in Generations, x # k.generation, k.tables[x].present
               PROVE  k.tables[x].entities = Structure(k.tables[x].source)
    BY DEF StagedIsExact
  <2>1. k.tables[x] = h.tables[x]
    BY <1>2, <1>3, NoTableFields
  <2>2. x # h.generation
    <3>1. SUFFICES ASSUME x = h.generation PROVE FALSE
      OBVIOUS
    <3>2. h.generation # None /\ h.generation # g
      BY <1>2, <3>1, GenerationsAssumption DEF None
    <3>3. Committed(h, op)[x] = NoTable
      <4>1. h.tables \in [Generations -> Table]
        BY HubTyped
      <4>2. Unlinked(h.tables, h.generation)[x] = NoTable
        BY <3>1, <3>2, <4>1, UnlinkedTables
      <4>3. Unlinked(h.tables, h.generation) \in [Generations -> Table]
        BY <4>1, UnlinkedTables
      <4> QED
        BY <1>2, <3>1, <3>2, <4>2, <4>3 DEF Committed
    <3> QED
      BY <1>2, <3>3, NoTableFields
  <2> QED
    BY <2>1, <2>2 DEF HubInv, StagedIsExact
<1>8. StatusAgrees(k) /\ LastAgrees(k)
  BY <1>1, <1>2, GenerationsAssumption DEF StatusAgrees, LastAgrees, None
<1>9. RowIsFollowed(k, f) /\ TableIsFollowed(k, f)
  BY <1>2, EndedIsFollowed DEF EntryType, Operation
<1> QED
  BY <1>6, <1>7, <1>8, <1>9 DEF HubInv, k

(***************************************************************************)
(* What an operation moves at the hub.                                     *)
(***************************************************************************)

(* What becomes of a hub h, where op is asked for and f follows. *)
Stays(h, k) == k.generation = h.generation /\ k.source = h.source /\ k.staging = h.staging
Moves(h, op, k, f) ==
    /\ k \in Hub /\ HubInv(k, f)
    /\ k.epoch = h.epoch
    /\ k.last \in {h.last, op}
    /\ \/ Stays(h, k)
       \/ /\ op.kind = "incomplete"
          /\ k.generation = h.generation /\ k.source = h.source /\ k.staging = op.generation
       \/ /\ op.kind = "event" /\ EventFits(h, op)
          /\ k.generation = h.generation /\ k.source = op.at /\ k.staging = h.staging
       \/ /\ op.kind = "recover" /\ RecoverFits(h, op)
          /\ k.generation = op.generation /\ k.source = op.at /\ k.staging = None

(* An operation is applied as a whole or not at all.                       *)
LEMMA AppliedCases ==
    ASSUME NEW h, NEW op
    PROVE  LET k == Applied(h, op) IN
           \/ k = h
           \/ op.kind = "abandon" /\ h.generation # op.generation /\ k = WithAbandon(h, op)
           \/ op.kind = "event" /\ EventFits(h, op) /\ k = WithEvent(h, op)
           \/ op.kind = "incomplete" /\ k = WithIncomplete(h, op)
           \/ op.kind = "stage" /\ StageFits(h, op) /\ k = WithStage(h, op)
           \/ op.kind = "recover" /\ RecoverFits(h, op) /\ k = WithRecover(h, op)
<1>1. CASE op.kind = "abandon"
  BY <1>1 DEF Applied
<1>2. CASE op.kind # "abandon"
  <2>1. Applied(h, op) = h \/ (Fits(h, op) /\ Applied(h, op) = Effect(h, op))
    BY <1>2 DEF Applied
  <2>2. CASE Fits(h, op) /\ Applied(h, op) = Effect(h, op)
    <3>1. CASE op.kind = "event"
      BY <2>2, <3>1 DEF Fits, Effect
    <3>2. CASE op.kind = "incomplete"
      BY <2>2, <3>2 DEF Fits, Effect
    <3>3. CASE op.kind = "stage"
      BY <2>2, <3>3 DEF Fits, Effect
    <3>4. CASE op.kind = "recover"
      BY <2>2, <3>4 DEF Fits, Effect
    <3>5. CASE op.kind \notin {"event", "incomplete", "stage", "recover"}
      BY <2>2, <3>5 DEF Effect
    <3> QED
      BY <3>1, <3>2, <3>3, <3>4, <3>5
  <2> QED
    BY <2>1, <2>2
<1> QED
  BY <1>1, <1>2

(* What is asked of the hub moves it in one of these ways.                 *)
LEMMA AppliedMoves ==
    ASSUME NEW h \in Hub, NEW f, NEW op \in Operation, HubInv(h, f), Sound(h, op)
    PROVE  Moves(h, op, Applied(h, op), f)
<1> DEFINE k == Applied(h, op)
<1>1. CASE k = h
  BY <1>1 DEF Moves, Stays
<1>2. CASE op.kind = "abandon" /\ h.generation # op.generation /\ k = WithAbandon(h, op)
  <2>1. HubInv(k, f)
    BY <1>2, AbandonKeeps
  <2>2. /\ k \in Hub /\ k.epoch = h.epoch /\ k.last = h.last
        /\ k.generation = h.generation /\ k.source = h.source /\ k.staging = h.staging
    BY <1>2, AbandonFields
  <2> HIDE DEF k
  <2> QED
    BY <2>1, <2>2 DEF Moves, Stays, k
<1>3. CASE op.kind = "event" /\ EventFits(h, op) /\ k = WithEvent(h, op)
  <2>1. HubInv(k, f)
    BY <1>3, EventKeeps DEF Sound
  <2>2. op.generation \in Generations
    BY <1>3, HubTyped DEF HubInv, StatusAgrees, EventFits, Continues
  <2>3. /\ k \in Hub /\ k.epoch = h.epoch /\ k.last = op
        /\ k.generation = h.generation /\ k.source = op.at /\ k.staging = h.staging
    <3>1. LET w == WithEvent(h, op) IN
          /\ w \in Hub /\ w.epoch = h.epoch /\ w.last = op
          /\ w.generation = h.generation /\ w.source = op.at /\ w.staging = h.staging
      BY <2>2, EventFields
    <3> QED
      BY <1>3, <3>1
  <2> HIDE DEF k
  <2> QED
    BY <1>3, <2>1, <2>3 DEF Moves, k
<1>4. CASE op.kind = "incomplete" /\ k = WithIncomplete(h, op)
  <2>1. HubInv(k, f)
    BY <1>4, IncompleteKeeps
  <2>2. /\ k \in Hub /\ k.epoch = h.epoch /\ k.last = op
        /\ k.generation = h.generation /\ k.source = h.source /\ k.staging = op.generation
    BY <1>4, IncompleteFields
  <2> HIDE DEF k
  <2> QED
    BY <1>4, <2>1, <2>2 DEF Moves, k
<1>5. CASE op.kind = "stage" /\ StageFits(h, op) /\ k = WithStage(h, op)
  <2>1. HubInv(k, f)
    BY <1>5, StageKeeps
  <2>2. /\ k \in Hub /\ k.epoch = h.epoch /\ k.last = h.last
        /\ k.generation = h.generation /\ k.source = h.source /\ k.staging = h.staging
    <3>1. LET w == WithStage(h, op) IN
          /\ w \in Hub /\ w.epoch = h.epoch /\ w.last = h.last
          /\ w.generation = h.generation /\ w.source = h.source /\ w.staging = h.staging
      BY StageFields
    <3> QED
      BY <1>5, <3>1
  <2> HIDE DEF k
  <2> QED
    BY <2>1, <2>2 DEF Moves, Stays, k
<1>6. CASE op.kind = "recover" /\ RecoverFits(h, op) /\ k = WithRecover(h, op)
  <2>1. HubInv(k, f)
    BY <1>6, RecoverKeeps
  <2>2. op.generation \in Generations
    BY <1>6 DEF Sound, Operation
  <2>3. /\ k \in Hub /\ k.epoch = h.epoch /\ k.last = op
        /\ k.generation = op.generation /\ k.source = op.at /\ k.staging = None
    <3>1. LET w == WithRecover(h, op) IN
          /\ w \in Hub /\ w.epoch = h.epoch /\ w.last = op
          /\ w.generation = op.generation /\ w.source = op.at /\ w.staging = None
      BY <2>2, RecoverFields
    <3> QED
      BY <1>6, <3>1
  <2> HIDE DEF k
  <2> QED
    BY <1>6, <2>1, <2>3 DEF Moves, k
<1> QED
  BY <1>1, <1>2, <1>3, <1>4, <1>5, <1>6, AppliedCases

(* Neither what nobody reads nor the lease matters. *)
LEMMA MovesOn ==
    ASSUME NEW h, NEW op, NEW k, NEW m, NEW f, Moves(h, op, k, f), m \in Hub, SameHub(m, k),
           f.phase # "out" => m.entries = k.entries,
           f.phase \in {"captured", "read"} => m.revision = k.revision
    PROVE  Moves(h, op, m, f)
<1>1. HubInv(m, f)
  BY SameHubKeeps DEF Moves
<1>2. /\ m.generation = k.generation /\ m.source = k.source /\ m.staging = k.staging
      /\ m.last = k.last /\ m.epoch = k.epoch
  BY DEF SameHub
<1> QED
  BY <1>1, <1>2 DEF Moves, Stays

(* The same, for what the model keeps of the hub.                          *)
LEMMA SeenMoves ==
    ASSUME NEW h \in Hub, NEW op \in Operation, HubInv(h, follower), Sound(h, op)
    PROVE  Moves(h, op, Seen(Applied(h, op)), follower)
<1> DEFINE k == Applied(h, op)
<1>1. Moves(h, op, k, follower)
  BY AppliedMoves
<1>2. k \in Hub
  BY <1>1 DEF Moves
<1> HIDE DEF k
<1>3. SameHub(Kept(k, follower), k) /\ Kept(k, follower) \in Hub
  BY <1>2, KeptFields DEF SameHub, SameRest
<1>4. Moves(h, op, Kept(k, follower), follower)
  BY <1>1, <1>2, <1>3, KeptFields, MovesOn
<1> QED
  BY <1>4, SeenIsKept DEF k

(* The lease is a field of its own.                                        *)
LEMMA UnleasedFields ==
    ASSUME NEW k \in Hub, NEW l \in Nat
    PROVE  /\ [k EXCEPT !.lease = l] \in Hub /\ SameHub([k EXCEPT !.lease = l], k)
           /\ [k EXCEPT !.lease = l].entries = k.entries
           /\ [k EXCEPT !.lease = l].revision = k.revision
  BY DEF Hub, SameHub

(* The lease may end with the operation.                                   *)
LEMMA UnleasedMoves ==
    ASSUME NEW h, NEW op, NEW k, NEW f, Moves(h, op, k, f)
    PROVE  Moves(h, op, [k EXCEPT !.lease = None], f)
<1>1. k \in Hub /\ None \in Nat
  BY DEF Moves, None
<1> QED
  BY <1>1, UnleasedFields, MovesOn

(* An operation may not be applied.                                        *)
LEMMA StillMoves ==
    ASSUME NEW h \in Hub, NEW op, NEW f, HubInv(h, f) PROVE Moves(h, op, h, f)
  BY DEF Moves, Stays

(* A request that was sound stays so, unless it is declared that a live    *)
(* generation will be replaced by itself.                                  *)
LEMMA SoundStays ==
    ASSUME NEW h \in Hub, NEW p, NEW k, NEW f, NEW op, HubInv(h, f), Moves(h, p, k, f), Sound(h, op),
           p.kind = "incomplete" => h.generation # p.generation
    PROVE  Sound(k, op)
<1>1. CASE Stays(h, k)
  BY <1>1 DEF Sound, Stays
<1>2. CASE /\ p.kind = "incomplete"
           /\ k.generation = h.generation /\ k.source = h.source /\ k.staging = p.generation
  BY <1>2 DEF Sound
<1>3. CASE /\ p.kind = "event" /\ EventFits(h, p)
           /\ k.generation = h.generation /\ k.source = p.at /\ k.staging = h.staging
  <2>1. h.staging = None
    BY <1>3 DEF HubInv, StatusAgrees, EventFits, Continues
  <2> QED
    BY <1>3, <2>1 DEF Sound
<1>4. CASE /\ p.kind = "recover" /\ RecoverFits(h, p)
           /\ k.generation = p.generation /\ k.source = p.at /\ k.staging = None
  BY <1>4 DEF Sound
<1> QED
  BY <1>1, <1>2, <1>3, <1>4 DEF Moves

(***************************************************************************)
(* The exporter's calls, and what they may find.                           *)
(***************************************************************************)

(* The call of each step of the exporter.                                  *)
LEMMA PendingFields ==
    ASSUME Typed, Calling
    PROVE  /\ Pending \in Operation
           /\ pc = "abandon" => Pending.kind = "abandon"
           /\ pc # "abandon" => /\ Pending.generation = mirror.generation
                                /\ Pending.epoch = mirror.epoch /\ Pending.token = process
           /\ pc = "incomplete" => Pending.kind = "incomplete" /\ Pending = IncompleteCall
           /\ pc = "stage" => /\ Pending.kind = "stage"
                              /\ Pending.at = mirror.highwater
                              /\ Pending.entities = mirror.projection
           /\ pc = "commit" => /\ Pending.kind = "recover" /\ Pending = RecoverCall
                               /\ Pending.at = mirror.highwater
           /\ pc = "publish" => /\ Pending.kind = "event" /\ Pending = EventCall
                                /\ Pending.at = mirror.highwater + 1
                                /\ Pending.prior = mirror.highwater
<1>1. /\ mirror \in MirrorType /\ process \in Nat
  BY DEF Typed
<1>2. CASE pc = "abandon"
  <2>1. Pending = AbandonCall
    BY <1>2 DEF Pending
  <2> QED
    BY <1>1, <1>2, <2>1
    DEF AbandonCall, Call, NoOperation, Operation, MirrorType, Reasons, None
<1>3. CASE pc = "incomplete"
  <2>1. Pending = IncompleteCall
    BY <1>3 DEF Pending
  <2> QED
    BY <1>1, <1>3, <2>1
    DEF IncompleteCall, Call, NoOperation, Operation, MirrorType, Reasons, None
<1>4. CASE pc = "stage"
  <2>1. Pending = StageCall
    BY <1>4 DEF Pending
  <2> QED
    BY <1>1, <1>4, <2>1
    DEF StageCall, Call, NoOperation, Operation, MirrorType, Reasons, None
<1>5. CASE pc = "commit"
  <2>1. Pending = RecoverCall
    BY <1>5 DEF Pending
  <2> QED
    BY <1>1, <1>5, <2>1
    DEF RecoverCall, Call, NoOperation, Operation, MirrorType, Reasons, None
<1>6. CASE pc = "publish"
  <2>1. Pending = EventCall
    BY <1>6 DEF Pending
  <2> QED
    <3> DEFINE next == mirror.highwater + 1
    <3>1. /\ Call("event") \in Operation /\ Call("event").kind = "event"
          /\ Call("event").generation = mirror.generation
          /\ Call("event").epoch = mirror.epoch /\ Call("event").token = process
      BY <1>1 DEF Call, NoOperation, Operation, MirrorType, Reasons, None
    <3>2. next \in Nat /\ mirror.highwater \in Nat
      BY <1>1 DEF MirrorType
    <3>3. EventCall = [Call("event") EXCEPT !.at = next, !.prior = mirror.highwater]
      BY DEF EventCall
    <3> HIDE DEF next
    <3>4. /\ EventCall \in Operation /\ EventCall.kind = "event"
          /\ EventCall.generation = mirror.generation
          /\ EventCall.epoch = mirror.epoch /\ EventCall.token = process
          /\ EventCall.at = next /\ EventCall.prior = mirror.highwater
      BY <3>1, <3>2, <3>3 DEF Operation
    <3> QED
      BY <1>6, <2>1, <3>4 DEF next
<1> QED
  BY <1>2, <1>3, <1>4, <1>5, <1>6 DEF Calling

(* It calls within a recovery or a publication only.                       *)
LEMMA CallingUnderway == Calling => pc \in Underway
  BY DEF Calling, Underway, Before, Serving, Publishing

(* What the exporter asks for is sound.                                    *)
LEMMA PendingSound ==
    ASSUME Typed, ExportInv, Calling PROVE Sound(hub, Pending)
<1>1. mirror.generation # None
  BY CallingUnderway DEF ExportInv, ExportAt, OwnInv
<1>2. CASE pc \in {"abandon", "incomplete"}
  BY <1>2, PendingFields DEF Sound
<1>3. CASE pc = "stage"
  <2>1. mirror.projection = Structure(mirror.highwater) /\ hub.generation # mirror.generation
    BY <1>3 DEF ExportInv, ExportAt, StepInv, Before
  <2> QED
    BY <1>1, <1>3, <2>1, PendingFields DEF Sound
<1>4. CASE pc = "commit"
  <2>1. hub.generation = mirror.generation => hub.source = mirror.highwater
    BY <1>4 DEF ExportInv, ExportAt, StepInv
  <2> QED
    BY <1>1, <1>4, <2>1, PendingFields DEF Sound
<1>5. CASE pc = "publish"
  BY <1>1, <1>5, PendingFields DEF Sound
<1> QED
  BY <1>2, <1>3, <1>4, <1>5 DEF Calling

(* It is an operation of this recovery.                                    *)
LEMMA PendingOwn ==
    ASSUME Typed, Calling PROVE Own(Pending)
<1>1. mirror.highwater \in Nat
  BY DEF Typed, MirrorType
<1>2. CASE pc \in {"abandon", "incomplete", "stage", "commit"}
  BY <1>2, PendingFields DEF Own, OwnEvent, Before
<1>3. CASE pc = "publish"
  <2>1. Pending = [Call("event") EXCEPT !.at = Pending.at, !.prior = Pending.prior]
    <3>1. /\ Pending = EventCall
          /\ Pending.at = mirror.highwater + 1 /\ Pending.prior = mirror.highwater
      BY <1>3, PendingFields
    <3> QED
      BY <3>1 DEF EventCall
  <2>2. Pending.at <= Position /\ Pending.at = Pending.prior + 1
    BY <1>1, <1>3, PendingFields DEF Position
  <2>3. pc \in Serving
    BY <1>3 DEF Serving, Publishing
  <2> QED
    BY <1>3, <2>1, <2>2, <2>3, PendingFields DEF Own, OwnEvent, Before
<1> QED
  BY <1>2, <1>3 DEF Calling

(* Whether its answer arrives or not, a call leaves the hub h in step with *)
(* the exporter.                                                           *)
LEMMA CallKeeps ==
    ASSUME Typed, ExportInv, Calling, NEW h, Moves(hub, Pending, h, follower)
    PROVE  ExportAt(h)
<1> DEFINE g == mirror.generation
<1>1. g # None /\ pc \in Underway
  BY CallingUnderway DEF ExportInv, ExportAt, OwnInv
<1>2. HubInv(hub, follower) /\ hub \in Hub
  BY DEF ExportInv, ExportAt, Typed
<1>3. h \in Hub /\ HubInv(h, follower) /\ h.epoch = hub.epoch /\ h.last \in {hub.last, Pending}
  BY DEF Moves
<1>4. pc \in Before => hub.generation # g
  BY DEF ExportInv, ExportAt, StepInv
<1>5. pc \in Before => h.generation = hub.generation
  BY PendingFields DEF Moves, Stays, Before, Calling
<1>6. LateInv(h)
  <2> SUFFICES ASSUME NEW op \in late
               PROVE  /\ op.kind # "none" /\ Sound(h, op)
                      /\ pc \in Underway /\ op.kind = "recover" =>
                            IF op.generation = g
                            THEN pc \in Serving => h.staging # op.generation
                            ELSE op.old # g
    BY DEF LateInv
  <2>1. /\ op.kind # "none" /\ Sound(hub, op)
        /\ pc \in Underway /\ op.kind = "recover" =>
              IF op.generation = g
              THEN pc \in Serving => hub.staging # op.generation
              ELSE op.old # g
    BY DEF ExportInv, ExportAt, LateInv
  <2>2. Pending.kind = "incomplete" => hub.generation # Pending.generation
    BY <1>4, PendingFields DEF Calling, Before
  <2>3. Sound(h, op)
    BY <1>2, <2>1, <2>2, SoundStays
  <2>4. pc \in Serving => h.staging = hub.staging
    BY PendingFields DEF Moves, Stays, Serving, Publishing, Calling
  <2> QED
    BY <2>1, <2>3, <2>4
<1>7. OwnInv(h)
  <2>1. \A op \in late \cup {hub.last} : op.generation = g => Own(op)
    BY <1>1 DEF ExportInv, ExportAt, OwnInv
  <2> QED
    BY <1>1, <1>3, <2>1, PendingOwn DEF OwnInv
<1>8. StepInv(h)
  <2>1. pc = "commit" /\ h.generation = g => h.source = mirror.highwater
    BY PendingFields DEF Moves, Stays, ExportInv, ExportAt, StepInv
  <2>2. ASSUME pc \in Serving, h.epoch = mirror.epoch
        PROVE  h.generation = g /\ h.source \in {mirror.highwater, Position}
    <3>1. pc = "publish"
      BY <2>2 DEF Calling, Serving, Publishing
    <3>2. hub.generation = g /\ hub.source \in {mirror.highwater, Position}
      BY <1>3, <2>2 DEF ExportInv, ExportAt, StepInv
    <3> QED
      BY <3>1, <3>2, PendingFields DEF Moves, Stays, Position
  <2> QED
    BY <1>3, <1>4, <1>5, <2>1, <2>2 DEF ExportInv, ExportAt, StepInv
<1> QED
  BY <1>3, <1>6, <1>7, <1>8 DEF ExportInv, ExportAt

(* A request that arrives late does too; nothing else is on its way.       *)
LEMMA LateKeeps ==
    ASSUME Typed, ExportInv, NEW op \in late, NEW h, Moves(hub, op, h, follower)
    PROVE  HubInv(h, follower) /\ OwnInv(h) /\ StepInv(h)
<1> DEFINE g == mirror.generation
<1>1. HubInv(hub, follower) /\ hub \in Hub
  BY DEF ExportInv, ExportAt, Typed
<1>2. h \in Hub /\ HubInv(h, follower) /\ h.epoch = hub.epoch /\ h.last \in {hub.last, op}
  BY DEF Moves
<1>3. OwnInv(h)
  BY <1>2 DEF ExportInv, ExportAt, OwnInv
<1>4. pc \in Underway => g # None /\ (op.generation = g => Own(op))
  BY DEF ExportInv, ExportAt, OwnInv
<1>5. pc \in Underway /\ op.kind = "recover" =>
          IF op.generation = g
          THEN pc \in Serving => hub.staging # op.generation
          ELSE op.old # g
  BY DEF ExportInv, ExportAt, LateInv
<1>6. ASSUME pc \in Before PROVE h.generation # g
  <2>1. pc \in Underway /\ hub.generation # g
    BY <1>6 DEF Underway, ExportInv, ExportAt, StepInv
  <2>2. op.kind = "recover" => op.generation # g
    BY <1>4, <1>6, <2>1 DEF Own
  <2> QED
    BY <2>1, <2>2 DEF Moves, Stays
<1>7. ASSUME pc = "commit", h.generation = g PROVE h.source = mirror.highwater
  <2>1. pc \in Underway /\ pc \notin Before /\ pc \notin Serving
    BY <1>7 DEF Underway, Before, Serving, Publishing
  <2>2. hub.generation = g => hub.source = mirror.highwater
    BY <1>7 DEF ExportInv, ExportAt, StepInv
  <2>3. CASE h.generation = hub.generation /\ h.source = hub.source
    BY <1>7, <2>2, <2>3
  <2>4. CASE op.kind = "event" /\ EventFits(hub, op) /\ h.generation = hub.generation
    <3>1. op.generation = g
      BY <1>7, <2>4 DEF EventFits, Continues
    <3> QED
      BY <1>4, <2>1, <2>4, <3>1 DEF Own, OwnEvent
  <2>5. CASE op.kind = "recover" /\ h.generation = op.generation /\ h.source = op.at
    <3>1. op = RecoverCall
      BY <1>4, <1>7, <2>1, <2>5 DEF Own
    <3> QED
      BY <2>5, <3>1 DEF RecoverCall, Call, NoOperation
  <2> QED
    BY <2>3, <2>4, <2>5 DEF Moves, Stays
<1>8. ASSUME pc \in Serving, h.epoch = mirror.epoch
      PROVE  h.generation = g /\ h.source \in {mirror.highwater, Position}
  <2>1. pc \in Underway /\ hub.generation = g /\ hub.source \in {mirror.highwater, Position}
    BY <1>2, <1>8 DEF Underway, ExportInv, ExportAt, StepInv
  <2>2. CASE h.generation = hub.generation /\ h.source = hub.source
    BY <2>1, <2>2
  <2>3. CASE op.kind = "event" /\ EventFits(hub, op) /\ h.generation = hub.generation /\ h.source = op.at
    <3>1. op.at \in Nat /\ hub.source \in Nat
      <4>1. op \in Operation
        BY DEF Typed, SlotInv
      <4> QED
        BY <1>1, <4>1, HubTyped DEF Operation
    <3>2. op.generation = g /\ op.at > hub.source
      BY <2>1, <2>3, <3>1 DEF EventFits, Continues, Stale
    <3>3. op.at <= Position
      BY <1>4, <2>1, <2>3, <3>2 DEF Own, OwnEvent
    <3> QED
      BY <2>1, <2>3, <3>1, <3>2, <3>3 DEF Position, Typed, MirrorType
  <2>4. CASE op.kind = "recover" /\ RecoverFits(hub, op)
    BY <1>4, <1>5, <1>8, <2>1, <2>4 DEF RecoverFits
  <2> QED
    BY <2>2, <2>3, <2>4 DEF Moves, Stays
<1>9. StepInv(h)
  BY <1>2, <1>6, <1>7, <1>8 DEF ExportInv, ExportAt, StepInv
<1> QED
  BY <1>2, <1>3, <1>9

(***************************************************************************)
(* The follower, and what the hub loses.                                   *)
(***************************************************************************)

(* The entries and the revision are forgotten.                             *)
LEMMA ForgottenFields ==
    ASSUME NEW h \in Hub
    PROVE  /\ Forgotten(h) \in Hub /\ SameHub(Forgotten(h), h)
           /\ Forgotten(h).entries = <<>> /\ Forgotten(h).revision = 0
<1>1. <<>> \in Seq(EntryType) /\ 0 \in Nat
  OBVIOUS
<1> QED
  BY <1>1 DEF Forgotten, Hub, SameHub, EntryType

(* Nobody follows, or someone has just begun to. *)
LEMMA ForgottenKeeps ==
    ASSUME NEW h \in Hub, NEW f, NEW x, HubInv(h, f),
           x.phase # "out" => /\ x.phase = "captured"
                              /\ x.generation = h.generation
                              /\ x.complete => h.status = "complete"
    PROVE  HubInv(Forgotten(h), x)
<1> DEFINE k == Forgotten(h)
<1>1. k \in Hub /\ SameHub(k, h) /\ k.entries = <<>> /\ k.revision = 0
  BY ForgottenFields
<1> HIDE DEF k
<1>2. LiveIsExact(k) /\ StagedIsExact(k) /\ StatusAgrees(k) /\ LastAgrees(k)
  BY <1>1 DEF HubInv, SameHub, LiveIsExact, StagedIsExact, StatusAgrees, LastAgrees
<1>3. DOMAIN k.entries = {}
  BY <1>1
<1>4. EventsOnly(k) /\ EntriesOf(k) = {}
  BY <1>3 DEF EventsOnly, EntriesOf
<1>5. RowIsFollowed(k, x)
  BY <1>1, <1>3 DEF RowIsFollowed, SameHub
<1>6. TableIsFollowed(k, x)
  BY <1>4 DEF TableIsFollowed
<1> QED
  BY <1>2, <1>5, <1>6 DEF HubInv, k

(* The table is read while the row has its revision.                       *)
LEMMA ReadKeeps ==
    ASSUME NEW h \in Hub, NEW f, NEW x, HubInv(h, f), f.phase = "captured",
           x.phase = "read", x.epoch = f.epoch, x.generation = f.generation,
           x.complete => f.complete,
           f.generation # None => x.view = h.tables[f.generation].entities
    PROVE  HubInv(h, x)
<1>1. RowIsFollowed(h, x)
  BY DEF HubInv, RowIsFollowed
<1>2. ASSUME h.epoch = f.epoch, h.revision = 0
      PROVE  /\ EventsOnly(h) /\ EntriesOf(h) = {}
             /\ h.generation # None => x.view = h.tables[h.generation].entities
  <2>1. EventsOnly(h) /\ EntriesOf(h) = {}
    BY <1>2 DEF HubInv, TableIsFollowed
  <2>2. h.generation = f.generation
    BY <1>2, <2>1 DEF HubInv, RowIsFollowed
  <2> QED
    BY <2>1, <2>2
<1>3. TableIsFollowed(h, x)
  BY <1>2 DEF TableIsFollowed
<1> QED
  BY <1>1, <1>3 DEF HubInv

(* The row had not changed: what was read is what is live.                 *)
LEMMA CheckKeeps ==
    ASSUME NEW h \in Hub, NEW f, NEW x, HubInv(h, f), f.phase = "read",
           h.epoch = f.epoch, h.revision = 0,
           x.phase = "following", x.epoch = f.epoch, x.generation = f.generation,
           x.complete = f.complete, x.view = f.view
    PROVE  HubInv(h, x)
<1>1. RowIsFollowed(h, x)
  BY DEF HubInv, RowIsFollowed
<1>2. /\ EntriesOf(h) = {}
      /\ h.generation # None => f.view = h.tables[h.generation].entities
  BY DEF HubInv, TableIsFollowed
<1>3. TableIsFollowed(h, x)
  BY <1>2 DEF TableIsFollowed
<1> QED
  BY <1>1, <1>3 DEF HubInv

(* One entry is read.                                                      *)
LEMMA TailFields ==
    ASSUME NEW h \in Hub, h.entries # <<>>
    PROVE  LET k == [h EXCEPT !.entries = Tail(h.entries)] IN
           /\ k \in Hub /\ SameHub(k, h) /\ k.revision = h.revision
           /\ k.entries = Tail(h.entries)
<1>1. Tail(h.entries) \in Seq(EntryType)
  BY HubTyped
<1> QED
  BY <1>1 DEF Hub, SameHub, EntryType

(* The entries are the first one and those after it. *)
LEMMA TailEntries ==
    ASSUME NEW r \in Seq(EntryType), r # <<>>
    PROVE  /\ Len(r) \in Nat \ {0} /\ DOMAIN r = 1 .. Len(r) /\ Head(r) = r[1]
           /\ DOMAIN Tail(r) = 1 .. Len(r) - 1
           /\ \A i \in 1 .. Len(r) - 1 : Tail(r)[i] = r[i + 1]
  OBVIOUS

(* An event that is read moves from the entries to the view.               *)
LEMMA ReadEventKeeps ==
    ASSUME NEW h \in Hub, NEW f, NEW x, HubInv(h, f), f.phase = "following",
           h.entries # <<>>, Head(h.entries).kind = "event",
           x.phase = "following", x.epoch = f.epoch, x.generation = f.generation,
           x.complete = f.complete, x.view = f.view \cup ({Head(h.entries).at} \ Parts)
    PROVE  HubInv([h EXCEPT !.entries = Tail(h.entries)], x)
<1> DEFINE k == [h EXCEPT !.entries = Tail(h.entries)]
           n == Len(h.entries)
           first == h.entries[1].at
<1>1. SameHub(k, h) /\ k.entries = Tail(h.entries)
  BY TailFields
<1> HIDE DEF k
<1>2. h.entries \in Seq(EntryType)
  BY HubTyped
<1>3. /\ n \in Nat \ {0} /\ DOMAIN h.entries = 1 .. n /\ Head(h.entries) = h.entries[1]
      /\ DOMAIN k.entries = 1 .. n - 1
      /\ \A i \in 1 .. n - 1 : k.entries[i] = h.entries[i + 1]
  BY <1>1, <1>2, TailEntries
<1>4. \A i \in 1 .. n : h.entries[i].at \in Nat
  <2>1. \A i \in 1 .. n : h.entries[i] \in EntryType
    BY <1>2, <1>3
  <2> QED
    BY <2>1 DEF EntryType
<1> HIDE DEF n
<1>5. \A i \in 1 .. n - 1 : i + 1 \in 1 .. n /\ i \in Int
  BY <1>3
<1>6. \A j \in 1 .. n : j = 1 \/ (j - 1 \in 1 .. n - 1 /\ j = (j - 1) + 1)
  BY <1>3
<1>14. \A j \in 1 .. n : h.entries[j] = h.entries[1]
                          \/ \E i \in 1 .. n - 1 : k.entries[i] = h.entries[j]
  <2> TAKE j \in 1 .. n
  <2>1. CASE j = 1
    BY <2>1
  <2>2. CASE j - 1 \in 1 .. n - 1 /\ j = (j - 1) + 1
    <3>1. k.entries[j - 1] = h.entries[(j - 1) + 1]
      BY <1>3, <2>2
    <3>2. k.entries[j - 1] = h.entries[j]
      BY <2>2, <3>1
    <3> QED
      BY <2>2, <3>2
  <2> QED
    BY <1>6, <2>1, <2>2
<1>7. EventsOnly(k) => EventsOnly(h)
  <2> SUFFICES ASSUME EventsOnly(k), NEW j \in 1 .. n PROVE h.entries[j].kind = "event"
    BY <1>3 DEF EventsOnly
  <2>1. \A i \in 1 .. n - 1 : k.entries[i].kind = "event"
    BY <1>3 DEF EventsOnly
  <2> QED
    BY <1>3, <1>14, <2>1
<1>8. {h.entries[i].at : i \in DOMAIN h.entries}
        = {first} \cup {k.entries[i].at : i \in DOMAIN k.entries}
  <2>1. 1 \in 1 .. n
    BY <1>3
  <2>2. \A i \in 1 .. n - 1 : k.entries[i].at = h.entries[i + 1].at /\ i + 1 \in 1 .. n
    BY <1>3, <1>5
  <2>3. \A j \in 1 .. n : h.entries[j].at = first
                          \/ \E i \in 1 .. n - 1 : k.entries[i].at = h.entries[j].at
    BY <1>14
  <2> DEFINE all == {h.entries[i].at : i \in 1 .. n}
             rest == {k.entries[i].at : i \in 1 .. n - 1}
  <2>4. all \subseteq {first} \cup rest
    BY <2>3
  <2>5. {first} \cup rest \subseteq all
    BY <2>1, <2>2
  <2>6. all = {first} \cup rest
    BY <2>4, <2>5
  <2> QED
    BY <1>3, <2>6
<1>9. EntriesOf(h) = EntriesOf(k) \cup ({first} \ Parts)
  BY <1>8 DEF EntriesOf
<1>10. LiveIsExact(k) /\ StagedIsExact(k) /\ StatusAgrees(k) /\ LastAgrees(k)
  BY <1>1 DEF HubInv, SameHub, LiveIsExact, StagedIsExact, StatusAgrees, LastAgrees
<1>11. ASSUME k.epoch = f.epoch, EventsOnly(k)
       PROVE  /\ h.generation = f.generation
              /\ f.complete => h.status = "complete"
              /\ \A i \in 1 .. n : h.entries[i].at <= h.source
              /\ \A i, j \in 1 .. n : i < j => h.entries[i].at < h.entries[j].at
  BY <1>1, <1>3, <1>7, <1>11 DEF HubInv, RowIsFollowed, SameHub
<1>12. RowIsFollowed(k, x)
  <2> SUFFICES ASSUME k.epoch = f.epoch, EventsOnly(k)
               PROVE  /\ k.generation = f.generation
                      /\ f.complete => k.status = "complete"
                      /\ \A i \in DOMAIN k.entries : k.entries[i].at <= k.source
                      /\ \A i, j \in DOMAIN k.entries : i < j => k.entries[i].at < k.entries[j].at
    BY DEF RowIsFollowed
  <2>1. \A i \in DOMAIN k.entries : k.entries[i].at <= h.source
    BY <1>3, <1>5, <1>11
  <2>2. \A i, j \in DOMAIN k.entries : i < j => k.entries[i].at < k.entries[j].at
    <3> SUFFICES ASSUME NEW i \in 1 .. n - 1, NEW j \in 1 .. n - 1, i < j
                 PROVE  k.entries[i].at < k.entries[j].at
      BY <1>3
    <3>1. i + 1 \in 1 .. n /\ j + 1 \in 1 .. n /\ i + 1 < j + 1
      BY <1>5
    <3>2. h.entries[i + 1].at < h.entries[j + 1].at
      BY <1>11, <3>1
    <3> QED
      BY <1>3, <3>2
  <2> QED
    BY <1>1, <1>11, <2>1, <2>2 DEF SameHub
<1>13. TableIsFollowed(k, x)
  <2> SUFFICES ASSUME k.epoch = f.epoch, EventsOnly(k), k.generation # None
               PROVE  /\ x.view \cup EntriesOf(k) = k.tables[k.generation].entities
                      /\ x.view \cap EntriesOf(k) = {}
    BY DEF TableIsFollowed
  <2>1. /\ f.view \cup EntriesOf(h) = h.tables[h.generation].entities
        /\ f.view \cap EntriesOf(h) = {}
    BY <1>1, <1>7 DEF HubInv, TableIsFollowed, SameHub
  <2>2. first \notin EntriesOf(k)
    <3>1. \A i \in 1 .. n - 1 : 1 \in 1 .. n /\ i + 1 \in 1 .. n /\ 1 < i + 1
      BY <1>3
    <3>2. \A i \in 1 .. n - 1 : k.entries[i].at # first
      <4> TAKE i \in 1 .. n - 1
      <4>1. h.entries[1].at < h.entries[i + 1].at
        BY <1>11, <3>1
      <4>2. h.entries[1].at \in Nat /\ h.entries[i + 1].at \in Nat
        BY <1>4, <3>1
      <4> QED
        BY <1>3, <4>1, <4>2
    <3> QED
      BY <1>3, <3>2 DEF EntriesOf
  <2>3. x.view = f.view \cup ({first} \ Parts)
    BY <1>3
  <2> QED
    BY <1>1, <1>9, <2>1, <2>2, <2>3 DEF SameHub
<1> QED
  BY <1>10, <1>12, <1>13 DEF HubInv, k

(* A table that expires is not the live one.                               *)
LEMMA ExpiredKeeps ==
    ASSUME NEW h \in Hub, NEW f, HubInv(h, f), NEW g \in Generations, h.tables[g].expiring
    PROVE  LET k == [h EXCEPT !.tables[g] = NoTable] IN
           /\ k \in Hub /\ HubInv(k, f)
           /\ Stays(h, k) /\ k.last = h.last /\ k.epoch = h.epoch
<1> DEFINE tables == [h.tables EXCEPT ![g] = NoTable]
           k == [h EXCEPT !.tables[g] = NoTable]
<1>1. h.tables \in [Generations -> Table] /\ h.generation \in Generations \cup {None}
  BY HubTyped
<1>2. NoTable \in Table
  BY DEF NoTable, Table
<1>3. tables \in [Generations -> Table]
  BY <1>1, <1>2
<1>4. k = [h EXCEPT !.tables = tables]
  BY DEF Hub
<1>5. \A x \in Generations : tables[x] \in {NoTable, h.tables[x]}
  BY <1>1
<1>6. h.generation # g \/ h.generation = None
  BY DEF HubInv, LiveIsExact
<1>7. h.generation # None => tables[h.generation] = h.tables[h.generation]
  BY <1>1, <1>6
<1> HIDE DEF tables, k
<1>8. k \in Hub
  BY <1>3, <1>4 DEF Hub
<1>9. /\ k.tables = tables /\ Stays(h, k) /\ k.last = h.last /\ k.epoch = h.epoch
      /\ k.entries = h.entries /\ k.revision = h.revision /\ k.status = h.status
  BY <1>4 DEF Hub, Stays
<1>10. HubInv(k, f)
  BY <1>5, <1>7, <1>9, UnlinkKeeps DEF Stays
<1> QED
  BY <1>8, <1>9, <1>10 DEF k

(* An empty hub, which nobody follows or whose followers know it for       *)
(* another.                                                                *)
LEMMA EmptyFields ==
    ASSUME NEW e \in Nat, NEW f, f.phase = "out" \/ f.epoch < e, f.epoch \in Nat
    PROVE  LET k == EmptyHub(e) IN
           /\ k \in Hub /\ HubInv(k, f) /\ k.epoch = e
           /\ k.staging = None /\ k.generation = None /\ k.last.kind = "none"
           /\ k.last.generation = None
<1> DEFINE k == EmptyHub(e)
<1>1. NoOperation \in Operation /\ NoOperation.kind = "none" /\ NoOperation.generation = None
  BY DEF NoOperation, Operation, Reasons, None
<1>2. [g \in Generations |-> NoTable] \in [Generations -> Table]
  BY DEF NoTable, Table
<1>3. <<>> \in Seq(EntryType) /\ None \in Nat
  BY DEF None
<1>4. k \in Hub
  BY <1>1, <1>2, <1>3 DEF EmptyHub, Hub, EntryType, Reasons, None
<1>5. /\ k.epoch = e /\ k.staging = None /\ k.generation = None /\ k.last = NoOperation
      /\ k.status = "incomplete" /\ k.tables = [g \in Generations |-> NoTable]
  BY DEF EmptyHub
<1> HIDE DEF k
<1>6. LiveIsExact(k) /\ StagedIsExact(k) /\ StatusAgrees(k) /\ LastAgrees(k)
  BY <1>1, <1>5, NoTableFields DEF LiveIsExact, StagedIsExact, StatusAgrees, LastAgrees
<1>7. RowIsFollowed(k, f) /\ TableIsFollowed(k, f)
  BY <1>5 DEF RowIsFollowed, TableIsFollowed
<1> QED
  BY <1>1, <1>4, <1>5, <1>6, <1>7 DEF HubInv, k

(***************************************************************************)
(* Steps.                                                                  *)
(***************************************************************************)

(* The exporter and the requests are as they were, and so is what they     *)
(* meet at the hub.                                                        *)
LEMMA AsideKeeps ==
    ASSUME ExportInv, Stays(hub, hub'), hub'.last = hub.last, hub'.epoch = hub.epoch,
           HubInv(hub', follower'), follower'.epoch <= hub'.epoch,
           late' = late, pc' = pc, mirror' = mirror, process' = process, FinalInv'
    PROVE  ExportInv'
<1>1. /\ Position' = Position /\ Call("event")' = Call("event")
      /\ IncompleteCall' = IncompleteCall /\ RecoverCall' = RecoverCall
  BY DEF Position, IncompleteCall, RecoverCall, Call
<1>2. ASSUME NEW op, Own(op) PROVE Own(op)'
  BY <1>1, <1>2 DEF Own, OwnEvent
<1>3. LateInv(hub)'
  <2> SUFFICES ASSUME NEW op \in late'
               PROVE  /\ op.kind # "none" /\ Sound(hub', op)
                      /\ pc' \in Underway /\ op.kind = "recover" =>
                            IF op.generation = mirror'.generation
                            THEN pc' \in Serving => hub'.staging # op.generation
                            ELSE op.old # mirror'.generation
    BY DEF LateInv, Underway, Serving
  <2>1. /\ op.kind # "none" /\ Sound(hub, op)
        /\ pc \in Underway /\ op.kind = "recover" =>
              IF op.generation = mirror.generation
              THEN pc \in Serving => hub.staging # op.generation
              ELSE op.old # mirror.generation
    BY DEF ExportInv, ExportAt, LateInv
  <2>2. Sound(hub', op)
    BY <2>1 DEF Sound, Stays
  <2> QED
    BY <2>1, <2>2 DEF Stays
<1>4. OwnInv(hub)'
  BY <1>2 DEF ExportInv, ExportAt, OwnInv
<1>5. StepInv(hub)'
  BY <1>1 DEF ExportInv, ExportAt, StepInv, Stays
<1> QED
  BY <1>3, <1>4, <1>5 DEF ExportInv, ExportAt

(* The exporter is not, or not yet, recovering.                            *)
Idle == {"off", "initialize", "capture"}

(* Then only the requests that are late and the follower matter.           *)
LEMMA IdleKeeps ==
    ASSUME pc' \in Idle, mirror'.epoch <= hub'.epoch, follower'.epoch <= hub'.epoch,
           HubInv(hub', follower'),
           \A op \in late' : op.kind # "none" /\ Sound(hub', op), final' => stopping'
    PROVE  ExportInv'
<1>1. /\ pc' \notin Underway /\ pc' \notin Serving /\ pc' \notin Before
      /\ pc' \notin {"broken", "stage", "commit", "done"}
  BY DEF Idle, Underway, Before, Serving, Publishing
<1>2. LateInv(hub)'
  BY <1>1 DEF LateInv
<1>3. OwnInv(hub)'
  BY <1>1 DEF OwnInv
<1>4. StepInv(hub)'
  BY <1>1 DEF StepInv
<1>5. FinalInv'
  BY <1>1 DEF FinalInv
<1> QED
  BY <1>2, <1>3, <1>4, <1>5 DEF ExportInv, ExportAt

(* The exporter goes on with the recovery or the publication it is at.     *)
LEMMA AdvanceKeeps ==
    ASSUME NEW h, ExportAt(h), hub' = h, late' = late, follower' = follower,
           pc \in Underway, pc' \in Underway, mirror'.generation = mirror.generation,
           pc' \in Serving => pc \in Serving \/ h.staging # mirror.generation,
           \A op \in late \cup {h.last} : op.generation = mirror.generation /\ Own(op) => Own(op)',
           StepInv(hub)', FinalInv'
    PROVE  ExportInv'
<1>1. LateInv(hub)'
  <2> SUFFICES ASSUME NEW op \in late'
               PROVE  /\ op.kind # "none" /\ Sound(hub', op)
                      /\ pc' \in Underway /\ op.kind = "recover" =>
                            IF op.generation = mirror'.generation
                            THEN pc' \in Serving => hub'.staging # op.generation
                            ELSE op.old # mirror'.generation
    BY DEF LateInv, Underway, Serving
  <2>1. /\ op.kind # "none" /\ Sound(h, op)
        /\ op.kind = "recover" =>
              IF op.generation = mirror.generation
              THEN pc \in Serving => h.staging # op.generation
              ELSE op.old # mirror.generation
    BY DEF ExportAt, LateInv
  <2> QED
    BY <2>1
<1>2. OwnInv(hub)'
  <2>1. /\ mirror.generation # None
        /\ \A op \in late \cup {h.last} : op.generation = mirror.generation => Own(op)
    BY DEF ExportAt, OwnInv
  <2>2. \A op \in late' \cup {h.last} : op.generation = mirror'.generation => Own(op)'
    BY <2>1
  <2> QED
    BY <2>1, <2>2 DEF OwnInv
<1> QED
  BY <1>1, <1>2 DEF ExportInv, ExportAt

(* The whole invariant. *)
Inv == Typed /\ ExportInv

(* An event is emitted; whoever has finished had stopped.                  *)
LEMMA EmitKeeps == ASSUME Inv, Emit PROVE Inv'
<1>1. Typed'
  BY DEF Inv, Typed, Emit, exporter, SlotInv
<1>2. FinalInv'
  BY DEF Inv, ExportInv, ExportAt, FinalInv, Emit, exporter
<1>3. ExportInv'
  BY <1>2, AsideKeeps DEF Inv, ExportInv, ExportAt, StepInv, Stays, Emit, exporter
<1> QED
  BY <1>1, <1>3 DEF Inv

(* The reader is overflowed.                                               *)
LEMMA OverflowKeeps == ASSUME Inv, Overflow PROVE Inv'
<1>1. Typed'
  BY DEF Inv, Typed, Overflow, SlotInv, ReaderType
<1>2. FinalInv'
  BY DEF Inv, ExportInv, ExportAt, FinalInv, Overflow
<1>3. ExportInv'
  BY <1>2, AsideKeeps DEF Inv, ExportInv, ExportAt, StepInv, Stays, Overflow
<1> QED
  BY <1>1, <1>3 DEF Inv

(* Execution stops.                                                        *)
LEMMA FinishKeeps == ASSUME Inv, Finish PROVE Inv'
<1>1. Typed'
  BY DEF Inv, Typed, Finish, exporter, SlotInv
<1>2. FinalInv'
  BY DEF Inv, ExportInv, ExportAt, FinalInv, Finish, exporter
<1>3. ExportInv'
  BY <1>2, AsideKeeps DEF Inv, ExportInv, ExportAt, StepInv, Stays, Finish, exporter
<1> QED
  BY <1>1, <1>3 DEF Inv

(* An exporter that knows nothing of the hub.                              *)
LEMMA NoMirrorTyped ==
    ASSUME NEW r \in Reasons
    PROVE  /\ [NoMirror EXCEPT !.reason = r] \in MirrorType
           /\ [NoMirror EXCEPT !.reason = r].epoch = 0
           /\ NoMirror \in MirrorType /\ NoMirror.epoch = 0
  BY DEF NoMirror, MirrorType, Reasons, None

(* The process is replaced; requests of the old one may still be on their  *)
(* way.                                                                    *)
LEMMA RestartKeeps == ASSUME Inv, Restart PROVE Inv'
<1>1. mirror' \in MirrorType /\ mirror'.epoch = 0 /\ reader' \in ReaderType
  BY NoMirrorTyped DEF Restart, NoReader, ReaderType, Reasons
<1>2. Typed'
  BY <1>1 DEF Inv, Typed, Restart, SlotInv, Steps
<1>3. hub'.epoch \in Nat
  BY <1>2, HubTyped DEF Typed
<1>4. ExportInv'
  BY <1>1, <1>3, IdleKeeps
  DEF Inv, ExportInv, ExportAt, LateInv, StepInv, Idle, Restart
<1> QED
  BY <1>2, <1>4 DEF Inv

(* The exporter starts over. *)
LEMMA FallKeeps ==
    ASSUME Typed, NEW h \in Hub, ExportAt(h), hub' = h, late' = late, process' = process,
           facts' = facts, follower' = follower, NEW r \in Reasons, Recovering(r),
           final' => stopping'
    PROVE  Inv'
<1>1. mirror' \in MirrorType /\ mirror'.epoch = 0 /\ reader' \in ReaderType
  BY NoMirrorTyped DEF Recovering, NoReader, ReaderType
<1>2. Typed'
  BY <1>1 DEF Typed, Recovering, SlotInv, Steps
<1>3. hub'.epoch \in Nat
  BY HubTyped
<1>4. ExportInv'
  BY <1>1, <1>3, IdleKeeps
  DEF ExportAt, LateInv, StepInv, Idle, Recovering
<1> QED
  BY <1>2, <1>4 DEF Inv

(* It starts over and touches nothing.                                     *)
LEMMA RestartedKeeps ==
    ASSUME Inv, NEW r \in Reasons, Restarted(r),
           hub' = hub, late' = late, process' = process, facts' = facts, follower' = follower
    PROVE  Inv'
  BY FallKeeps DEF Inv, Typed, ExportInv, Restarted

(***************************************************************************)
(* The lease.                                                              *)
(***************************************************************************)

(* The lease does not matter to what the hub keeps.                        *)
LEMMA LeasedHub ==
    ASSUME NEW h \in Hub, NEW f, HubInv(h, f), NEW l \in Nat
    PROVE  LET k == [h EXCEPT !.lease = l] IN
           k \in Hub /\ HubInv(k, f) /\ Stays(h, k) /\ k.last = h.last /\ k.epoch = h.epoch
<1> DEFINE k == [h EXCEPT !.lease = l]
<1>1. k \in Hub /\ SameHub(k, h) /\ k.entries = h.entries /\ k.revision = h.revision
  BY UnleasedFields
<1> HIDE DEF k
<1>2. HubInv(k, f)
  BY <1>1, SameHubKeeps
<1> QED
  BY <1>1, <1>2 DEF SameHub, Stays, k

(* The lease changes, and an exporter may begin.                           *)
LEMMA LeaseKeeps ==
    ASSUME Inv, NEW l \in Nat, hub' = [hub EXCEPT !.lease = l],
           facts' = facts, process' = process, late' = late, follower' = follower,
           final' = final, mirror' = mirror, reader' = reader, stopping' = stopping,
           pc' = pc \/ (pc \in Idle /\ pc' \in Idle)
    PROVE  Inv'
<1>1. HubInv(hub, follower) /\ hub \in Hub
  BY DEF Inv, Typed, ExportInv, ExportAt
<1>2. /\ hub' \in Hub /\ HubInv(hub', follower)
      /\ Stays(hub, hub') /\ hub'.last = hub.last /\ hub'.epoch = hub.epoch
  BY <1>1, LeasedHub
<1>3. Typed'
  BY <1>2 DEF Inv, Typed, SlotInv, Idle, Steps
<1>4. CASE pc' = pc
  <2>1. FinalInv'
    BY <1>4 DEF Inv, ExportInv, ExportAt, FinalInv
  <2>2. ExportInv'
    BY <1>2, <1>4, <2>1, AsideKeeps DEF Inv, ExportInv, ExportAt, StepInv
  <2> QED
    BY <1>3, <2>2 DEF Inv
<1>5. CASE pc' \in Idle
  <2>1. \A op \in late' : op.kind # "none" /\ Sound(hub', op)
    BY <1>2 DEF Inv, ExportInv, ExportAt, LateInv, Sound, Stays
  <2>2. ExportInv'
    BY <1>2, <1>5, <2>1, IdleKeeps DEF Inv, ExportInv, ExportAt, StepInv, FinalInv
  <2> QED
    BY <1>3, <2>2 DEF Inv
<1> QED
  BY <1>4, <1>5

(* The process takes the lease.                                            *)
LEMMA RegisterKeeps == ASSUME Inv, Register PROVE Inv'
<1>1. process \in Nat
  BY DEF Inv, Typed
<1>2. pc' = pc \/ (pc \in Idle /\ pc' \in Idle)
  BY DEF Register, Idle
<1> QED
  BY <1>1, <1>2, LeaseKeeps DEF Register

(* The lease ends.                                                         *)
LEMMA ExpiresKeeps == ASSUME Inv, Expires PROVE Inv'
  BY LeaseKeeps DEF Expires, None, exporter

(***************************************************************************)
(* The exporter's steps without a call.                                    *)
(***************************************************************************)

(* The exporter learns the epoch of the hub.                               *)
LEMMA InitializeKeeps == ASSUME Inv, Initialize PROVE Inv'
<1>1. CASE hub.lease = process
  <2>1. hub.epoch \in Nat
    BY HubTyped DEF Inv, Typed
  <2>2. mirror' \in MirrorType /\ mirror'.epoch = hub.epoch
    BY <1>1, <2>1 DEF Initialize, Inv, Typed, MirrorType
  <2>3. Typed'
    BY <1>1, <2>2 DEF Initialize, Inv, Typed, SlotInv, Steps
  <2>4. ExportInv'
    BY <1>1, <2>1, <2>2, IdleKeeps
    DEF Initialize, Inv, ExportInv, ExportAt, LateInv, StepInv, FinalInv, Idle
  <2> QED
    BY <2>3, <2>4 DEF Inv
<1>2. CASE hub.lease # process
  BY <1>2, RestartedKeeps DEF Initialize, Reasons
<1> QED
  BY <1>1, <1>2

(* A generation is chosen that nothing has: neither the hub nor a request  *)
(* on its way.                                                             *)
LEMMA CaptureKeeps == ASSUME Inv, Capture PROVE Inv'
<1>1. CASE hub.lease = process
  <2>1. PICK g \in Fresh : mirror' = [mirror EXCEPT !.old = hub.generation,
                                                    !.oldStaging = hub.staging,
                                                    !.generation = g]
    BY <1>1 DEF Capture
  <2>2. /\ g \in Generations /\ g # None /\ g # hub.generation /\ g # hub.last.generation
        /\ \A op \in late : op.generation # g /\ op.old # g
    BY GenerationsAssumption DEF Fresh, None
  <2>3. hub.generation \in Generations \cup {None} /\ hub.staging \in Generations \cup {None}
    BY HubTyped DEF Inv, Typed
  <2>4. /\ mirror' \in MirrorType /\ mirror'.generation = g /\ mirror'.epoch = mirror.epoch
    BY <2>1, <2>2, <2>3 DEF Inv, Typed, MirrorType
  <2>5. pc = "capture" /\ pc' \in {"abandon", "incomplete"}
    BY <1>1 DEF Capture
  <2>6. Typed'
    BY <1>1, <2>4, <2>5 DEF Capture, Inv, Typed, SlotInv, Steps
  <2>7. pc' \notin Serving /\ pc' \in Before /\ pc' \notin {"broken", "stage", "commit", "done"}
    BY <2>5 DEF Serving, Publishing, Before
  <2>8. LateInv(hub)'
    BY <1>1, <2>2, <2>4, <2>7 DEF Capture, Inv, ExportInv, ExportAt, LateInv
  <2>9. OwnInv(hub)'
    BY <1>1, <2>2, <2>4 DEF Capture, OwnInv
  <2>10. StepInv(hub)'
    BY <1>1, <2>2, <2>4, <2>7 DEF Capture, Inv, ExportInv, ExportAt, StepInv
  <2>11. FinalInv'
    BY <1>1, <2>7 DEF Capture, Inv, ExportInv, ExportAt, FinalInv
  <2>12. HubInv(hub, follower)'
    BY DEF Capture, Inv, ExportInv, ExportAt
  <2> QED
    BY <2>6, <2>8, <2>9, <2>10, <2>11, <2>12 DEF Inv, ExportInv, ExportAt
<1>2. CASE hub.lease # process
  BY <1>2, RestartedKeeps DEF Capture, Reasons
<1> QED
  BY <1>1, <1>2

(* The exporter goes on, and what it has asked for is its own as before.   *)
Onward ==
    /\ mirror'.epoch = mirror.epoch /\ mirror'.generation = mirror.generation
    /\ \/ pc = "abandon" /\ pc' = "incomplete"
       \/ pc = "incomplete" /\ pc' = "snapshot"
       \/ pc = "snapshot" /\ pc' = "stage"
       \/ pc = "stage" /\ pc' = "commit"
       \/ pc = "commit" /\ pc' \in {"serve", "done"}
       \/ pc = "publish" /\ pc' = "serve" /\ mirror'.highwater = mirror.highwater + 1
       \/ pc = "serve" /\ pc' \in {"publish", "done"} /\ mirror'.highwater = mirror.highwater

(* What was asked for in this recovery fits the place the exporter goes on *)
(* to.                                                                     *)
LEMMA OwnOnward ==
    ASSUME Typed, process' = process, Onward,
           NEW op \in Operation, op.generation = mirror.generation, Own(op)
    PROVE  Own(op)'
<1>1. op.at \in Nat /\ mirror.highwater \in Nat
  BY DEF Typed, MirrorType, Operation
<1>2. OwnEvent(op)'
  <2> SUFFICES ASSUME op.kind = "event"
               PROVE  /\ pc' \in Serving /\ op.at <= Position'
                      /\ op = [Call("event")' EXCEPT !.at = op.at, !.prior = op.prior]
                      /\ op.at = op.prior + 1
    BY DEF OwnEvent, Serving, Publishing
  <2>1. /\ pc \in Serving /\ op.at <= Position
        /\ op = [Call("event") EXCEPT !.at = op.at, !.prior = op.prior]
        /\ op.at = op.prior + 1
    BY DEF Own, OwnEvent
  <2>2. Call("event")' = Call("event")
    BY DEF Call, Onward
  <2>3. pc' \in Serving /\ op.at <= Position'
    BY <1>1, <2>1 DEF Onward, Serving, Publishing, Position
  <2> QED
    BY <2>1, <2>2, <2>3
<1>3. op.kind = "incomplete" =>
          pc' # "abandon" /\ (pc' = "incomplete" => op = IncompleteCall')
  BY DEF Own, Onward
<1>4. op.kind = "stage" => pc' \notin {"abandon", "incomplete", "snapshot"}
  BY DEF Own, Onward
<1>5. op.kind = "recover" => pc' \notin Before /\ (pc' = "commit" => op = RecoverCall')
  BY DEF Own, Onward, Before
<1> QED
  BY <1>2, <1>3, <1>4, <1>5 DEF Own, Before

(* It goes on, and finds the hub where it goes.                            *)
LEMMA OnwardKeeps ==
    ASSUME Typed, NEW h \in Hub, ExportAt(h), hub' = h, late' = late, follower' = follower,
           process' = process, facts' = facts, stopping' = stopping, final' = final,
           Onward, mirror' \in MirrorType, reader' \in ReaderType,
           pc = "commit" => h.staging # mirror.generation,
           pc \in {"commit", "publish"} /\ h.epoch = mirror.epoch =>
                h.generation = mirror.generation /\ h.source = mirror'.highwater,
           pc' \in {"stage", "commit"} => mirror'.projection = Structure(mirror'.highwater),
           pc = "commit" => mirror'.highwater = mirror.highwater,
           FinalInv'
    PROVE  Inv'
<1> DEFINE g == mirror.generation
<1>1. Typed'
  BY DEF Typed, SlotInv, Onward, Steps
<1>2. h.last \in Operation /\ \A op \in late : op \in Operation
  BY HubTyped DEF Typed, SlotInv
<1>3. pc \in Underway /\ pc' \in Underway
  BY DEF Onward, Underway, Before, Serving, Publishing
<1>4. pc' \in Serving => pc \in Serving \/ h.staging # g
  BY DEF Onward, Serving, Publishing
<1>5. StepInv(hub)'
  <2>1. /\ mirror.epoch <= h.epoch /\ follower.epoch <= h.epoch
        /\ pc \in Before => h.generation # g
        /\ pc \in Serving /\ h.epoch = mirror.epoch =>
               h.generation = g /\ h.source \in {mirror.highwater, Position}
    BY DEF ExportAt, StepInv
  <2>2. pc' \in Before \cup {"commit"} => h.generation # g
    BY <2>1 DEF Onward, Before
  <2>3. ASSUME pc' \in Serving, h.epoch = mirror.epoch
        PROVE  h.generation = g /\ h.source \in {mirror'.highwater, Position'}
    <3>1. CASE pc \in {"commit", "publish"}
      BY <2>3, <3>1
    <3>2. CASE pc = "serve"
      <4>1. Position = mirror.highwater /\ mirror'.highwater = mirror.highwater
        BY <3>2 DEF Position, Onward, Typed, MirrorType
      <4>2. pc \in Serving
        BY <3>2 DEF Serving, Publishing
      <4> QED
        BY <2>1, <2>3, <4>1, <4>2
    <3> QED
      BY <2>3, <3>1, <3>2 DEF Onward, Serving, Publishing
  <2>4. pc' # "broken" /\ mirror'.epoch = mirror.epoch /\ mirror'.generation = g
    BY DEF Onward
  <2> QED
    BY <2>1, <2>2, <2>3, <2>4 DEF StepInv
<1>6. \A op \in Operation : op.generation = g /\ Own(op) => Own(op)'
  BY OwnOnward
<1>7. \A op \in late \cup {h.last} : op.generation = g /\ Own(op) => Own(op)'
  BY <1>2, <1>6
<1> QED
  BY <1>1, <1>3, <1>4, <1>5, <1>7, AdvanceKeeps DEF Inv, Onward

(* The structure is read at the boundary of the stream.                    *)
LEMMA SnapshotKeeps == ASSUME Inv, Snapshot PROVE Inv'
<1>1. facts \in Nat /\ mirror \in MirrorType /\ hub \in Hub
  BY DEF Inv, Typed
<1>2. Structure(facts) \subseteq Nat
  BY <1>1 DEF Structure
<1>3. /\ mirror' \in MirrorType /\ mirror'.highwater = facts
      /\ mirror'.projection = Structure(facts)
      /\ mirror'.epoch = mirror.epoch /\ mirror'.generation = mirror.generation
  BY <1>1, <1>2 DEF Snapshot, MirrorType
<1>4. Onward
  BY <1>3 DEF Onward, Snapshot
<1>5. FinalInv'
  BY <1>3 DEF Snapshot, Inv, ExportInv, ExportAt, FinalInv
<1>6. reader' \in ReaderType
  BY <1>1 DEF Snapshot, ReaderType
<1> QED
  BY <1>1, <1>3, <1>4, <1>5, <1>6, OnwardKeeps DEF Snapshot, Inv, ExportInv

(* There is too much of it.                                                *)
LEMMA SnapshotLimitKeeps == ASSUME Inv, SnapshotLimit PROVE Inv'
  BY RestartedKeeps DEF SnapshotLimit, Reasons

(* The hub does not say its state.                                         *)
LEMMA StateUnavailableKeeps == ASSUME Inv, StateUnavailable PROVE Inv'
  BY RestartedKeeps DEF StateUnavailable, Reasons

(* Events are acquired, or all have been published.                        *)
LEMMA ReceiveKeeps == ASSUME Inv, Receive PROVE Inv'
<1>1. pc = "serve" /\ mirror.highwater = reader.acquired
  BY DEF Receive, NoEventLeft
<1>2. CASE reader.lost /\ Restarted("source_gap")
  BY <1>2, RestartedKeeps DEF Receive, Reasons
<1>3. CASE /\ \E n \in reader.acquired + 1 .. facts : reader' = [reader EXCEPT !.acquired = n]
           /\ UNCHANGED <<pc, final, mirror>>
  <2>1. PICK n \in reader.acquired + 1 .. facts : reader' = [reader EXCEPT !.acquired = n]
    BY <1>3
  <2>2. reader.acquired \in Nat /\ facts \in Nat /\ n \in Nat
    BY DEF Inv, Typed, ReaderType
  <2>3. reader' \in ReaderType
    BY <2>1, <2>2 DEF Inv, Typed, ReaderType
  <2>4. Typed'
    BY <1>3, <2>3 DEF Receive, Inv, Typed, SlotInv
  <2>5. FinalInv'
    BY <1>3 DEF Receive, Inv, ExportInv, ExportAt, FinalInv
  <2>6. ExportInv'
    BY <1>3, <2>5, AsideKeeps DEF Receive, Inv, ExportInv, ExportAt, StepInv, Stays
  <2> QED
    BY <2>4, <2>6 DEF Inv
<1>4. CASE Drained /\ pc' = "done" /\ UNCHANGED <<final, mirror, reader>>
  <2>1. Onward
    BY <1>1, <1>4 DEF Onward
  <2>2. FinalInv'
    BY <1>1, <1>4 DEF Receive, Drained, Inv, ExportInv, ExportAt, FinalInv
  <2> QED
    BY <1>1, <1>4, <2>1, <2>2, OnwardKeeps DEF Receive, Inv, Typed, ExportInv
<1> QED
  BY <1>2, <1>3, <1>4 DEF Receive

(* The next event is published.                                            *)
LEMMA PublishKeeps == ASSUME Inv, Publish PROVE Inv'
<1>1. pc = "serve" /\ pc' = "publish" /\ UNCHANGED mirror
  BY DEF Publish, EventLeft
<1>2. Onward
  BY <1>1 DEF Onward
<1>3. FinalInv'
  BY <1>1 DEF Publish, Inv, ExportInv, ExportAt, FinalInv
<1> QED
  BY <1>1, <1>2, <1>3, OnwardKeeps DEF Publish, Inv, Typed, ExportInv

(* The backlog is given up for a last recovery.                            *)
LEMMA ShutDownKeeps == ASSUME Inv, ShutDown PROVE Inv'
<1>1. Recovering("shutdown") /\ (final' => stopping')
  BY DEF ShutDown
<1> QED
  BY <1>1, FallKeeps DEF ShutDown, Inv, Typed, ExportInv, Reasons

(* An idle exporter finds another lease or another epoch.                  *)
LEMMA FindsResetKeeps == ASSUME Inv, FindsReset PROVE Inv'
  BY RestartedKeeps DEF FindsReset, Reasons

(***************************************************************************)
(* The exporter's calls.                                                   *)
(***************************************************************************)

(* A call moves the hub, or does not reach it.                             *)
LEMMA CalledHub ==
    ASSUME Inv, Calling
    PROVE  /\ Moves(hub, Pending, Seen(Applied(hub, Pending)), follower)
           /\ Moves(hub, Pending, hub, follower)
<1>1. Sound(hub, Pending) /\ Pending \in Operation
  BY PendingSound, PendingFields DEF Inv
<1>2. hub \in Hub /\ HubInv(hub, follower)
  BY DEF Inv, Typed, ExportInv, ExportAt
<1> QED
  BY <1>1, <1>2, SeenMoves, StillMoves

(* The last operation, if it has the id of this one, is this one.          *)
LEMMA NoConflict ==
    ASSUME Inv, Calling, pc \notin {"abandon", "stage"},
           Fenced(hub, Pending), Repeated(hub, Pending)
    PROVE  hub.last = Pending
<1> DEFINE g == mirror.generation
           last == hub.last
<1>1. pc \in Underway
  BY CallingUnderway
<1>2. last.generation = g => Own(last)
  BY <1>1 DEF Inv, ExportInv, ExportAt, OwnInv
<1>3. last.kind = Pending.kind
  BY DEF Repeated, SameId
<1>4. CASE pc \in {"incomplete", "commit"}
  <2>1. last.generation = g
    BY <1>4, PendingFields DEF Inv, Repeated, SameId
  <2> QED
    BY <1>2, <1>3, <1>4, <2>1, PendingFields DEF Inv, Own
<1>5. CASE pc = "publish"
  <2>1. last.kind = "event" /\ last.at = Pending.at
    BY <1>5, PendingFields DEF Inv, Repeated, SameId
  <2>2. hub.epoch = mirror.epoch
    BY <1>5, PendingFields DEF Inv, Fenced
  <2>3. hub.generation = g
    BY <1>5, <2>2 DEF Inv, ExportInv, ExportAt, StepInv, Serving, Publishing
  <2>4. last.generation = g
    BY <2>1, <2>3 DEF Inv, ExportInv, ExportAt, HubInv, LastAgrees
  <2>5. /\ last = [Call("event") EXCEPT !.at = last.at, !.prior = last.prior]
        /\ last.at = last.prior + 1
    BY <1>2, <2>1, <2>4 DEF Own, OwnEvent
  <2>6. last.prior \in Nat /\ mirror.highwater \in Nat
    BY HubTyped DEF Inv, Typed, MirrorType, Operation
  <2>7. last.at = mirror.highwater + 1 /\ last.prior = mirror.highwater
    BY <1>5, <2>1, <2>5, <2>6, PendingFields DEF Inv
  <2>8. last = EventCall
    BY <2>5, <2>7 DEF EventCall
  <2> QED
    BY <1>5, <2>8, PendingFields DEF Inv
<1> QED
  BY <1>4, <1>5 DEF Calling

(* No answer asks for repair.                                              *)
LEMMA NeverProtocol ==
    ASSUME Inv, Calling PROVE Answer(hub, Pending) \in {"ok", "recover"}
<1>1. CASE pc = "abandon"
  BY <1>1, PendingFields DEF Inv, Answer
<1>2. CASE pc # "abandon"
  <2>1. Pending.kind # "abandon"
    BY <1>2, PendingFields DEF Inv, Calling
  <2>2. ~(Pending.kind # "stage" /\ Fenced(hub, Pending) /\ Conflicts(hub, Pending))
    BY <1>2, NoConflict, PendingFields DEF Inv, Conflicts
  <2>3. ~(Pending.kind = "event" /\ Fits(hub, Pending)
          /\ ~hub.tables[Pending.generation].present)
    <3> SUFFICES ASSUME Pending.kind = "event", Fits(hub, Pending)
                 PROVE  hub.tables[Pending.generation].present
      OBVIOUS
    <3>1. EventFits(hub, Pending)
      BY DEF Fits
    <3>2. hub.generation = Pending.generation /\ hub.status = "complete"
      BY <3>1 DEF EventFits, Continues
    <3> QED
      BY <3>2 DEF Inv, ExportInv, ExportAt, HubInv, StatusAgrees, LiveIsExact
  <2> QED
    BY <2>1, <2>2, <2>3 DEF Answer, WriteAnswer
<1> QED
  BY <1>1, <1>2

(* What the hub is, once it has said so.                                   *)
LEMMA AnsweredOk ==
    ASSUME Inv, Calling, Answer(hub, Pending) = "ok", pc \in {"commit", "publish"},
           NEW h, h = Seen(Applied(hub, Pending))
    PROVE  /\ h.source = Pending.at
           /\ h.generation = mirror.generation
           /\ pc = "commit" => h.staging = None
<1> DEFINE op == Pending
           k == Applied(hub, op)
<1>1. /\ op \in Operation /\ op.kind \in {"event", "recover"} /\ op.generation = mirror.generation
      /\ pc = "commit" => op.kind = "recover"
      /\ pc = "publish" => op.kind = "event" /\ op.at = mirror.highwater + 1
      /\ op.epoch = mirror.epoch
  BY PendingFields DEF Inv
<1>2. Moves(hub, op, k, follower) /\ hub \in Hub /\ HubInv(hub, follower)
  BY AppliedMoves, PendingSound, <1>1 DEF Inv, Typed, ExportInv, ExportAt
<1>3. k \in Hub
  BY <1>2 DEF Moves
<1>4. h.source = k.source /\ h.generation = k.generation /\ h.staging = k.staging
  BY <1>3, KeptFields, SeenIsKept DEF SameRest
<1>5. Fenced(hub, op)
  BY <1>1 DEF Answer, WriteAnswer
<1>6. CASE Repeated(hub, op)
  <2>1. hub.last = op
    BY <1>5, <1>6, NoConflict
  <2>2. k = hub
    BY <1>1, <1>6 DEF Applied
  <2>3. /\ hub.generation = op.generation /\ hub.source = op.at
        /\ op.kind = "recover" => hub.staging = None
    BY <1>1, <1>2, <2>1 DEF HubInv, LastAgrees
  <2> QED
    BY <1>1, <1>4, <2>2, <2>3
<1>7. CASE ~Repeated(hub, op) /\ Fits(hub, op)
  <2>1. k = Effect(hub, op)
    BY <1>1, <1>7 DEF Applied
  <2>2. CASE op.kind = "event"
    <3>1. k = WithEvent(hub, op) /\ EventFits(hub, op)
      BY <1>7, <2>1, <2>2 DEF Effect, Fits
    <3>2. hub.generation = op.generation /\ op.generation \in Generations
      BY <1>2, <3>1, HubTyped DEF EventFits, Continues, HubInv, StatusAgrees
    <3>3. LET w == WithEvent(hub, op) IN w.generation = hub.generation /\ w.source = op.at
      BY <1>1, <1>2, <3>2, EventFields
    <3> QED
      BY <1>1, <1>4, <2>2, <3>1, <3>2, <3>3
  <2>3. CASE op.kind = "recover"
    <3>1. k = WithRecover(hub, op)
      BY <2>1, <2>3 DEF Effect
    <3>2. op.generation \in Generations
      BY <1>1, <2>3, PendingSound DEF Inv, Sound, Operation
    <3>3. LET w == WithRecover(hub, op) IN
          w.generation = op.generation /\ w.source = op.at /\ w.staging = None
      BY <1>1, <1>2, <3>2, RecoverFields
    <3> QED
      BY <1>1, <1>4, <3>1, <3>3
  <2> QED
    BY <1>1, <2>2, <2>3
<1>8. CASE ~Repeated(hub, op) /\ ~Fits(hub, op)
  <2>1. op.kind = "event" /\ Stale(hub, op) /\ Continues(hub, op)
    BY <1>1, <1>5, <1>8 DEF Answer, WriteAnswer
  <2>2. k = hub
    BY <1>1, <1>8 DEF Applied
  <2>3. pc = "publish" /\ hub.epoch = mirror.epoch
    BY <1>1, <1>5, <2>1 DEF Fenced, Calling
  <2>4. hub.source \in {mirror.highwater, Position} /\ Position = mirror.highwater + 1
    BY <2>3 DEF Inv, ExportInv, ExportAt, StepInv, Serving, Publishing, Position
  <2>5. hub.source = op.at
    BY <1>1, <2>1, <2>3, <2>4 DEF Stale, Inv, Typed, MirrorType
  <2> QED
    BY <1>1, <1>4, <2>1, <2>2, <2>3, <2>5 DEF Continues
<1> QED
  BY <1>6, <1>7, <1>8

(* The exporter takes the step after the answer "ok".                      *)
LEMMA ProceededKeeps ==
    ASSUME Inv, Calling, Answer(hub, Pending) = "ok", NEW h \in Hub, ExportAt(h), hub' = h,
           h = Seen(Applied(hub, Pending)), Proceeded,
           UNCHANGED <<facts, process, stopping, late, follower, faults>>
    PROVE  Inv'
<1>1. mirror \in MirrorType /\ reader \in ReaderType
  BY DEF Inv, Typed
<1>2. mirror.generation # None
  BY CallingUnderway DEF Inv, ExportInv, ExportAt, OwnInv
<1>3. CASE /\ pc \in {"abandon", "incomplete"}
           /\ pc' = IF pc = "abandon" THEN "incomplete" ELSE "snapshot"
           /\ UNCHANGED <<final, mirror, reader>>
  <2>1. Onward /\ pc' \notin {"stage", "commit"}
    BY <1>3 DEF Onward
  <2>2. FinalInv'
    BY <1>3 DEF Inv, ExportInv, ExportAt, FinalInv
  <2> QED
    BY <1>1, <1>3, <2>1, <2>2, OnwardKeeps DEF Inv
<1>4. CASE pc = "stage" /\ pc' = "commit" /\ UNCHANGED <<final, mirror, reader>>
  <2>1. Onward
    BY <1>4 DEF Onward
  <2>2. FinalInv'
    BY <1>4 DEF Inv, ExportInv, ExportAt, FinalInv
  <2>3. mirror'.projection = Structure(mirror'.highwater)
    BY <1>4 DEF Inv, ExportInv, ExportAt, StepInv
  <2> QED
    BY <1>1, <1>4, <2>1, <2>2, <2>3, OnwardKeeps DEF Inv
<1>5. CASE /\ pc = "commit" /\ pc' = IF final THEN "done" ELSE "serve"
           /\ mirror' = [mirror EXCEPT !.reason = "", !.old = None, !.oldStaging = None]
           /\ UNCHANGED <<final, reader>>
  <2>1. /\ mirror' \in MirrorType /\ mirror'.highwater = mirror.highwater
        /\ mirror'.epoch = mirror.epoch /\ mirror'.generation = mirror.generation
    BY <1>1, <1>5 DEF MirrorType, Reasons
  <2>2. Onward
    BY <1>5, <2>1 DEF Onward
  <2>3. FinalInv'
    BY <1>5, <2>1 DEF Inv, ExportInv, ExportAt, FinalInv
  <2>4. /\ h.staging # mirror.generation /\ h.generation = mirror.generation
        /\ h.source = mirror'.highwater
    BY <1>2, <1>5, <2>1, AnsweredOk, PendingFields DEF Inv
  <2> QED
    BY <1>1, <1>5, <2>1, <2>2, <2>3, <2>4, OnwardKeeps DEF Inv
<1>6. CASE Restarted("source_gap")
  BY <1>6, FallKeeps DEF Inv, Restarted, Reasons
<1>7. CASE /\ pc = "publish" /\ pc' = "serve"
           /\ mirror' = [mirror EXCEPT !.highwater = @ + 1,
                            !.projection = @ \cup ({mirror.highwater + 1} \ Parts)]
           /\ UNCHANGED <<final, reader>>
  <2>1. /\ mirror' \in MirrorType /\ mirror'.highwater = mirror.highwater + 1
        /\ mirror'.epoch = mirror.epoch /\ mirror'.generation = mirror.generation
    <3> DEFINE next == mirror.highwater + 1
               entities == mirror.projection \cup ({next} \ Parts)
    <3>1. next \in Nat /\ entities \in SUBSET Nat
      BY <1>1 DEF MirrorType
    <3>2. mirror' = [mirror EXCEPT !.highwater = next, !.projection = entities]
      BY <1>1, <1>7 DEF MirrorType
    <3> HIDE DEF next, entities
    <3>3. /\ mirror' \in MirrorType /\ mirror'.highwater = next
          /\ mirror'.epoch = mirror.epoch /\ mirror'.generation = mirror.generation
      BY <1>1, <3>1, <3>2 DEF MirrorType
    <3> QED
      BY <3>3 DEF next
  <2>2. Onward
    BY <1>7, <2>1 DEF Onward
  <2>3. FinalInv'
    BY <1>7 DEF Inv, ExportInv, ExportAt, FinalInv
  <2>4. h.generation = mirror.generation /\ h.source = mirror'.highwater
    BY <1>7, <2>1, AnsweredOk, PendingFields DEF Inv
  <2> QED
    BY <1>1, <1>7, <2>1, <2>2, <2>3, <2>4, OnwardKeeps DEF Inv
<1> QED
  BY <1>3, <1>4, <1>5, <1>6, <1>7 DEF Proceeded

(* A call is answered.                                                     *)
LEMMA AnsweredKeeps == ASSUME Inv, Answered PROVE Inv'
<1>1. Calling /\ hub' = Seen(Applied(hub, Pending)) /\ Handled(Answer(hub, Pending))
  BY DEF Answered
<1>2. PICK h : h = Seen(Applied(hub, Pending))
  OBVIOUS
<1>3. Moves(hub, Pending, h, follower)
  BY <1>1, <1>2, CalledHub
<1>4. h \in Hub /\ ExportAt(h) /\ hub' = h
  BY <1>1, <1>2, <1>3, CallKeeps DEF Inv, Moves
<1>5. CASE Answer(hub, Pending) = "ok"
  <2>1. Proceeded
    BY <1>1, <1>5 DEF Handled
  <2> QED
    BY <1>1, <1>2, <1>4, <1>5, <2>1, ProceededKeeps DEF Answered
<1>6. CASE Answer(hub, Pending) = "recover"
  <2>1. Restarted("source_gap")
    BY <1>1, <1>6 DEF Handled
  <2> QED
    BY <1>4, <2>1, FallKeeps DEF Answered, Inv, Restarted, Reasons
<1> QED
  BY <1>1, <1>5, <1>6, NeverProtocol

(* The exporter waits, or starts over.                                     *)
LEMMA UnavailableKeeps ==
    ASSUME Inv, NEW h \in Hub, ExportAt(h), hub' = h, late' = late, Unavailable,
           facts' = facts, process' = process, stopping' = stopping, follower' = follower
    PROVE  Inv'
<1>1. CASE Restarted("source_gap")
  BY <1>1, FallKeeps DEF Inv, Restarted, Reasons
<1>2. CASE UNCHANGED exporter
  <2>1. Typed'
    BY <1>2 DEF Inv, Typed, SlotInv, exporter
  <2>2. /\ Position' = Position /\ Call("event")' = Call("event")
        /\ IncompleteCall' = IncompleteCall /\ RecoverCall' = RecoverCall
    BY <1>2 DEF Position, IncompleteCall, RecoverCall, Call, exporter
  <2>3. ASSUME NEW op, Own(op) PROVE Own(op)'
    BY <1>2, <2>2, <2>3 DEF Own, OwnEvent, exporter
  <2>4. LateInv(hub)'
    BY <1>2 DEF ExportAt, LateInv, exporter
  <2>5. OwnInv(hub)'
    BY <1>2, <2>3 DEF ExportAt, OwnInv, exporter
  <2>6. StepInv(hub)'
    BY <1>2, <2>2 DEF ExportAt, StepInv, exporter
  <2>7. FinalInv' /\ HubInv(hub, follower)'
    BY <1>2 DEF ExportAt, FinalInv, exporter
  <2> QED
    BY <2>1, <2>4, <2>5, <2>6, <2>7 DEF Inv, ExportInv, ExportAt
<1> QED
  BY <1>1, <1>2 DEF Unavailable

(* The answer is lost.                                                     *)
LEMMA AnswerLostKeeps == ASSUME Inv, AnswerLost PROVE Inv'
<1>1. PICK h \in {hub, Seen(Applied(hub, Pending))} : h = hub'
  BY DEF AnswerLost
<1>2. Calling /\ Moves(hub, Pending, h, follower)
  BY CalledHub DEF AnswerLost
<1>3. h \in Hub /\ ExportAt(h)
  BY <1>2, CallKeeps DEF Inv, Moves
<1> QED
  BY <1>1, <1>3, UnavailableKeeps DEF AnswerLost

(* The lease ends after the write.                                         *)
LEMMA AppliedWithoutRenewalKeeps == ASSUME Inv, AppliedWithoutRenewal PROVE Inv'
<1> DEFINE k == Seen(Applied(hub, Pending))
<1>1. PICK h : h = [k EXCEPT !.lease = None]
  OBVIOUS
<1>2. Calling /\ Moves(hub, Pending, k, follower)
  BY CalledHub DEF AppliedWithoutRenewal, Calling
<1>3. Moves(hub, Pending, h, follower)
  BY <1>1, <1>2, UnleasedMoves
<1>4. h \in Hub /\ ExportAt(h) /\ hub' = h
  BY <1>1, <1>2, <1>3, CallKeeps DEF Inv, Moves, AppliedWithoutRenewal
<1> QED
  BY <1>4, FallKeeps DEF AppliedWithoutRenewal, Inv, Restarted, Reasons

(***************************************************************************)
(* Requests that are late.                                                 *)
(***************************************************************************)

(* There is room for one request on its way.                               *)
LEMMA Room ==
    ASSUME MaxLate <= 1, SlotInv, Cardinality(late) < MaxLate PROVE late = {}
<1>1. ASSUME NEW op, late = {op} PROVE FALSE
  <2>1. Cardinality({op}) = 1
    BY FS_Singleton
  <2> QED
    BY <1>1, <2>1, BoundsAssumption
<1> QED
  BY <1>1 DEF SlotInv

(* The request is late, and the exporter waits or starts over.             *)
LEMMA DelayedKeeps == ASSUME MaxLate <= 1, Inv, Delayed PROVE Inv'
<1>1. Calling /\ late = {} /\ late' = {Pending} /\ hub' = hub
  BY Room DEF Delayed, Inv, Typed
<1>2. Pending \in Operation /\ Sound(hub, Pending)
  BY <1>1, PendingFields, PendingSound DEF Inv
<1>3. Pending.kind # "none"
  BY <1>1, PendingFields DEF Inv, Calling
<1>4. CASE Restarted("source_gap")
  <2>1. mirror' \in MirrorType /\ mirror'.epoch = 0 /\ reader' \in ReaderType
    BY <1>4, NoMirrorTyped DEF Restarted, Recovering, NoReader, ReaderType, Reasons
  <2>2. SlotInv'
    BY <1>1, <1>2 DEF SlotInv
  <2>3. Typed'
    BY <1>1, <1>4, <2>1, <2>2 DEF Delayed, Restarted, Recovering, Inv, Typed, Steps
  <2>4. hub'.epoch \in Nat
    BY <2>3, HubTyped DEF Typed
  <2>5. \A op \in late' : op.kind # "none" /\ Sound(hub', op)
    BY <1>1, <1>2, <1>3
  <2>6. ExportInv'
    BY <1>1, <1>4, <2>1, <2>4, <2>5, IdleKeeps
    DEF Delayed, Restarted, Recovering, Inv, ExportInv, ExportAt, StepInv, Idle
  <2> QED
    BY <2>3, <2>6 DEF Inv
<1>5. CASE pc # "abandon" /\ UNCHANGED exporter
  <2>1. SlotInv'
    BY <1>1, <1>2 DEF SlotInv
  <2>2. Typed'
    BY <1>1, <1>5, <2>1 DEF Delayed, Inv, Typed, exporter
  <2>3. /\ Position' = Position /\ Call("event")' = Call("event")
        /\ IncompleteCall' = IncompleteCall /\ RecoverCall' = RecoverCall
    BY <1>5 DEF Position, IncompleteCall, RecoverCall, Call, exporter, Delayed
  <2>4. ASSUME NEW op, Own(op) PROVE Own(op)'
    BY <1>5, <2>3, <2>4 DEF Own, OwnEvent, exporter
  <2>5. LateInv(hub)'
    <3>1. Pending.kind = "recover" => pc = "commit"
      BY <1>1, PendingFields DEF Inv, Calling
    <3>2. Pending.generation = mirror.generation
      BY <1>1, <1>5, PendingFields DEF Inv
    <3>3. pc = "commit" => pc \notin Serving
      BY DEF Serving, Publishing
    <3> QED
      BY <1>1, <1>2, <1>3, <1>5, <3>1, <3>2, <3>3 DEF LateInv, exporter
  <2>6. OwnInv(hub)'
    <3>1. Own(Pending)
      BY <1>1, PendingOwn DEF Inv
    <3>2. pc \in Underway
      BY <1>1, CallingUnderway
    <3>3. \A op \in late' \cup {hub.last} : op.generation = mirror.generation => Own(op)
      BY <1>1, <3>1, <3>2 DEF Inv, ExportInv, ExportAt, OwnInv
    <3>4. \A op \in late' \cup {hub.last} : op.generation = mirror.generation => Own(op)'
      BY <2>4, <3>3
    <3> QED
      BY <1>1, <1>5, <3>2, <3>4 DEF Inv, ExportInv, ExportAt, OwnInv, exporter
  <2>7. StepInv(hub)'
    BY <1>1, <1>5, <2>3 DEF Delayed, Inv, ExportInv, ExportAt, StepInv, exporter
  <2>8. FinalInv' /\ HubInv(hub, follower)'
    BY <1>1, <1>5 DEF Delayed, Inv, ExportInv, ExportAt, FinalInv, exporter
  <2> QED
    BY <2>2, <2>5, <2>6, <2>7, <2>8 DEF Inv, ExportInv, ExportAt
<1> QED
  BY <1>4, <1>5 DEF Delayed, Unavailable

(* It arrives; then nothing else is on its way.                            *)
LEMMA DeliverKeeps == ASSUME Inv, NEW op \in late, Deliver(op) PROVE Inv'
<1>1. late = {op} /\ op \in Operation
  BY DEF Inv, Typed, SlotInv
<1>2. late' = {} /\ UNCHANGED <<facts, process, stopping, exporter, follower, faults>>
  BY <1>1 DEF Deliver
<1>3. PICK h : h = hub'
  OBVIOUS
<1>4. Moves(hub, op, h, follower)
  BY <1>1, <1>3, SeenMoves DEF Deliver, Inv, Typed, ExportInv, ExportAt, LateInv
<1>5. h \in Hub /\ HubInv(h, follower) /\ OwnInv(h) /\ StepInv(h)
  BY <1>4, LateKeeps DEF Inv, Moves
<1>6. Typed'
  BY <1>2, <1>3, <1>5 DEF Inv, Typed, SlotInv, exporter
<1>7. /\ Position' = Position /\ Call("event")' = Call("event")
      /\ IncompleteCall' = IncompleteCall /\ RecoverCall' = RecoverCall
  BY <1>2 DEF Position, IncompleteCall, RecoverCall, Call, exporter
<1>8. ASSUME NEW o, Own(o) PROVE Own(o)'
  BY <1>2, <1>7, <1>8 DEF Own, OwnEvent, exporter
<1>9. LateInv(hub)'
  BY <1>2 DEF LateInv
<1>10. OwnInv(hub)'
  BY <1>2, <1>3, <1>5, <1>8 DEF OwnInv, exporter
<1>11. StepInv(hub)'
  BY <1>2, <1>3, <1>5, <1>7 DEF StepInv, exporter
<1>12. FinalInv' /\ HubInv(hub, follower)'
  BY <1>2, <1>3, <1>5 DEF Inv, ExportInv, ExportAt, FinalInv, exporter
<1> QED
  BY <1>6, <1>9, <1>10, <1>11, <1>12 DEF Inv, ExportInv, ExportAt

(***************************************************************************)
(* What the hub loses.                                                     *)
(***************************************************************************)

(* A staged table expires.                                                 *)
LEMMA ExpireStagingKeeps ==
    ASSUME Inv, NEW g \in Generations, ExpireStaging(g) PROVE Inv'
<1>1. /\ hub.tables[g].expiring /\ hub' = [hub EXCEPT !.tables[g] = NoTable]
      /\ UNCHANGED <<facts, process, stopping, late, exporter, follower>>
  BY DEF ExpireStaging
<1>2. hub \in Hub /\ HubInv(hub, follower)
  BY DEF Inv, Typed, ExportInv, ExportAt
<1>3. /\ hub' \in Hub /\ HubInv(hub', follower)
      /\ Stays(hub, hub') /\ hub'.last = hub.last /\ hub'.epoch = hub.epoch
  BY <1>1, <1>2, ExpiredKeeps
<1>4. Typed'
  BY <1>1, <1>3 DEF Inv, Typed, SlotInv, exporter
<1>5. FinalInv'
  BY <1>1 DEF Inv, ExportInv, ExportAt, FinalInv, exporter
<1>6. ExportInv'
  BY <1>1, <1>3, <1>5, AsideKeeps DEF Inv, ExportInv, ExportAt, StepInv, exporter
<1> QED
  BY <1>4, <1>6 DEF Inv

(* The backend loses its data: the new epoch is not that of any row or     *)
(* generation.                                                             *)
LEMMA ResetKeeps == ASSUME Inv, Reset PROVE Inv'
<1> DEFINE e == hub.epoch + 1
           k == EmptyHub(e)
<1>1. hub.epoch \in Nat /\ follower.epoch <= hub.epoch /\ mirror.epoch <= hub.epoch
      /\ follower.epoch \in Nat /\ mirror.epoch \in Nat
  BY HubTyped DEF Inv, Typed, ExportInv, ExportAt, StepInv, MirrorType, FollowerType
<1>2. e \in Nat /\ follower.epoch < e /\ mirror.epoch < e
  BY <1>1
<1> HIDE DEF e
<1>3. /\ k \in Hub /\ HubInv(k, follower) /\ k.epoch = e
      /\ k.staging = None /\ k.generation = None /\ k.last.kind = "none"
      /\ k.last.generation = None
  BY <1>1, <1>2, EmptyFields
<1>4. hub' = Seen(k) /\ UNCHANGED <<facts, process, stopping, late, exporter, follower>>
  BY DEF Reset, e
<1> HIDE DEF k
<1>5. PICK h : h = Kept(k, follower)
  OBVIOUS
<1>6. h \in Hub /\ HubInv(h, follower) /\ SameRest(h, k) /\ hub' = h
  BY <1>3, <1>4, <1>5, KeptFields, KeptKeeps, SeenIsKept
<1>7. /\ h.epoch = e /\ h.staging = None /\ h.generation = None
      /\ h.last.generation = None
  BY <1>3, <1>6 DEF SameRest
<1>8. Typed'
  BY <1>4, <1>6 DEF Inv, Typed, SlotInv, exporter
<1>9. ASSUME NEW op \in late PROVE Sound(h, op)
  BY <1>7 DEF Inv, ExportInv, ExportAt, LateInv, Sound
<1>10. LateInv(hub)'
  <2> SUFFICES ASSUME NEW op \in late
               PROVE  /\ op.kind # "none" /\ Sound(h, op)
                      /\ pc \in Underway /\ op.kind = "recover" =>
                            IF op.generation = mirror.generation
                            THEN pc \in Serving => h.staging # op.generation
                            ELSE op.old # mirror.generation
    BY <1>4, <1>6 DEF LateInv, exporter
  <2>1. /\ op.kind # "none" /\ (op.kind = "recover" => op.generation # None)
        /\ pc \in Underway /\ op.kind = "recover" =>
              IF op.generation = mirror.generation
              THEN pc \in Serving => hub.staging # op.generation
              ELSE op.old # mirror.generation
    BY DEF Inv, ExportInv, ExportAt, LateInv, Sound
  <2> QED
    BY <1>7, <1>9, <2>1
<1>11. OwnInv(hub)'
  <2>1. /\ Position' = Position /\ Call("event")' = Call("event")
        /\ IncompleteCall' = IncompleteCall /\ RecoverCall' = RecoverCall
    BY <1>4 DEF Position, IncompleteCall, RecoverCall, Call, exporter
  <2>2. ASSUME NEW op, Own(op) PROVE Own(op)'
    BY <1>4, <2>1, <2>2 DEF Own, OwnEvent, exporter
  <2>3. pc \in Underway =>
            /\ mirror.generation # None
            /\ \A op \in late \cup {h.last} : op.generation = mirror.generation => Own(op)
    BY <1>7 DEF Inv, ExportInv, ExportAt, OwnInv
  <2> QED
    BY <1>4, <1>6, <2>2, <2>3 DEF OwnInv, exporter
<1>12. StepInv(hub)'
  <2>1. pc \in Underway => mirror.generation # None
    BY DEF Inv, ExportInv, ExportAt, OwnInv
  <2>2. pc \in Before \cup {"commit"} => h.generation # mirror.generation
    BY <1>7, <2>1 DEF Underway
  <2>3. h.epoch # mirror.epoch /\ mirror.epoch <= h.epoch /\ follower.epoch <= h.epoch
    BY <1>1, <1>2, <1>7
  <2> QED
    BY <1>4, <1>6, <2>2, <2>3 DEF Inv, ExportInv, ExportAt, StepInv, exporter
<1>13. FinalInv' /\ HubInv(hub, follower)'
  BY <1>4, <1>6 DEF Inv, ExportInv, ExportAt, FinalInv, exporter
<1> QED
  BY <1>8, <1>10, <1>11, <1>12, <1>13 DEF Inv, ExportInv, ExportAt

(***************************************************************************)
(* The follower.                                                           *)
(***************************************************************************)

(* The rest is as it was.                                                  *)
LEMMA FollowsKeeps ==
    ASSUME Inv, NEW h, hub' = h, h \in Hub, SameHub(h, hub), NEW x, follower' = x,
           HubInv(h, x), x \in FollowerType, x.epoch <= hub.epoch,
           UNCHANGED <<facts, process, stopping, late, exporter>>
    PROVE  Inv'
<1>1. Typed'
  BY DEF Inv, Typed, SlotInv, exporter
<1>2. FinalInv'
  BY DEF Inv, ExportInv, ExportAt, FinalInv, exporter
<1>3. ExportInv'
  BY <1>2, AsideKeeps DEF Inv, SameHub, Stays, exporter
<1> QED
  BY <1>1, <1>3 DEF Inv

(* The follower captures the row.                                          *)
LEMMA AttachKeeps == ASSUME Inv, Attach PROVE Inv'
<1>1. PICK h : h = Forgotten(hub)
  OBVIOUS
<1>2. PICK x : x = [phase |-> "captured", epoch |-> hub.epoch, token |-> hub.token,
                    generation |-> hub.generation,
                    complete |-> hub.status = "complete", view |-> {}]
  OBVIOUS
<1>3. hub \in Hub /\ HubInv(hub, follower)
  BY DEF Inv, Typed, ExportInv, ExportAt
<1>4. /\ x.phase = "captured" /\ x.epoch = hub.epoch /\ x.generation = hub.generation
      /\ x.complete => hub.status = "complete"
  BY <1>2
<1>5. h \in Hub /\ SameHub(h, hub)
  BY <1>1, <1>3, ForgottenFields
<1>6. HubInv(h, x)
  BY <1>1, <1>3, <1>4, ForgottenKeeps
<1>7. x \in FollowerType /\ hub.epoch \in Nat
  <2>1. hub.epoch \in Nat /\ hub.token \in Nat /\ hub.generation \in Generations \cup {None}
    BY <1>3 DEF Hub
  <2> QED
    BY <1>2, <2>1 DEF FollowerType
<1>8. hub' = h /\ follower' = x
  BY <1>1, <1>2 DEF Attach
<1> QED
  BY <1>4, <1>5, <1>6, <1>7, <1>8, FollowsKeeps DEF Attach

(* It lets go of it.                                                       *)
LEMMA DetachedKeeps ==
    ASSUME Inv, Detached, UNCHANGED <<facts, process, stopping, late, exporter>> PROVE Inv'
<1>1. PICK h : h = Forgotten(hub)
  OBVIOUS
<1>2. PICK x : x = NoFollower
  OBVIOUS
<1>3. hub \in Hub /\ HubInv(hub, follower)
  BY DEF Inv, Typed, ExportInv, ExportAt
<1>4. x.phase = "out" /\ x.epoch = 0
  BY <1>2 DEF NoFollower
<1>5. h \in Hub /\ SameHub(h, hub) /\ HubInv(h, x)
  BY <1>1, <1>3, <1>4, ForgottenFields, ForgottenKeeps
<1>6. x \in FollowerType /\ x.epoch <= hub.epoch
  BY <1>2, <1>3, <1>4, HubTyped DEF NoFollower, FollowerType, None
<1>7. hub' = h /\ follower' = x
  BY <1>1, <1>2 DEF Detached
<1> QED
  BY <1>5, <1>6, <1>7, FollowsKeeps

(* A hub is the same as itself.                                            *)
LEMMA SameHubItself == \A h : SameHub(h, h)
  BY DEF SameHub

(* It reads the live table.                                                *)
LEMMA ReadTableKeeps == ASSUME Inv, ReadTable PROVE Inv'
<1> DEFINE live == follower.generation
<1>1. CASE Detached
  BY <1>1, DetachedKeeps DEF ReadTable
<1>2. CASE /\ live = None \/ hub.tables[live].present
           /\ follower' = [follower EXCEPT
                  !.phase = "read",
                  !.complete = @ /\ hub.lease \in {None, follower.token},
                  !.view = IF live = None THEN {} ELSE hub.tables[live].entities]
           /\ UNCHANGED hub
  <2> DEFINE view == IF live = None THEN {} ELSE hub.tables[live].entities
             complete == follower.complete /\ hub.lease \in {None, follower.token}
  <2>1. hub \in Hub /\ HubInv(hub, follower) /\ follower \in FollowerType
    BY DEF Inv, Typed, ExportInv, ExportAt
  <2>2. hub.tables \in [Generations -> Table] /\ hub.epoch \in Nat
    BY <2>1, HubTyped
  <2>3. live \in Generations \cup {None}
    BY <2>1 DEF FollowerType
  <2>4. live # None => hub.tables[live] \in Table
    BY <2>2, <2>3
  <2>5. view \in SUBSET Nat /\ complete \in BOOLEAN
    BY <2>4 DEF Table
  <2>6. PICK x : x = [follower EXCEPT !.phase = "read", !.complete = complete, !.view = view]
    OBVIOUS
  <2>7. follower' = x
    BY <1>2, <2>1, <2>6 DEF FollowerType
  <2>8. complete => follower.complete
    OBVIOUS
  <2>9. live # None => view = hub.tables[live].entities
    OBVIOUS
  <2> HIDE DEF view, complete
  <2>10. /\ x \in FollowerType /\ x.phase = "read" /\ x.epoch = follower.epoch
         /\ x.generation = live /\ x.complete = complete /\ x.view = view
    BY <2>1, <2>5, <2>6 DEF FollowerType
  <2>11. follower.phase = "captured"
    BY DEF ReadTable
  <2>12. HubInv(hub, x)
    BY <2>1, <2>8, <2>9, <2>10, <2>11, ReadKeeps
  <2>13. x.epoch <= hub.epoch
    BY <2>10 DEF Inv, ExportInv, ExportAt, StepInv
  <2> QED
    BY <1>2, <2>1, <2>7, <2>10, <2>12, <2>13, FollowsKeeps, SameHubItself DEF ReadTable
<1> QED
  BY <1>1, <1>2 DEF ReadTable

(* It reads the row again.                                                 *)
LEMMA CheckRowKeeps == ASSUME Inv, CheckRow PROVE Inv'
<1>1. CASE Detached
  BY <1>1, DetachedKeeps DEF CheckRow
<1>2. CASE SameRow /\ follower' = [follower EXCEPT !.phase = "following"] /\ UNCHANGED hub
  <2>1. hub \in Hub /\ HubInv(hub, follower) /\ follower \in FollowerType
    BY DEF Inv, Typed, ExportInv, ExportAt
  <2>2. PICK x : x = [follower EXCEPT !.phase = "following"]
    OBVIOUS
  <2>3. /\ x \in FollowerType /\ x.phase = "following" /\ x.epoch = follower.epoch
        /\ x.generation = follower.generation /\ x.complete = follower.complete
        /\ x.view = follower.view
    BY <2>1, <2>2 DEF FollowerType
  <2>4. hub.epoch = follower.epoch /\ hub.revision = 0 /\ follower.phase = "read"
    BY <1>2 DEF CheckRow, SameRow
  <2>5. HubInv(hub, x)
    BY <2>1, <2>3, <2>4, CheckKeeps
  <2>6. x.epoch <= hub.epoch
    BY <2>3 DEF Inv, ExportInv, ExportAt, StepInv
  <2>7. follower' = x
    BY <1>2, <2>2
  <2> QED
    BY <1>2, <2>1, <2>3, <2>5, <2>6, <2>7, FollowsKeeps, SameHubItself DEF CheckRow
<1> QED
  BY <1>1, <1>2 DEF CheckRow

(* It reads an event.                                                      *)
LEMMA ReadEventStepKeeps == ASSUME Inv, ReadEvent PROVE Inv'
<1> DEFINE first == Head(hub.entries)
           view == follower.view \cup ({first.at} \ Parts)
<1>1. hub \in Hub /\ HubInv(hub, follower) /\ follower \in FollowerType
  BY DEF Inv, Typed, ExportInv, ExportAt
<1>2. /\ follower.phase = "following" /\ hub.epoch = follower.epoch
      /\ hub.entries # <<>> /\ first.kind = "event"
      /\ follower' = [follower EXCEPT !.view = @ \cup ({first.at} \ Parts)]
      /\ hub' = [hub EXCEPT !.entries = Tail(@)]
  BY DEF ReadEvent
<1>3. PICK h : h = [hub EXCEPT !.entries = Tail(hub.entries)]
  OBVIOUS
<1>4. PICK x : x = [follower EXCEPT !.view = view]
  OBVIOUS
<1>5. hub' = h /\ follower' = x
  BY <1>1, <1>2, <1>3, <1>4 DEF Hub, FollowerType
<1>6. h \in Hub /\ SameHub(h, hub)
  BY <1>1, <1>2, <1>3, TailFields
<1>7. first.at \in Nat
  <2>1. hub.entries \in Seq(EntryType)
    BY <1>1, HubTyped
  <2>2. first \in EntryType
    BY <1>2, <2>1
  <2> QED
    BY <2>2 DEF EntryType
<1>8. view \in SUBSET Nat
  BY <1>1, <1>7 DEF FollowerType
<1>9. /\ x \in FollowerType /\ x.phase = "following" /\ x.epoch = follower.epoch
      /\ x.generation = follower.generation /\ x.complete = follower.complete
      /\ x.view = follower.view \cup ({first.at} \ Parts)
  <2> HIDE DEF view
  <2>1. /\ x \in FollowerType /\ x.phase = follower.phase /\ x.epoch = follower.epoch
        /\ x.generation = follower.generation /\ x.complete = follower.complete
        /\ x.view = view
    BY <1>1, <1>4, <1>8 DEF FollowerType
  <2> QED
    BY <1>2, <2>1 DEF view
<1> HIDE DEF first
<1>10. HubInv(h, x)
  BY <1>1, <1>2, <1>3, <1>9, ReadEventKeeps DEF first
<1>11. x.epoch <= hub.epoch
  BY <1>9 DEF Inv, ExportInv, ExportAt, StepInv
<1> QED
  BY <1>5, <1>6, <1>9, <1>10, <1>11, FollowsKeeps DEF ReadEvent

(* It meets the entry of a recovery, or another epoch.                     *)
LEMMA DetachKeeps == ASSUME Inv, Detach PROVE Inv'
  BY DetachedKeeps DEF Detach

(***************************************************************************)
(* All steps.                                                              *)
(***************************************************************************)

(* The invariant holds at first.                                           *)
LEMMA InitInv == Init => Inv
<1> SUFFICES ASSUME Init PROVE Inv
  OBVIOUS
<1>1. /\ facts = 0 /\ process = 1 /\ hub = EmptyHub(0) /\ late = {} /\ pc = "off"
      /\ mirror = NoMirror /\ reader = NoReader /\ follower = NoFollower /\ final = FALSE
  BY DEF Init
<1>2. follower \in FollowerType /\ follower.phase = "out" /\ follower.epoch = 0
  BY <1>1 DEF NoFollower, FollowerType, None
<1>3. /\ hub \in Hub /\ HubInv(hub, follower) /\ hub.epoch = 0
  BY <1>1, <1>2, EmptyFields
<1>4. mirror \in MirrorType /\ mirror.epoch = 0
  BY <1>1, NoMirrorTyped DEF Reasons
<1>5. Typed
  BY <1>1, <1>2, <1>3, <1>4 DEF Typed, SlotInv, NoReader, ReaderType, Steps
<1>6. /\ pc \notin Underway /\ pc \notin Serving /\ pc \notin Before
      /\ pc \notin {"broken", "stage", "commit", "done"}
  BY <1>1 DEF Underway, Before, Serving, Publishing
<1>7. LateInv(hub)
  BY <1>1 DEF LateInv
<1>8. OwnInv(hub)
  BY <1>6 DEF OwnInv
<1>9. StepInv(hub)
  BY <1>2, <1>3, <1>4, <1>6 DEF StepInv
<1>10. FinalInv
  BY <1>1, <1>6 DEF FinalInv
<1> QED
  BY <1>3, <1>5, <1>7, <1>8, <1>9, <1>10 DEF Inv, ExportInv, ExportAt

(* It does not depend on anything else.                                    *)
LEMMA StutterKeeps == ASSUME Inv, UNCHANGED vars PROVE Inv'
<1>1. Typed'
  BY DEF Inv, Typed, SlotInv, vars, exporter
<1>2. FinalInv'
  BY DEF Inv, ExportInv, ExportAt, FinalInv, vars, exporter
<1>3. ExportInv'
  BY <1>2, AsideKeeps DEF Inv, ExportInv, ExportAt, StepInv, Stays, vars, exporter
<1> QED
  BY <1>1, <1>3 DEF Inv

(* The steps of the exporter that succeed.                                 *)
LEMMA ExporterKeeps == ASSUME Inv, ExporterStep PROVE Inv'
  BY InitializeKeeps, CaptureKeeps, SnapshotKeeps, AnsweredKeeps, ReceiveKeeps,
     PublishKeeps, ShutDownKeeps, FindsResetKeeps DEF ExporterStep

(* Every step keeps it.                                                    *)
LEMMA NextKeeps == ASSUME MaxLate <= 1, Inv, [Next]_vars PROVE Inv'
<1>1. CASE Emit \/ Overflow \/ Finish \/ Restart
  BY <1>1, EmitKeeps, OverflowKeeps, FinishKeeps, RestartKeeps
<1>2. CASE Register \/ Unregister \/ ExpireOfDead \/ ExpireOfLive
  BY <1>2, RegisterKeeps, ExpiresKeeps DEF Unregister, ExpireOfDead, ExpireOfLive
<1>3. CASE ExporterStep \/ StateUnavailable \/ SnapshotLimit
  BY <1>3, ExporterKeeps, StateUnavailableKeeps, SnapshotLimitKeeps
<1>4. CASE AnswerLost \/ Delayed \/ AppliedWithoutRenewal
  BY <1>4, AnswerLostKeeps, DelayedKeeps, AppliedWithoutRenewalKeeps
<1>5. CASE \E op \in late : Deliver(op)
  BY <1>5, DeliverKeeps
<1>6. CASE (\E g \in Generations : ExpireStaging(g)) \/ Reset
  BY <1>6, ExpireStagingKeeps, ResetKeeps
<1>7. CASE Attach \/ ReadTable \/ CheckRow \/ ReadEvent \/ Detach
  BY <1>7, AttachKeeps, ReadTableKeeps, CheckRowKeeps, ReadEventStepKeeps, DetachKeeps
<1>8. CASE UNCHANGED vars
  BY <1>8, StutterKeeps
<1> QED
  BY <1>1, <1>2, <1>3, <1>4, <1>5, <1>6, <1>7, <1>8 DEF Next

(* It holds in every reachable state.                                      *)
THEOREM ExportHolds == ASSUME MaxLate <= 1 PROVE Spec => []Inv
<1>1. Init => Inv
  BY InitInv
<1>2. Inv /\ [Next]_vars => Inv'
  BY NextKeeps
<1> QED
  BY <1>1, <1>2, PTL DEF Spec

(* What the hub shows as complete is the structure of the agent up to the  *)
(* position it names, and the live generation is never gone                *)
(* (event_scripts.py, WRITE), whatever is lost, repeated, late or reset.   *)
THEOREM ContentHolds == ASSUME MaxLate <= 1 PROVE Spec => []ContentIsExact
<1>1. Inv => ContentIsExact
  BY DEF Inv, ExportInv, ExportAt, HubInv, LiveIsExact, ContentIsExact
<1> QED
  BY <1>1, ExportHolds, PTL

(* An exporter that publishes knows the position of the hub, but for the   *)
(* event whose answer is outstanding (exporter.py, publish): no event is   *)
(* skipped and none is written twice.                                      *)
THEOREM StepHolds == ASSUME MaxLate <= 1 PROVE Spec => []HubKeepsStep
<1>1. Inv => HubKeepsStep
  BY DEF Inv, Typed, MirrorType, ExportInv, ExportAt, StepInv, HubKeepsStep, Position,
         Serving, Publishing
<1> QED
  BY <1>1, ExportHolds, PTL

(* An exporter that has returned in order has published all that execution *)
(* made durable, unless the hub says the agent is incomplete (exporter.py, *)
(* run and finish).                                                        *)
THEOREM FinalHolds == ASSUME MaxLate <= 1 PROVE Spec => []FinalIsComplete
<1>1. Inv => FinalIsComplete
  <2> SUFFICES ASSUME Inv, pc = "done", hub.epoch = mirror.epoch, hub.status = "complete"
               PROVE  hub.tables[hub.generation].entities = Structure(facts)
    BY DEF FinalIsComplete
  <2>1. mirror.highwater = facts /\ facts \in Nat
    BY DEF Inv, Typed, ExportInv, ExportAt, FinalInv
  <2>2. Position = mirror.highwater
    BY <2>1 DEF Position
  <2>3. hub.source = facts
    BY <2>1, <2>2 DEF Inv, ExportInv, ExportAt, StepInv, Serving
  <2>4. hub.generation # None
    BY DEF Inv, ExportInv, ExportAt, HubInv, StatusAgrees
  <2> QED
    BY <2>3, <2>4 DEF Inv, ExportInv, ExportAt, HubInv, LiveIsExact
<1> QED
  BY <1>1, ExportHolds, PTL

(* The exporter never meets an error that ends publication for good: a     *)
(* call that is repeated has the content it had, and the live generation   *)
(* is there (exporter.py, _retry).                                         *)
THEOREM NoRepairHolds == ASSUME MaxLate <= 1 PROVE Spec => []NeverNeedsRepair
<1>1. Inv => NeverNeedsRepair
  BY DEF Inv, ExportInv, ExportAt, StepInv, NeverNeedsRepair
<1> QED
  BY <1>1, ExportHolds, PTL

(* A follower of the hub has seen, or has yet to read, exactly what the    *)
(* live generation holds (teaming/subscriptions.py, capture): it attaches  *)
(* without a gap and sees nothing twice.                                   *)
THEOREM FollowerHolds == ASSUME MaxLate <= 1 PROVE Spec => []FollowerIsExact
<1>1. Inv => FollowerIsExact
  <2> SUFFICES ASSUME Inv, follower.phase = "following", hub.epoch = follower.epoch,
                      OnlyEvents
               PROVE  /\ hub.generation = follower.generation
                      /\ follower.complete => hub.status = "complete"
                      /\ hub.generation # None =>
                            /\ follower.view \cup Unread = hub.tables[hub.generation].entities
                            /\ follower.view \cap Unread = {}
    BY DEF FollowerIsExact
  <2>1. EventsOnly(hub) /\ EntriesOf(hub) = Unread
    BY DEF OnlyEvents, EventsOnly, EntriesOf, Unread
  <2> QED
    BY <2>1 DEF Inv, ExportInv, ExportAt, HubInv, RowIsFollowed, TableIsFollowed
<1> QED
  BY <1>1, ExportHolds, PTL


(***************************************************************************)
(* The outbox.  What the hub shows is the structure up to its source, so   *)
(* only the source, the status and the epoch have to be followed: nothing  *)
(* is said to be written that was not emitted, and a recovery that the hub *)
(* accepts brings no less than what it replaces.                           *)
(***************************************************************************)

Recovery == {"snapshot", "stage", "commit"}

(* How far the hub h and the exporter are.  Once the hub has been declared *)
(* incomplete for this recovery, only its own table completes it again,    *)
(* and it is read after everything that the hub has.                       *)
Reached(h) ==
    /\ h.source <= facts
    /\ h.generation = None => h.source = 0
    /\ h.last.kind = "incomplete" => h.status = "incomplete" /\ h.staging = h.last.generation
    /\ mirror.highwater <= facts /\ reader.acquired <= facts
    /\ pc = "publish" => mirror.highwater < reader.acquired
    /\ pc \in Recovery /\ h.epoch = mirror.epoch =>
          /\ h.status = "complete" => h.generation = mirror.generation
          /\ pc # "snapshot" /\ h.generation # mirror.generation => h.source <= mirror.highwater

(* A request that is late asks for nothing that was not emitted.  If it is *)
(* a recovery before the exporter's it is not the one that is staged; if   *)
(* it replaces the live generation it goes as far.                         *)
LateReached(h) ==
    \A op \in late :
        /\ op.kind \in {"event", "recover"} => op.at <= facts
        /\ op.kind = "recover" =>
              /\ op.epoch <= h.epoch
              /\ pc \in Recovery /\ h.epoch = mirror.epoch /\ op.generation # mirror.generation
                     => h.staging # op.generation
              /\ op.epoch = h.epoch /\ h.generation = op.old /\ op.old # op.generation
                     => h.source <= op.at

PosInv == Reached(hub) /\ LateReached(hub)

(* What an operation makes of the row, status included. *)
Shifts(h, op, k) ==
    /\ k.epoch = h.epoch
    /\ \/ Stays(h, k) /\ k.status = h.status /\ k.last = h.last
       \/ /\ op.kind = "incomplete" /\ k.generation = h.generation /\ k.source = h.source
          /\ k.staging = op.generation /\ k.status = "incomplete" /\ k.last = op
       \/ /\ op.kind = "event" /\ EventFits(h, op) /\ k.generation = h.generation
          /\ k.source = op.at /\ k.staging = h.staging /\ k.status = h.status /\ k.last = op
       \/ /\ op.kind = "recover" /\ RecoverFits(h, op) /\ h.epoch = op.epoch
          /\ k.generation = op.generation
          /\ k.source = op.at /\ k.staging = None /\ k.status = "complete" /\ k.last = op

(* Nothing is written under another epoch.                                 *)
LEMMA AppliedFenced ==
    ASSUME NEW h, NEW op, op.kind # "abandon" PROVE Applied(h, op) = h \/ h.epoch = op.epoch
  BY DEF Applied, Answer, WriteAnswer, Fenced

(* Every operation shifts the row in one of these ways.                    *)
LEMMA AppliedShifts ==
    ASSUME NEW h \in Hub, NEW f, NEW op \in Operation, HubInv(h, f), Sound(h, op)
    PROVE  Shifts(h, op, Applied(h, op))
<1> DEFINE k == Applied(h, op)
<1>1. CASE k = h
  BY <1>1 DEF Shifts, Stays
<1>2. CASE op.kind = "abandon" /\ h.generation # op.generation /\ k = WithAbandon(h, op)
  <2>1. /\ k.epoch = h.epoch /\ k.last = h.last /\ k.status = h.status
        /\ k.generation = h.generation /\ k.source = h.source /\ k.staging = h.staging
    BY <1>2, AbandonFields
  <2> HIDE DEF k
  <2> QED
    BY <2>1 DEF Shifts, Stays, k
<1>3. CASE op.kind = "event" /\ EventFits(h, op) /\ k = WithEvent(h, op)
  <2>1. op.generation \in Generations
    BY <1>3, HubTyped DEF HubInv, StatusAgrees, EventFits, Continues
  <2>2. /\ k.epoch = h.epoch /\ k.last = op /\ k.status = h.status
        /\ k.generation = h.generation /\ k.source = op.at /\ k.staging = h.staging
    <3>1. LET w == WithEvent(h, op) IN
          /\ w.epoch = h.epoch /\ w.last = op /\ w.status = h.status
          /\ w.generation = h.generation /\ w.source = op.at /\ w.staging = h.staging
      BY <2>1, EventFields
    <3> QED
      BY <1>3, <3>1
  <2> HIDE DEF k
  <2> QED
    BY <1>3, <2>2 DEF Shifts, k
<1>4. CASE op.kind = "incomplete" /\ k = WithIncomplete(h, op)
  <2>1. LET w == WithIncomplete(h, op) IN
        /\ w.epoch = h.epoch /\ w.last = op /\ w.status = "incomplete"
        /\ w.generation = h.generation /\ w.source = h.source /\ w.staging = op.generation
    BY IncompleteFields
  <2> QED
    BY <1>4, <2>1 DEF Shifts
<1>5. CASE op.kind = "stage" /\ StageFits(h, op) /\ k = WithStage(h, op)
  <2>1. LET w == WithStage(h, op) IN
        /\ w.epoch = h.epoch /\ w.last = h.last /\ w.status = h.status
        /\ w.generation = h.generation /\ w.source = h.source /\ w.staging = h.staging
    BY StageFields
  <2> QED
    BY <1>5, <2>1 DEF Shifts, Stays
<1>6. CASE op.kind = "recover" /\ RecoverFits(h, op) /\ k = WithRecover(h, op) /\ k # h
  <2>1. op.generation \in Generations
    BY <1>6 DEF Sound, Operation
  <2>2. LET w == WithRecover(h, op) IN
        /\ w.epoch = h.epoch /\ w.last = op /\ w.status = "complete"
        /\ w.generation = op.generation /\ w.source = op.at /\ w.staging = None
    BY <2>1, RecoverFields
  <2>3. h.epoch = op.epoch
    BY <1>6, AppliedFenced
  <2> QED
    BY <1>6, <2>2, <2>3 DEF Shifts
<1> QED
  BY <1>1, <1>2, <1>3, <1>4, <1>5, <1>6, AppliedCases

(* Neither what nobody reads nor the lease matters.                        *)
LEMMA ShiftsOn ==
    ASSUME NEW h, NEW op, NEW k, NEW m, Shifts(h, op, k), SameHub(m, k)
    PROVE  Shifts(h, op, m)
  BY DEF Shifts, SameHub, Stays

(* The same, for what the model keeps of the hub, with or without a lease. *)
LEMMA SeenShifts ==
    ASSUME NEW h \in Hub, NEW op \in Operation, HubInv(h, follower), Sound(h, op)
    PROVE  LET m == Seen(Applied(h, op)) IN
           Shifts(h, op, m) /\ Shifts(h, op, [m EXCEPT !.lease = None])
<1> DEFINE k == Applied(h, op)
           m == Kept(k, follower)
<1>1. Shifts(h, op, k) /\ k \in Hub
  BY AppliedShifts, AppliedMoves DEF Moves
<1> HIDE DEF k
<1>2. m \in Hub /\ SameHub(m, k)
  BY <1>1, KeptFields DEF SameHub, SameRest
<1>3. Shifts(h, op, m)
  BY <1>1, <1>2, ShiftsOn
<1> HIDE DEF m
<1>4. None \in Nat
  BY DEF None
<1>5. SameHub([m EXCEPT !.lease = None], m)
  BY <1>2, <1>4, UnleasedFields
<1>6. Shifts(h, op, [m EXCEPT !.lease = None])
  BY <1>3, <1>5, ShiftsOn
<1> QED
  BY <1>3, <1>6, SeenIsKept DEF m, k

(* The step of the exporter's call shifts the row, if it reaches the hub.  *)
LEMMA CalledShifts ==
    ASSUME Inv, Calling
    PROVE  LET h == Seen(Applied(hub, Pending)) IN
           /\ Shifts(hub, Pending, h) /\ Shifts(hub, Pending, [h EXCEPT !.lease = None])
           /\ Shifts(hub, Pending, hub)
<1>1. /\ Sound(hub, Pending) /\ Pending \in Operation /\ hub \in Hub /\ HubInv(hub, follower)
  BY PendingSound, PendingFields DEF Inv, Typed, ExportInv, ExportAt
<1>2. Shifts(hub, Pending, hub)
  BY DEF Shifts, Stays
<1> QED
  BY <1>1, <1>2, SeenShifts

(* A recovery that the hub accepts from its caller, or from a request that *)
(* is late, goes as far as what it replaces; nothing asks for more than    *)
(* was emitted.                                                            *)
Forward(op) ==
    /\ op.kind \in {"event", "recover"} => op.at \in Nat /\ op.at <= facts
    /\ op.kind = "recover" /\ RecoverFits(hub, op) /\ hub.epoch = op.epoch =>
           hub.source <= op.at

(* The exporter asks for it.                                               *)
LEMMA PendingForward == ASSUME Inv, Reached(hub), Calling PROVE Forward(Pending)
<1>1. /\ hub.source \in Nat /\ facts \in Nat
      /\ mirror.highwater \in Nat /\ reader.acquired \in Nat
  BY HubTyped DEF Inv, Typed, MirrorType, ReaderType
<1>2. /\ mirror.highwater <= facts /\ reader.acquired <= facts
      /\ pc = "publish" => mirror.highwater < reader.acquired
  BY DEF Reached
<1>3. CASE pc \in {"abandon", "incomplete", "stage"}
  BY <1>3, PendingFields DEF Inv, Forward
<1>4. CASE pc = "publish"
  <2>1. Pending.kind = "event" /\ Pending.at = mirror.highwater + 1
    BY <1>4, PendingFields DEF Inv
  <2> QED
    BY <1>1, <1>2, <1>4, <2>1 DEF Forward
<1>5. CASE pc = "commit"
  <2>1. /\ Pending.kind = "recover" /\ Pending.at = mirror.highwater
        /\ Pending.generation = mirror.generation /\ Pending.epoch = mirror.epoch
    BY <1>5, PendingFields DEF Inv
  <2>2. ASSUME RecoverFits(hub, Pending), hub.epoch = Pending.epoch
        PROVE  hub.source <= Pending.at
    <3>1. CASE hub.generation = mirror.generation
      <4>1. hub.source = Pending.at
        BY <2>1, <2>2, <3>1, PendingSound DEF Inv, RecoverFits, Sound
      <4> QED
        BY <1>1, <4>1
    <3>2. CASE hub.generation # mirror.generation
      BY <1>5, <2>1, <2>2, <3>2 DEF Reached, Recovery
    <3> QED
      BY <3>1, <3>2
  <2> QED
    BY <1>1, <1>2, <2>1, <2>2 DEF Forward
<1> QED
  BY <1>3, <1>4, <1>5 DEF Calling

(* A request that is late asked for it.                                    *)
LEMMA LateForward ==
    ASSUME Inv, Reached(hub), LateReached(hub), NEW op \in late PROVE Forward(op)
<1>1. /\ op \in Operation /\ op.at \in Nat /\ hub.source \in Nat
      /\ op.kind \in {"event", "recover"} => op.at <= facts
  BY HubTyped DEF Inv, Typed, SlotInv, Operation, LateReached
<1>2. ASSUME op.kind = "recover", RecoverFits(hub, op), hub.epoch = op.epoch
      PROVE  hub.source <= op.at
  <2>1. hub.generation \in {None, op.old} /\ hub.staging = op.generation
    BY <1>2 DEF RecoverFits
  <2>2. CASE hub.generation = op.generation
    <3>1. hub.source = op.at
      BY <1>2, <2>1, <2>2 DEF Inv, ExportInv, ExportAt, LateInv, Sound
    <3> QED
      BY <1>1, <3>1
  <2>3. CASE hub.generation = None
    BY <1>1, <2>3 DEF Reached
  <2>4. CASE hub.generation = op.old /\ op.old # op.generation
    BY <1>2, <2>4 DEF LateReached
  <2> QED
    BY <2>1, <2>2, <2>3, <2>4
<1> QED
  BY <1>1, <1>2 DEF Forward

(* Where the exporter is, its call leaves what was reached.                *)
LEMMA CallReaches ==
    ASSUME Inv, PosInv, Calling, NEW h, Shifts(hub, Pending, h)
    PROVE  Reached(h) /\ LateReached(h)
<1> DEFINE g == mirror.generation
<1>1. /\ hub.source \in Nat /\ facts \in Nat /\ mirror.highwater \in Nat
      /\ g # None /\ pc \in Underway
  BY HubTyped, CallingUnderway DEF Inv, Typed, MirrorType, ExportInv, ExportAt, OwnInv
<1>2. Reached(hub) /\ LateReached(hub) /\ Forward(Pending) /\ h.epoch = hub.epoch
  BY PendingForward DEF PosInv, Shifts
<1>3. \A op \in late : op.kind = "recover" =>
          /\ op.generation # None
          /\ op.generation # g => op.old # g
  BY <1>1 DEF Inv, ExportInv, ExportAt, LateInv, Sound
<1>4. CASE Stays(hub, h) /\ h.status = hub.status /\ h.last = hub.last
  BY <1>2, <1>4 DEF Reached, LateReached, Stays
<1>5. CASE /\ Pending.kind = "incomplete" /\ h.generation = hub.generation
           /\ h.source = hub.source
           /\ h.staging = Pending.generation /\ h.status = "incomplete" /\ h.last = Pending
  <2>1. pc = "incomplete"
    BY <1>5, PendingFields DEF Inv, Calling
  <2>2. Reached(h)
    BY <1>2, <1>5, <2>1 DEF Reached, Recovery
  <2>3. LateReached(h)
    BY <1>2, <1>5, <2>1 DEF LateReached, Recovery
  <2> QED
    BY <2>2, <2>3
<1>6. CASE /\ Pending.kind = "event" /\ EventFits(hub, Pending) /\ h.generation = hub.generation
           /\ h.source = Pending.at /\ h.staging = hub.staging /\ h.status = hub.status
           /\ h.last = Pending
  <2>1. pc = "publish" /\ Pending.generation = g
    BY <1>6, PendingFields DEF Inv, Calling
  <2>2. hub.generation = g
    BY <1>6, <2>1 DEF EventFits, Continues
  <2>3. Reached(h)
    BY <1>1, <1>2, <1>6, <2>1, <2>2 DEF Reached, Recovery, Forward
  <2>4. LateReached(h)
    BY <1>2, <1>3, <1>6, <2>1, <2>2 DEF LateReached, Recovery
  <2> QED
    BY <2>3, <2>4
<1>7. CASE /\ Pending.kind = "recover" /\ h.generation = Pending.generation
           /\ h.source = Pending.at /\ h.staging = None /\ h.status = "complete"
           /\ h.last = Pending
  <2>1. pc = "commit" /\ Pending.generation = g
    BY <1>7, PendingFields DEF Inv, Calling
  <2>2. Reached(h)
    BY <1>1, <1>2, <1>7, <2>1 DEF Reached, Recovery, Forward
  <2>3. LateReached(h)
    BY <1>2, <1>3, <1>7, <2>1 DEF LateReached
  <2> QED
    BY <2>2, <2>3
<1> QED
  BY <1>4, <1>5, <1>6, <1>7 DEF Shifts

(* So does a request that is late, which was the only one.                 *)
LEMMA LateReaches ==
    ASSUME Inv, PosInv, NEW op \in late, NEW h, Shifts(hub, op, h)
    PROVE  Reached(h)
<1> DEFINE g == mirror.generation
<1>1. /\ hub.source \in Nat /\ facts \in Nat
      /\ hub.status = "complete" => hub.generation # None
  BY HubTyped DEF Inv, Typed, ExportInv, ExportAt, HubInv, StatusAgrees
<1>2. Reached(hub) /\ LateReached(hub) /\ Forward(op) /\ h.epoch = hub.epoch
  BY LateForward DEF PosInv, Shifts
<1>3. CASE Stays(hub, h) /\ h.status = hub.status /\ h.last = hub.last
  BY <1>2, <1>3 DEF Reached, Stays
<1>4. CASE /\ op.kind = "incomplete" /\ h.generation = hub.generation /\ h.source = hub.source
           /\ h.staging = op.generation /\ h.status = "incomplete" /\ h.last = op
  BY <1>2, <1>4 DEF Reached
<1>5. CASE /\ op.kind = "event" /\ EventFits(hub, op) /\ h.generation = hub.generation
           /\ h.source = op.at /\ h.staging = hub.staging /\ h.status = hub.status
           /\ h.last = op
  <2>1. hub.status = "complete"
    BY <1>5 DEF EventFits, Continues
  <2> QED
    BY <1>1, <1>2, <1>5, <2>1 DEF Reached, Forward
<1>6. CASE /\ op.kind = "recover" /\ RecoverFits(hub, op) /\ h.generation = op.generation
           /\ h.source = op.at /\ h.staging = None /\ h.status = "complete"
           /\ h.last = op
  <2>1. op.generation # None /\ hub.staging = op.generation
    BY <1>6 DEF Inv, ExportInv, ExportAt, LateInv, Sound, RecoverFits
  <2>2. pc \in Recovery /\ hub.epoch = mirror.epoch => op.generation = g
    BY <1>2, <1>6, <2>1 DEF LateReached
  <2> QED
    BY <1>2, <1>6, <2>1, <2>2 DEF Reached, Forward
<1> QED
  BY <1>3, <1>4, <1>5, <1>6 DEF Shifts

(* What its readers see of the hub. *)
Promised == <<facts, hub.epoch, (hub.status = "complete"), hub.source, Live>>

LiveOf(h) == IF h.generation = None \/ ~h.tables[h.generation].present THEN {}
             ELSE h.tables[h.generation].entities

(* A hub shows the structure up to its source, whatever its status.        *)
LEMMA LiveIsStructure ==
    ASSUME NEW h, LiveIsExact(h), h.generation = None => h.source = 0
    PROVE  LiveOf(h) = Structure(h.source)
  BY DEF LiveOf, LiveIsExact, Structure

(* So it does before a step and after it.                                  *)
LEMMA LivesAreStructures ==
    ASSUME Inv, Reached(hub), Inv', Reached(hub)'
    PROVE  Live = Structure(hub.source) /\ Live' = Structure(hub'.source)
<1>1. Live = LiveOf(hub) /\ Live' = LiveOf(hub')
  BY DEF Live, LiveOf
<1>2. LiveIsExact(hub) /\ (hub.generation = None => hub.source = 0)
  BY DEF Inv, ExportInv, ExportAt, HubInv, Reached
<1>3. LiveIsExact(hub') /\ (hub'.generation = None => hub'.source = 0)
  BY DEF Inv, ExportInv, ExportAt, HubInv, Reached
<1> QED
  BY <1>1, <1>2, <1>3, LiveIsStructure

(* Nothing that its readers see is moved, or an event is emitted.          *)
LEMMA StillPromised ==
    ASSUME Inv, Reached(hub), Inv', Reached(hub)', facts' \in {facts, facts + 1},
           hub'.epoch = hub.epoch, hub'.source = hub.source, hub'.status = hub.status
    PROVE  [Outbox!Next]_Promised
<1>1. Live' = Live
  BY LivesAreStructures
<1>2. CASE facts' = facts
  BY <1>1, <1>2 DEF Promised
<1>3. CASE facts' = facts + 1
  <2>1. Outbox!Emit
    BY <1>1, <1>3 DEF Outbox!Emit
  <2> QED
    BY <2>1 DEF Outbox!Next
<1> QED
  BY <1>2, <1>3

(* An operation extends, interrupts or replaces what they see.             *)
LEMMA ShiftIsPromised ==
    ASSUME Inv, Reached(hub), Inv', Reached(hub)', facts' = facts, NEW op, NEW h, hub' = h,
           Sound(hub, op), Forward(op), op \in Operation, Shifts(hub, op, h)
    PROVE  [Outbox!Next]_Promised
<1>1. Live = Structure(hub.source) /\ Live' = Structure(h.source) /\ h.epoch = hub.epoch
  BY LivesAreStructures DEF Shifts
<1>2. facts \in Nat /\ hub.source \in Nat /\ op.at \in Nat /\ op.prior \in Nat
  BY HubTyped DEF Inv, Typed, Operation
<1>3. CASE Stays(hub, h) /\ h.status = hub.status
  BY <1>3, <1>1, StillPromised DEF Stays
<1>4. CASE h.source = hub.source /\ h.status = "incomplete"
  <2>1. CASE hub.status = "incomplete"
    BY <1>4, <1>1, <2>1, StillPromised
  <2>2. CASE hub.status # "incomplete"
    <3>1. hub.status = "complete"
      BY <2>2, HubTyped DEF Inv, Typed
    <3>2. Outbox!Interrupt
      BY <1>1, <1>4, <3>1 DEF Outbox!Interrupt
    <3> QED
      BY <3>2 DEF Outbox!Next
  <2> QED
    BY <2>1, <2>2
<1>5. CASE /\ op.kind = "event" /\ EventFits(hub, op)
           /\ h.source = op.at /\ h.status = hub.status
  <2>1. hub.status = "complete" /\ hub.source = op.prior /\ op.at = op.prior + 1
    BY <1>5 DEF EventFits, Continues, Sound
  <2>2. op.at <= facts
    BY <1>5 DEF Forward
  <2>3. h.source = hub.source + 1 /\ hub.source < facts
    BY <1>2, <1>5, <2>1, <2>2
  <2>4. Live' = Live \cup ({hub.source + 1} \ Parts)
    BY <1>1, <1>2, <2>3, StructureGrows
  <2>5. Outbox!Extend
    BY <1>1, <1>5, <2>1, <2>3, <2>4 DEF Outbox!Extend
  <2> QED
    BY <2>5 DEF Outbox!Next
<1>6. CASE /\ op.kind = "recover" /\ RecoverFits(hub, op) /\ hub.epoch = op.epoch
           /\ h.source = op.at /\ h.status = "complete"
  <2>1. hub.source <= op.at /\ op.at <= facts
    BY <1>6 DEF Forward
  <2>2. hub.staging # None
    BY <1>6 DEF RecoverFits, Sound
  <2>3. hub.status = "incomplete"
    BY <2>2 DEF Inv, ExportInv, ExportAt, HubInv, StatusAgrees
  <2>4. h.source \in hub.source .. facts
    BY <1>2, <1>6, <2>1
  <2>5. Live' = 1 .. h.source \ Parts
    BY <1>1 DEF Structure
  <2>6. Outbox!Replace
    BY <1>1, <1>6, <2>3, <2>4, <2>5 DEF Outbox!Replace
  <2> QED
    BY <2>6 DEF Outbox!Next
<1> QED
  BY <1>3, <1>4, <1>5, <1>6 DEF Shifts

(* What is proved of a step. *)
Promises == PosInv' /\ [Outbox!Next]_Promised

(* The row stays, requests do not become more, and the exporter either     *)
(* stays or is not, or not yet, past its declaration.                      *)
LEMMA AsidePromises ==
    ASSUME Inv, PosInv, Inv', facts' \in {facts, facts + 1},
           Stays(hub, hub'), hub'.epoch = hub.epoch, hub'.status = hub.status,
           hub'.last = hub.last, late' = late,
           \/ pc' = pc /\ mirror' = mirror /\ reader'.acquired = reader.acquired
           \/ /\ pc' \notin Recovery \cup {"publish"}
              /\ mirror'.highwater <= facts /\ reader'.acquired <= facts
    PROVE  Promises
<1>1. /\ hub.source \in Nat /\ facts \in Nat
      /\ mirror.highwater \in Nat /\ reader.acquired \in Nat
      /\ mirror'.highwater \in Nat /\ reader'.acquired \in Nat
  BY HubTyped DEF Inv, Typed, MirrorType, ReaderType
<1>2. \A op \in late : op.at \in Nat
  BY DEF Inv, Typed, SlotInv, Operation
<1>3. facts' \in Nat /\ facts <= facts'
  BY <1>1
<1>4. Reached(hub)'
  <2>1. hub'.source <= facts'
    BY <1>1, <1>3 DEF PosInv, Reached, Stays
  <2>2. mirror'.highwater <= facts' /\ reader'.acquired <= facts'
    BY <1>1, <1>3 DEF PosInv, Reached
  <2>3. pc' = "publish" => mirror'.highwater < reader'.acquired
    BY DEF PosInv, Reached
  <2>4. pc' \in Recovery /\ hub'.epoch = mirror'.epoch =>
          /\ hub'.status = "complete" => hub'.generation = mirror'.generation
          /\ pc' # "snapshot" /\ hub'.generation # mirror'.generation =>
                 hub'.source <= mirror'.highwater
    BY DEF PosInv, Reached, Stays
  <2> QED
    BY <2>1, <2>2, <2>3, <2>4 DEF PosInv, Reached, Stays, Recovery
<1>5. LateReached(hub)'
  <2> SUFFICES ASSUME NEW op \in late
               PROVE  /\ op.kind \in {"event", "recover"} => op.at <= facts'
                      /\ op.kind = "recover" =>
                            /\ op.epoch <= hub'.epoch
                            /\ pc' \in Recovery /\ hub'.epoch = mirror'.epoch
                                  /\ op.generation # mirror'.generation
                                   => hub'.staging # op.generation
                            /\ op.epoch = hub'.epoch /\ hub'.generation = op.old
                                  /\ op.old # op.generation
                                   => hub'.source <= op.at
    BY DEF LateReached, Recovery
  <2>1. op.kind \in {"event", "recover"} => op.at <= facts'
    BY <1>1, <1>2, <1>3 DEF PosInv, LateReached
  <2> QED
    BY <2>1 DEF PosInv, LateReached, Stays
<1> QED
  BY <1>4, <1>5, StillPromised DEF PosInv, Promises, Stays

(* The exporter may start over meanwhile.                                  *)
LEMMA FallPromises ==
    ASSUME Inv, PosInv, Inv', NEW reason, Recovering(reason),
           UNCHANGED <<facts, hub, late>>
    PROVE  Promises
<1>1. pc' = "initialize" /\ mirror'.highwater = 0 /\ reader'.acquired = 0
  BY DEF Recovering, NoMirror, NoReader
<1>2. facts \in Nat
  BY DEF Inv, Typed
<1>3. pc' \notin Recovery \cup {"publish"}
  BY <1>1 DEF Recovery
<1> QED
  BY <1>1, <1>2, <1>3, AsidePromises DEF Stays

(* What concerns execution, the process and the lease only.                *)
LEMMA SamePromises ==
    ASSUME Inv, PosInv, Inv', NEW h, hub' = h, SameHub(h, hub), facts' \in {facts, facts + 1},
           UNCHANGED <<late, mirror>>, reader'.acquired = reader.acquired,
           pc' \in {pc, "initialize"}
    PROVE  Promises
<1>1. /\ Stays(hub, hub') /\ hub'.epoch = hub.epoch
      /\ hub'.status = hub.status /\ hub'.last = hub.last
  BY DEF SameHub, Stays
<1>2. mirror.highwater <= facts /\ reader.acquired <= facts
  BY DEF PosInv, Reached
<1>3. "initialize" \notin Recovery \cup {"publish"}
  BY DEF Recovery
<1> QED
  BY <1>1, <1>2, <1>3, AsidePromises

(* Execution, the process and the lease.                                   *)
LEMMA OutsidePromises ==
    ASSUME Inv, PosInv, Inv', Emit \/ Overflow \/ Finish \/ Register \/ Expires PROVE Promises
<1>1. CASE Emit \/ Overflow \/ Finish
  <2>1. reader'.acquired = reader.acquired
    BY <1>1 DEF Emit, Overflow, Finish, exporter, Inv, Typed, ReaderType
  <2> QED
    BY <1>1, <2>1, SamePromises, SameHubItself DEF Emit, Overflow, Finish, exporter
<1>2. CASE Register \/ Expires
  <2>1. PICK h : h = hub'
    OBVIOUS
  <2>2. process \in Nat /\ None \in Nat /\ hub \in Hub
    BY DEF Inv, Typed, None
  <2>3. SameHub(h, hub)
    BY <1>2, <2>1, <2>2, UnleasedFields DEF Register, Expires
  <2>4. /\ facts' = facts /\ UNCHANGED <<late, mirror, reader>>
        /\ pc' \in {pc, "initialize"}
    BY <1>2 DEF Register, Expires, exporter
  <2> QED
    BY <2>1, <2>3, <2>4, SamePromises
<1> QED
  BY <1>1, <1>2

(* Another process takes over.                                             *)
LEMMA RestartPromises == ASSUME Inv, PosInv, Inv', Restart PROVE Promises
<1>1. pc' = "off" /\ mirror'.highwater = 0 /\ reader'.acquired = 0
  BY DEF Restart, NoMirror, NoReader
<1>2. facts \in Nat
  BY DEF Inv, Typed
<1>3. pc' \notin Recovery \cup {"publish"}
  BY <1>1 DEF Recovery
<1> QED
  BY <1>1, <1>2, <1>3, AsidePromises DEF Restart, Stays

(* The exporter's steps without a call, but for the snapshot and for the   *)
(* beginning of a publication.                                             *)
LEMMA ExporterPromises ==
    ASSUME Inv, PosInv, Inv',
           Initialize \/ Capture \/ StateUnavailable \/ SnapshotLimit \/ Receive
               \/ ShutDown \/ FindsReset
    PROVE  Promises
<1>1. /\ mirror.highwater <= facts /\ reader.acquired <= facts
      /\ facts \in Nat /\ reader.acquired \in Nat
  BY DEF PosInv, Reached, Inv, Typed, ReaderType
<1>2. UNCHANGED <<facts, hub, late>>
  BY DEF Initialize, Capture, StateUnavailable, SnapshotLimit, Receive, ShutDown, FindsReset
<1>3. CASE \E reason : Recovering(reason)
  BY <1>2, <1>3, FallPromises
<1>4. CASE /\ pc' \in {"capture", "abandon", "incomplete", "serve", "done"}
           /\ mirror'.highwater <= facts /\ reader'.acquired <= facts
  <2>1. pc' \notin Recovery \cup {"publish"}
    BY <1>4 DEF Recovery
  <2> QED
    BY <1>2, <1>4, <2>1, AsidePromises DEF Stays
<1>5. CASE Initialize \/ Capture
  <2>1. ASSUME hub.lease = process
        PROVE  /\ pc' \in {"capture", "abandon", "incomplete"}
               /\ mirror'.highwater = mirror.highwater /\ reader' = reader
    BY <1>5, <2>1 DEF Initialize, Capture, Inv, Typed, MirrorType
  <2>2. hub.lease # process => Recovering("source_gap")
    BY <1>5 DEF Initialize, Capture, Restarted
  <2> QED
    BY <1>1, <1>3, <1>4, <2>1, <2>2
<1>6. CASE StateUnavailable \/ SnapshotLimit \/ ShutDown \/ FindsReset
  BY <1>3, <1>6 DEF StateUnavailable, SnapshotLimit, ShutDown, FindsReset, Restarted
<1>7. CASE Receive
  <2>1. CASE Restarted("source_gap")
    BY <1>3, <2>1 DEF Restarted
  <2>2. CASE /\ \E n \in reader.acquired + 1 .. facts : reader' = [reader EXCEPT !.acquired = n]
             /\ UNCHANGED <<pc, final, mirror>>
    <3>1. reader'.acquired <= facts
      BY <1>1, <2>2 DEF Inv, Typed, ReaderType
    <3>2. pc' = "serve"
      BY <1>7, <2>2 DEF Receive, NoEventLeft
    <3> QED
      BY <1>1, <1>4, <2>2, <3>1, <3>2
  <2>3. CASE pc' = "done" /\ UNCHANGED <<final, mirror, reader>>
    BY <1>1, <1>4, <2>3
  <2> QED
    BY <1>7, <2>1, <2>2, <2>3 DEF Receive
<1> QED
  BY <1>5, <1>6, <1>7

(* The structure is read after everything that the hub has; an event is    *)
(* taken that the reader has acquired.                                     *)
LEMMA TakePromises == ASSUME Inv, PosInv, Inv', Snapshot \/ Publish PROVE Promises
<1>1. Reached(hub) /\ LateReached(hub) /\ UNCHANGED <<facts, hub, late>> /\ facts \in Nat
  BY DEF PosInv, Snapshot, Publish, Inv, Typed
<1>2. CASE Snapshot
  <2>1. /\ pc = "snapshot" /\ pc' = "stage"
        /\ mirror'.highwater = facts /\ reader'.acquired = facts
        /\ mirror'.epoch = mirror.epoch /\ mirror'.generation = mirror.generation
    BY <1>2 DEF Snapshot, Inv, Typed, MirrorType
  <2>2. Reached(hub)'
    BY <1>1, <2>1 DEF Reached, Recovery
  <2>3. LateReached(hub)'
    BY <1>1, <2>1 DEF LateReached, Recovery
  <2> QED
    BY <1>1, <2>2, <2>3, StillPromised DEF PosInv, Promises
<1>3. CASE Publish
  <2>1. /\ pc' = "publish" /\ UNCHANGED <<mirror, reader>>
        /\ mirror.highwater < reader.acquired
    BY <1>3 DEF Publish, EventLeft
  <2>2. Reached(hub)'
    BY <1>1, <2>1 DEF Reached, Recovery
  <2>3. LateReached(hub)'
    BY <1>1, <2>1 DEF LateReached, Recovery
  <2> QED
    BY <1>1, <2>2, <2>3, StillPromised DEF PosInv, Promises
<1> QED
  BY <1>2, <1>3

(* How the exporter leaves a call that moved the hub to h: as it was, to   *)
(* start over, or a step on.                                               *)
Leaves(h) ==
    \/ UNCHANGED <<pc, mirror, reader>>
    \/ \E reason : Recovering(reason)
    \/ /\ pc = "abandon" /\ pc' = "incomplete" /\ UNCHANGED <<mirror, reader>>
    \/ /\ pc = "incomplete" /\ pc' = "snapshot" /\ UNCHANGED <<mirror, reader>>
       /\ h.staging = mirror.generation /\ h.status = "incomplete"
    \/ /\ pc = "stage" /\ pc' = "commit" /\ UNCHANGED <<mirror, reader>>
    \/ /\ pc = "commit" /\ pc' \in {"serve", "done"}
       /\ mirror'.highwater = mirror.highwater /\ UNCHANGED reader
    \/ /\ pc = "publish" /\ pc' = "serve"
       /\ mirror'.highwater = mirror.highwater + 1 /\ UNCHANGED reader

(* What was reached is kept by it.                                         *)
LEMMA LeavesReached ==
    ASSUME Typed, facts' = facts, late' = late, NEW h, hub' = h, Reached(h), LateReached(h), Leaves(h)
    PROVE  PosInv'
<1>1. facts \in Nat /\ mirror.highwater \in Nat /\ reader.acquired \in Nat
  BY DEF Typed, MirrorType, ReaderType
<1>2. CASE UNCHANGED <<pc, mirror, reader>>
  BY <1>2 DEF PosInv, Reached, LateReached
<1>3. CASE \E reason : Recovering(reason)
  <2>1. pc' = "initialize" /\ mirror'.highwater = 0 /\ reader'.acquired = 0
    BY <1>3 DEF Recovering, NoMirror, NoReader
  <2> QED
    BY <1>1, <2>1 DEF PosInv, Reached, LateReached, Recovery
<1>4. CASE pc' \in {"incomplete", "serve", "done"} /\ reader' = reader
           /\ mirror'.highwater <= facts
  BY <1>1, <1>4 DEF PosInv, Reached, LateReached, Recovery
<1>5. CASE /\ pc' = "snapshot" /\ UNCHANGED <<mirror, reader>>
           /\ h.staging = mirror.generation /\ h.status = "incomplete"
  BY <1>5 DEF PosInv, Reached, LateReached, Recovery
<1>6. CASE pc = "stage" /\ pc' = "commit" /\ UNCHANGED <<mirror, reader>>
  BY <1>6 DEF PosInv, Reached, LateReached, Recovery
<1>7. /\ mirror.highwater <= facts /\ reader.acquired <= facts
      /\ pc = "publish" => mirror.highwater + 1 <= facts
  BY <1>1 DEF Reached
<1> QED
  BY <1>2, <1>3, <1>4, <1>5, <1>6, <1>7 DEF Leaves

(* A call that may have reached the hub.                                   *)
LEMMA CallPromises ==
    ASSUME Inv, PosInv, Inv', Calling, UNCHANGED <<facts, late>>, NEW h, hub' = h,
           Shifts(hub, Pending, h), Leaves(h)
    PROVE  Promises
<1>1. Reached(h) /\ LateReached(h)
  BY CallReaches
<1>2. PosInv'
  BY <1>1, LeavesReached DEF Inv
<1>3. Reached(hub) /\ Reached(hub)' /\ Forward(Pending)
  BY <1>2, PendingForward DEF PosInv
<1>4. Sound(hub, Pending) /\ Pending \in Operation
  BY PendingSound, PendingFields DEF Inv
<1>5. PICK op : op = Pending
  OBVIOUS
<1>6. [Outbox!Next]_Promised
  BY <1>3, <1>4, <1>5, ShiftIsPromised
<1> QED
  BY <1>2, <1>6 DEF Promises

(* Once the hub has answered, it knows of this recovery.                   *)
LEMMA DeclaredOk ==
    ASSUME Inv, Reached(hub), pc = "incomplete", Answer(hub, Pending) = "ok",
           NEW h, h = Seen(Applied(hub, Pending))
    PROVE  h.staging = mirror.generation /\ h.status = "incomplete"
<1> DEFINE op == Pending
           k == Applied(hub, op)
<1>1. /\ op \in Operation /\ op.kind = "incomplete" /\ op.generation = mirror.generation
      /\ hub \in Hub
  BY PendingFields DEF Inv, Typed, Calling
<1>2. CASE Repeated(hub, op)
  <2>1. hub.last.kind = "incomplete" /\ hub.last.generation = mirror.generation
    BY <1>1, <1>2 DEF Repeated, SameId
  <2>2. k = hub
    BY <1>1, <1>2 DEF Applied
  <2>3. Kept(hub, follower).staging = hub.staging /\ Kept(hub, follower).status = hub.status
    BY <1>1, KeptFields DEF SameRest
  <2>4. hub.status = "incomplete" /\ hub.staging = mirror.generation
    BY <2>1 DEF Reached
  <2> QED
    BY <2>2, <2>3, <2>4, SeenIsKept
<1>3. CASE ~Repeated(hub, op)
  <2>1. Fits(hub, op)
    BY <1>1 DEF Fits
  <2>2. k = WithIncomplete(hub, op)
    BY <1>1, <1>3, <2>1 DEF Applied, Effect
  <2>3. LET w == WithIncomplete(hub, op) IN
        w \in Hub /\ w.status = "incomplete" /\ w.staging = op.generation
    BY <1>1, IncompleteFields
  <2>4. k \in Hub /\ k.status = "incomplete" /\ k.staging = mirror.generation
    BY <1>1, <2>2, <2>3
  <2> HIDE DEF k
  <2>5. Kept(k, follower).staging = k.staging /\ Kept(k, follower).status = k.status
    BY <2>4, KeptFields DEF SameRest
  <2> QED
    BY <2>4, <2>5, SeenIsKept DEF k
<1> QED
  BY <1>2, <1>3

(* A call is answered.                                                     *)
LEMMA AnsweredPromises == ASSUME Inv, PosInv, Inv', Answered PROVE Promises
<1>1. /\ Calling /\ hub' = Seen(Applied(hub, Pending)) /\ Handled(Answer(hub, Pending))
      /\ UNCHANGED <<facts, late>>
  BY DEF Answered
<1>2. PICK h : h = Seen(Applied(hub, Pending))
  OBVIOUS
<1>3. Shifts(hub, Pending, h) /\ hub' = h
  BY <1>1, <1>2, CalledShifts
<1>4. CASE Answer(hub, Pending) = "ok"
  <2>1. Proceeded
    BY <1>1, <1>4 DEF Handled
  <2>2. pc = "incomplete" => h.staging = mirror.generation /\ h.status = "incomplete"
    BY <1>2, <1>4, DeclaredOk DEF PosInv
  <2>3. mirror \in MirrorType
    BY DEF Inv, Typed
  <2>4. Leaves(h)
    <3>1. CASE /\ pc \in {"abandon", "incomplete"}
               /\ pc' = IF pc = "abandon" THEN "incomplete" ELSE "snapshot"
               /\ UNCHANGED <<final, mirror, reader>>
      BY <2>2, <3>1 DEF Leaves
    <3>2. CASE pc = "stage" /\ pc' = "commit" /\ UNCHANGED <<final, mirror, reader>>
      BY <3>2 DEF Leaves
    <3>3. CASE /\ pc = "commit" /\ pc' = IF final THEN "done" ELSE "serve"
               /\ mirror' = [mirror EXCEPT !.reason = "", !.old = None, !.oldStaging = None]
               /\ UNCHANGED <<final, reader>>
      <4>1. mirror'.highwater = mirror.highwater
        BY <2>3, <3>3 DEF MirrorType
      <4> QED
        BY <3>3, <4>1 DEF Leaves
    <3>4. CASE Restarted("source_gap")
      BY <3>4 DEF Leaves, Restarted
    <3>5. CASE /\ pc = "publish" /\ pc' = "serve"
               /\ mirror' = [mirror EXCEPT !.highwater = @ + 1,
                                !.projection = @ \cup ({mirror.highwater + 1} \ Parts)]
               /\ UNCHANGED <<final, reader>>
      <4>1. mirror'.highwater = mirror.highwater + 1
        BY <2>3, <3>5 DEF MirrorType
      <4> QED
        BY <3>5, <4>1 DEF Leaves
    <3> QED
      BY <2>1, <3>1, <3>2, <3>3, <3>4, <3>5 DEF Proceeded
  <2> QED
    BY <1>1, <1>3, <2>4, CallPromises
<1>5. CASE Answer(hub, Pending) = "recover"
  <2>1. Leaves(h)
    BY <1>1, <1>5 DEF Handled, Leaves, Restarted
  <2> QED
    BY <1>1, <1>3, <2>1, CallPromises
<1> QED
  BY <1>1, <1>4, <1>5, NeverProtocol

(* Its answer is lost, or the lease ends with it.                          *)
LEMMA LostPromises ==
    ASSUME Inv, PosInv, Inv', AnswerLost \/ AppliedWithoutRenewal PROVE Promises
<1> DEFINE k == Seen(Applied(hub, Pending))
<1>1. PICK h \in {hub, k, [k EXCEPT !.lease = None]} : hub' = h
  BY DEF AnswerLost, AppliedWithoutRenewal
<1>2. Calling /\ UNCHANGED <<facts, late>>
  BY DEF AnswerLost, AppliedWithoutRenewal, Calling
<1>3. Shifts(hub, Pending, h)
  BY <1>1, <1>2, CalledShifts
<1>4. Leaves(h)
  BY DEF AnswerLost, AppliedWithoutRenewal, Unavailable, Restarted, Leaves, exporter
<1> QED
  BY <1>1, <1>2, <1>3, <1>4, CallPromises

(* A request is late: nothing of its caller's recovery can outdate it.     *)
LEMMA DelayedPromises == ASSUME MaxLate <= 1, Inv, PosInv, Inv', Delayed PROVE Promises
<1>1. /\ Calling /\ late' = {Pending} /\ UNCHANGED <<facts, hub>>
      /\ Pending \in Operation
  BY Room, PendingFields DEF Delayed, Inv, Typed
<1>2. Reached(hub) /\ Forward(Pending) /\ mirror.epoch <= hub.epoch
  BY <1>1, PendingForward DEF PosInv, Inv, ExportInv, ExportAt, StepInv
<1>3. \/ pc # "abandon" /\ UNCHANGED <<pc, mirror, reader>>
      \/ pc = "abandon" /\ Recovering("source_gap")
  BY DEF Delayed, Unavailable, Restarted, exporter
<1>4. Pending.kind = "recover" =>
          /\ pc = "commit" /\ Pending.at = mirror.highwater
          /\ Pending.generation = mirror.generation /\ Pending.epoch = mirror.epoch
  BY <1>1, PendingFields DEF Inv, Calling
<1>5. LateReached(hub)'
  BY <1>1, <1>2, <1>3, <1>4 DEF LateReached, Reached, Recovery, Forward
<1>6. Reached(hub)'
  <2>1. CASE UNCHANGED <<pc, mirror, reader>>
    BY <1>1, <1>2, <2>1 DEF Reached
  <2>2. CASE Recovering("source_gap")
    <3>1. pc' = "initialize" /\ mirror'.highwater = 0 /\ reader'.acquired = 0 /\ facts \in Nat
      BY <2>2 DEF Recovering, NoMirror, NoReader, Inv, Typed
    <3> QED
      BY <1>1, <1>2, <3>1 DEF Reached, Recovery
  <2> QED
    BY <1>3, <2>1, <2>2
<1>7. [Outbox!Next]_Promised
  BY <1>1, <1>2, <1>6, StillPromised
<1> QED
  BY <1>5, <1>6, <1>7 DEF PosInv, Promises

(* It arrives.                                                             *)
LEMMA DeliverPromises ==
    ASSUME Inv, PosInv, Inv', NEW op \in late, Deliver(op) PROVE Promises
<1>1. late = {op} /\ op \in Operation /\ Sound(hub, op) /\ hub \in Hub /\ HubInv(hub, follower)
  BY DEF Inv, Typed, SlotInv, ExportInv, ExportAt, LateInv
<1>2. late' = {} /\ UNCHANGED <<facts, pc, mirror, reader>>
  BY <1>1 DEF Deliver, exporter
<1>3. PICK h : h = Seen(Applied(hub, op))
  OBVIOUS
<1>4. Shifts(hub, op, h) /\ hub' = h
  BY <1>1, <1>3, SeenShifts DEF Deliver
<1>5. Reached(h) /\ Forward(op)
  BY <1>4, LateReaches, LateForward DEF PosInv
<1>6. Reached(hub)' /\ LateReached(hub)'
  BY <1>2, <1>4, <1>5 DEF Reached, LateReached
<1>7. [Outbox!Next]_Promised
  BY <1>1, <1>2, <1>4, <1>5, <1>6, ShiftIsPromised DEF PosInv
<1> QED
  BY <1>6, <1>7 DEF PosInv, Promises

(* A staged table expires.                                                 *)
LEMMA ExpireStagingPromises ==
    ASSUME Inv, PosInv, Inv', NEW g \in Generations, ExpireStaging(g) PROVE Promises
<1>1. hub \in Hub /\ UNCHANGED <<facts, late, pc, mirror, reader>>
  BY DEF ExpireStaging, exporter, Inv, Typed
<1>2. hub' = [hub EXCEPT !.tables = [hub.tables EXCEPT ![g] = NoTable]]
  BY <1>1 DEF ExpireStaging, Hub
<1>3. /\ Stays(hub, hub') /\ hub'.epoch = hub.epoch
      /\ hub'.status = hub.status /\ hub'.last = hub.last
  BY <1>1, <1>2 DEF Hub, Stays
<1> QED
  BY <1>1, <1>3, AsidePromises

(* The hub loses its data.                                                 *)
LEMMA ResetPromises == ASSUME Inv, PosInv, Inv', Reset PROVE Promises
<1> DEFINE e == hub.epoch + 1
           k == EmptyHub(e)
<1>1. /\ UNCHANGED <<facts, late, pc, mirror, reader>> /\ hub' = Kept(k, follower)
      /\ hub.epoch \in Nat /\ follower.epoch \in Nat /\ follower.epoch <= hub.epoch
      /\ facts \in Nat /\ mirror.highwater \in Nat
  BY SeenIsKept, HubTyped
  DEF Reset, exporter, Inv, Typed, ExportInv, ExportAt, StepInv, FollowerType, MirrorType
<1>2. e \in Nat /\ follower.epoch < e /\ e # hub.epoch /\ hub.epoch < e
  BY <1>1
<1> HIDE DEF e
<1>3. k \in Hub
  BY <1>1, <1>2, EmptyFields
<1>4. /\ k.epoch = e /\ k.status = "incomplete" /\ k.generation = None
      /\ k.staging = None /\ k.source = 0 /\ k.last.kind = "none"
  BY DEF EmptyHub, NoOperation
<1> HIDE DEF k
<1>5. PICK h : h = Kept(k, follower)
  OBVIOUS
<1>6. /\ h.epoch = e /\ h.status = "incomplete" /\ h.generation = None
      /\ h.staging = None /\ h.source = 0 /\ h.last.kind = "none"
  BY <1>3, <1>4, <1>5, KeptFields DEF SameRest
<1>7. hub' = h
  BY <1>1, <1>5
<1>8. Reached(hub)'
  BY <1>1, <1>6, <1>7 DEF PosInv, Reached
<1>9. LateReached(hub)'
  <2> SUFFICES ASSUME NEW op \in late
               PROVE  /\ op.kind \in {"event", "recover"} => op.at <= facts
                      /\ op.kind = "recover" =>
                            /\ op.epoch <= h.epoch /\ h.staging # op.generation
                            /\ op.epoch # h.epoch
    BY <1>1, <1>7 DEF LateReached, Recovery
  <2>1. /\ op.kind \in {"event", "recover"} => op.at <= facts
        /\ op.kind = "recover" => op.epoch <= hub.epoch
    BY DEF PosInv, LateReached
  <2>2. op.kind = "recover" => op.generation # None
    BY DEF Inv, ExportInv, ExportAt, LateInv, Sound
  <2>3. op.epoch \in Nat
    BY DEF Inv, Typed, SlotInv, Operation
  <2> QED
    BY <1>1, <1>2, <1>6, <2>1, <2>2, <2>3
<1>10. Live' = {}
  <2>1. Live' = Structure(hub'.source)
    BY <1>8, LivesAreStructures DEF PosInv
  <2> QED
    BY <1>6, <1>7, <2>1 DEF Structure
<1>11. Outbox!Lose
  BY <1>1, <1>6, <1>7, <1>10 DEF Outbox!Lose, e
<1> QED
  BY <1>8, <1>9, <1>11 DEF PosInv, Promises, Outbox!Next

(* The follower moves no more than what it alone reads.                    *)
LEMMA FollowerPromises ==
    ASSUME Inv, PosInv, Inv', Attach \/ ReadTable \/ CheckRow \/ ReadEvent \/ Detach
    PROVE  Promises
<1>1. UNCHANGED <<facts, late, pc, mirror, reader>> /\ hub \in Hub
  BY DEF Attach, ReadTable, CheckRow, ReadEvent, Detach, exporter, Inv, Typed
<1>2. PICK h : h = hub'
  OBVIOUS
<1>3. SameHub(h, hub)
  <2>1. CASE hub' = hub
    BY <1>2, <2>1, SameHubItself
  <2>2. CASE hub' = Forgotten(hub)
    BY <1>1, <1>2, <2>2, ForgottenFields
  <2>3. CASE ReadEvent
    <3>1. hub' = [hub EXCEPT !.entries = Tail(hub.entries)] /\ hub.entries # <<>>
      BY <1>1, <2>3 DEF ReadEvent, Hub
    <3> QED
      BY <1>1, <1>2, <3>1, TailFields
  <2> QED
    BY <2>1, <2>2, <2>3 DEF Attach, ReadTable, CheckRow, Detach, Detached
<1> QED
  BY <1>1, <1>2, <1>3, SamePromises

(* Every step keeps what was reached and is one of the outbox.             *)
LEMMA NextPromises == ASSUME MaxLate <= 1, Inv, PosInv, Inv', [Next]_vars PROVE Promises
<1>1. CASE Emit \/ Overflow \/ Finish \/ Register \/ Unregister \/ ExpireOfDead \/ ExpireOfLive
  BY <1>1, OutsidePromises DEF Unregister, ExpireOfDead, ExpireOfLive
<1>2. CASE Restart
  BY <1>2, RestartPromises
<1>3. CASE ExporterStep \/ StateUnavailable \/ SnapshotLimit
  BY <1>3, ExporterPromises, TakePromises, AnsweredPromises DEF ExporterStep
<1>4. CASE AnswerLost \/ Delayed \/ AppliedWithoutRenewal
  BY <1>4, LostPromises, DelayedPromises
<1>5. CASE \E op \in late : Deliver(op)
  BY <1>5, DeliverPromises
<1>6. CASE (\E g \in Generations : ExpireStaging(g)) \/ Reset
  BY <1>6, ExpireStagingPromises, ResetPromises
<1>7. CASE Attach \/ ReadTable \/ CheckRow \/ ReadEvent \/ Detach
  BY <1>7, FollowerPromises
<1>8. CASE UNCHANGED vars
  BY <1>8, SamePromises, SameHubItself DEF vars, exporter
<1> QED
  BY <1>1, <1>2, <1>3, <1>4, <1>5, <1>6, <1>7, <1>8 DEF Next

(* Nothing is shown of an agent that has not begun.                        *)
LEMMA InitPromises == Init => PosInv /\ Outbox!Init
<1> SUFFICES ASSUME Init PROVE PosInv /\ Outbox!Init
  OBVIOUS
<1>1. /\ facts = 0 /\ hub = EmptyHub(0) /\ late = {} /\ pc = "off"
      /\ mirror = NoMirror /\ reader = NoReader
  BY DEF Init
<1>2. /\ hub.epoch = 0 /\ hub.status = "incomplete" /\ hub.generation = None
      /\ hub.source = 0 /\ hub.last.kind = "none"
  BY <1>1 DEF EmptyHub, NoOperation
<1>3. mirror.highwater = 0 /\ reader.acquired = 0
  BY <1>1 DEF NoMirror, NoReader
<1>4. PosInv
  BY <1>1, <1>2, <1>3 DEF PosInv, Reached, LateReached, Recovery
<1>5. Live = {}
  BY <1>2 DEF Live
<1> QED
  BY <1>1, <1>2, <1>4, <1>5 DEF Outbox!Init

(* What the hub shows of an agent is an outbox, whatever is lost, late,    *)
(* repeated, reset or restarted (exporter.py, recover and publish;         *)
(* event_scripts.py, WRITE): the structure of the events up to a position  *)
(* that the agent has reached, which never goes back within a dataset, and *)
(* moves event by event while the hub calls the agent complete.            *)
THEOREM ExportKeepsOutbox == ASSUME MaxLate <= 1 PROVE Spec => KeepsOutbox
<1>1. Init => PosInv /\ Outbox!Init
  BY InitPromises
<1>2. Inv /\ Inv' /\ PosInv /\ [Next]_vars => PosInv' /\ [Outbox!Next]_Promised
  BY NextPromises DEF Promises
<1>3. Spec => Outbox!Init /\ [][Outbox!Next]_Promised
  BY <1>1, <1>2, ExportHolds, PTL DEF Spec
<1> QED
  BY <1>3, PTL DEF KeepsOutbox, Outbox!Spec, Promised
=============================================================================
