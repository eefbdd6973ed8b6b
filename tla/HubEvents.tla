---- MODULE HubEvents ----
(***************************************************************************)
(* What the hub keeps of the execution events of one agent, and the atomic *)
(* scripts that change it (teaming/backend/valkey/event_scripts.py).       *)
(*                                                                         *)
(* The agent's process holds a lease on its name; its token and the epoch  *)
(* of the dataset fence every write.  A generation is a table of the       *)
(* entities (runs, steps, controls) at a position of the process's stream  *)
(* of events.  A recovery declares the agent incomplete, stages a new      *)
(* generation and commits it; events then extend the live one, each naming *)
(* the position it follows.  A last operation that is repeated is known by *)
(* its id and answered again.                                              *)
(*                                                                         *)
(* Data.  An entity is the position of the event that wrote it, a position *)
(* in Parts is progress that no table keeps.  Recovery and generation ids  *)
(* are made in pairs: one number stands for both.  A process has one       *)
(* stream, so its number is also the epoch of its cursors.  A cursor is a  *)
(* number: the scripts compare it as text, and only with one of the same   *)
(* epoch, and its text has a sequence of sixteen hexadecimal digits, so    *)
(* that both orders are one (execution/types.py:2255).  Budgets of         *)
(* bytes and entities, the checks of record versions and the delivery ids  *)
(* in a table are left out; the digest of an operation is the operation.   *)
(***************************************************************************)
EXTENDS Integers, Sequences

CONSTANTS
    Parts,       \* positions of progress events
    Generations  \* ids of generations

ASSUME PartsAssumption == Parts \subseteq Nat
ASSUME GenerationsAssumption == Generations \subseteq Nat \ {0}

None == 0  \* no generation, no process

Structure(n) == 1 .. n \ Parts

Reasons == {"", "initial", "source_gap", "snapshot_limit", "shutdown"}
Operation == [kind : {"none", "event", "incomplete", "recover", "stage", "abandon"},
              epoch : Nat, token : Nat, generation : Generations \cup {None},
              reason : Reasons, at : Nat, prior : Nat,
              old : Generations \cup {None}, entities : SUBSET Nat]

NoOperation == [kind |-> "none", epoch |-> 0, token |-> None, generation |-> None,
                reason |-> "", at |-> 0, prior |-> 0, old |-> None, entities |-> {}]

Table == [present : BOOLEAN, source : Nat, entities : SUBSET Nat, expiring : BOOLEAN]
NoTable == [present |-> FALSE, source |-> 0, entities |-> {}, expiring |-> FALSE]

(* The agent's row, its tables, and what followers read: entries are the   *)
(* end of the hub's event stream, revision counts the changes of the row   *)
(* and of the live table.                                                  *)
Hub == [epoch : Nat, lease : Nat,
        known : BOOLEAN, status : {"incomplete", "complete"}, reason : Reasons,
        token : Nat, generation : Generations \cup {None},
        staging : Generations \cup {None},
        stream : Nat, source : Nat, last : Operation,
        tables : [Generations -> Table],
        entries : Seq([kind : {"event", "incomplete", "recovered"}, at : Nat]),
        revision : Nat]

(* INIT on an empty backend. *)
EmptyHub(epoch) ==
    [epoch |-> epoch, lease |-> None, known |-> FALSE, status |-> "incomplete",
     reason |-> "", token |-> None, generation |-> None, staging |-> None,
     stream |-> None, source |-> 0, last |-> NoOperation,
     tables |-> [g \in Generations |-> NoTable], entries |-> <<>>, revision |-> 0]

(***************************************************************************)
(* Fences.                                                                 *)
(***************************************************************************)

Fenced(hub, op) == hub.epoch = op.epoch /\ hub.lease = op.token

(* Mutant: an id names the recovery, not its phase. *)
SameIdOfRecovery(a, b) ==
    IF "event" \in {a.kind, b.kind}
    THEN a.kind = b.kind /\ a.token = b.token /\ a.at = b.at
    ELSE a.generation = b.generation

(* Ids are the cursor of an event, or the recovery and its phase. *)
SameId(a, b) ==
    /\ a.kind = b.kind
    /\ IF a.kind = "event" THEN a.token = b.token /\ a.at = b.at
       ELSE a.generation = b.generation

Repeated(hub, op) == SameId(hub.last, op)

(* agent.last_id = op.id with another digest *)
Conflicts(hub, op) == Repeated(hub, op) /\ hub.last # op

(***************************************************************************)
(* WRITE of an event.                                                      *)
(***************************************************************************)

Continues(hub, op) ==
    /\ hub.token = op.token /\ hub.generation = op.generation
    /\ hub.status = "complete"
    /\ hub.stream = op.token

Stale(hub, op) == op.at <= hub.source

EventFits(hub, op) == Continues(hub, op) /\ ~Stale(hub, op) /\ hub.source = op.prior

WithEvent(hub, op) ==
    [hub EXCEPT
        !.entries = Append(@, [kind |-> "event", at |-> op.at]),
        !.tables[op.generation].entities = @ \cup ({op.at} \ Parts),
        !.revision = IF op.at \in Parts THEN @ ELSE @ + 1,
        !.source = op.at,
        !.last = op]

(***************************************************************************)
(* The three steps of a recovery.                                          *)
(***************************************************************************)

WithIncomplete(hub, op) ==
    LET news == \/ hub.status # "incomplete" \/ ~hub.known
                \/ hub.token # op.token \/ hub.reason # op.reason
    IN  [hub EXCEPT
            !.entries = IF news THEN Append(@, [kind |-> "incomplete", at |-> 0]) ELSE @,
            !.revision = IF news THEN @ + 1 ELSE @,
            !.known = TRUE, !.status = "incomplete", !.reason = op.reason,
            !.token = op.token, !.staging = op.generation, !.last = op]

StageFits(hub, op) == hub.known /\ hub.staging = op.generation

(* Only the staged table is touched; it expires unless it is committed. *)
WithStage(hub, op) ==
    [hub EXCEPT !.tables[op.generation] =
        [present |-> TRUE, source |-> op.at, entities |-> op.entities, expiring |-> TRUE]]

RecoverFits(hub, op) ==
    /\ hub.token = op.token /\ hub.staging = op.generation
    /\ hub.tables[op.generation].present
    /\ hub.tables[op.generation].source = op.at
    /\ hub.generation \in {None, op.old}

Unlinked(tables, g) == IF g = None THEN tables ELSE [tables EXCEPT ![g] = NoTable]

WithRecover(hub, op) ==
    [hub EXCEPT
        !.entries = Append(@, [kind |-> "recovered", at |-> op.at]),
        !.tables = [Unlinked(@, IF hub.generation = op.generation THEN None
                                ELSE hub.generation)
                       EXCEPT ![op.generation].expiring = FALSE],
        !.generation = op.generation, !.staging = None,
        !.status = "complete", !.reason = "",
        !.source = op.at, !.stream = op.token,
        !.revision = @ + 1,
        !.last = op]

WithAbandon(hub, op) ==
    [hub EXCEPT !.tables = Unlinked(@, op.generation)]

(***************************************************************************)
(* The answer to an operation, and the hub after it.                       *)
(***************************************************************************)

Fits(hub, op) ==
    CASE op.kind = "event" -> EventFits(hub, op)
      [] op.kind = "recover" -> RecoverFits(hub, op)
      [] op.kind = "stage" -> StageFits(hub, op)
      [] OTHER -> TRUE

Effect(hub, op) ==
    CASE op.kind = "event" -> WithEvent(hub, op)
      [] op.kind = "incomplete" -> WithIncomplete(hub, op)
      [] op.kind = "recover" -> WithRecover(hub, op)
      [] op.kind = "stage" -> WithStage(hub, op)
      [] OTHER -> hub

(* "recover" stands for the answers reset, lease and recover; "protocol"   *)
(* for an error that stops the exporter: another operation with the id of  *)
(* the last one, or a live generation that is gone.                        *)
WriteAnswer(hub, op) ==
    IF ~Fenced(hub, op) THEN "recover"
    ELSE IF op.kind # "stage" /\ Repeated(hub, op)
         THEN IF Conflicts(hub, op) THEN "protocol" ELSE "ok"
    ELSE IF op.kind = "event" /\ Continues(hub, op) /\ Stale(hub, op) THEN "ok"
    ELSE IF ~Fits(hub, op) THEN "recover"
    ELSE IF op.kind = "event" /\ ~hub.tables[op.generation].present THEN "protocol"
    ELSE "ok"

(* ABANDON looks at the lease only. *)
Answer(hub, op) ==
    IF op.kind # "abandon" THEN WriteAnswer(hub, op)
    ELSE IF hub.lease = op.token THEN "ok" ELSE "recover"

Applied(hub, op) ==
    IF op.kind = "abandon"
    THEN IF hub.lease = op.token /\ hub.generation # op.generation
         THEN WithAbandon(hub, op) ELSE hub
    ELSE IF /\ Answer(hub, op) = "ok"
            /\ op.kind = "stage" \/ ~Repeated(hub, op)
            /\ Fits(hub, op)
         THEN Effect(hub, op) ELSE hub
====
