---- MODULE RunControlsProofs ----
(***************************************************************************)
(* Proofs about RunControls, for every number of controls, every mix of    *)
(* requests and clients, with and without withdrawals.  First what each    *)
(* transaction and each refresh does to one row, then types, then the      *)
(* inductive invariant, then what follows from it.                         *)
(***************************************************************************)
EXTENDS RunControls, WellFoundedInduction, TLAPS

\* Everything about a row but its claim.
SameRow(c) ==
    /\ control'[c].kind = control[c].kind
    /\ control'[c].timing = control[c].timing
    /\ control'[c].status = control[c].status
    /\ control'[c].revision = control[c].revision

Typed == control \in [Controls -> Row] /\ latest \in Nat

\* claim_run_controls marks the pending, unclaimed rows among S and no other.
LEMMA ClaimEffect ==
    ASSUME Typed, NEW S \in SUBSET Controls, Claim(S)
    PROVE  /\ control' \in [Controls -> Row]
           /\ \A c \in Controls : SameRow(c)
           /\ \A c \in Controls :
                control'[c].claimed <=> control[c].claimed \/ c \in Claimed(S)
<1>1. control' \in [Controls -> Row]
  BY DEF Typed, Claim, Claimed, Row
<1>2. ASSUME NEW c \in Controls
      PROVE  /\ SameRow(c)
             /\ control'[c].claimed <=> control[c].claimed \/ c \in Claimed(S)
  BY <1>2 DEF Typed, Claim, Claimed, Row, SameRow
<1> QED BY <1>1, <1>2

\* Settling a row changes its status and revision.
LEMMA SettleEffect ==
    ASSUME Typed, NEW c \in Controls, NEW status \in Settled
    PROVE  /\ Settle(c, status) \in Row
           /\ Settle(c, status).status = status
           /\ Settle(c, status).revision = latest + 1
           /\ Settle(c, status).claimed = control[c].claimed
<1>1. control[c] \in Row
  BY DEF Typed
<1>2. latest + 1 \in Nat
  BY DEF Typed
<1>3. Settle(c, status) \in Row
  BY <1>1, <1>2 DEF Settle, Row, Settled
<1>4. /\ Settle(c, status).status = status
      /\ Settle(c, status).revision = latest + 1
      /\ Settle(c, status).claimed = control[c].claimed
  BY <1>1 DEF Settle, Row
<1> QED BY <1>3, <1>4

\* accept_run_control adds one pending row with a fresh revision.
LEMMA AcceptEffect ==
    ASSUME Typed, NEW c \in Controls, NEW kind \in Kinds, NEW timing \in Timings,
           Accept(c, kind, timing)
    PROVE  /\ control' \in [Controls -> Row]
           /\ latest' = latest + 1 /\ run' = run /\ run \in Active
           /\ control[c].status = "none"
           /\ control'[c].status = "pending" /\ control'[c].revision = latest + 1
           /\ ~control'[c].claimed
           /\ \A d \in Controls \ {c} : control'[d] = control[d]
<1> DEFINE row == [kind |-> kind, timing |-> timing, claimed |-> FALSE,
                   revision |-> latest + 1, status |-> "pending"]
<1>1. row \in Row
  BY DEF Typed, Row
<1>2. control' = [control EXCEPT ![c] = row]
  BY DEF Accept, Insert
<1>3. /\ control' \in [Controls -> Row] /\ control'[c] = row
      /\ \A d \in Controls \ {c} : control'[d] = control[d]
  <2> HIDE DEF row
  <2> QED BY <1>1, <1>2 DEF Typed
<1>4. /\ latest' = latest + 1 /\ run' = run /\ run \in Active
      /\ control[c].status = "none"
  BY DEF Accept, Insert, NextIndex
<1> QED BY <1>3, <1>4

\* cancel_run_control changes one pending, unclaimed row.
LEMMA RevokeEffect ==
    ASSUME Typed, NEW c \in Controls, Revoke(c)
    PROVE  /\ control' \in [Controls -> Row]
           /\ latest' = latest + 1 /\ run' = run
           /\ control[c].status = "pending" /\ ~control[c].claimed
           /\ control'[c].status = "revoked" /\ control'[c].revision = latest + 1
           /\ ~control'[c].claimed
           /\ \A d \in Controls \ {c} : control'[d] = control[d]
<1>1. /\ Settle(c, "revoked") \in Row
      /\ Settle(c, "revoked").status = "revoked"
      /\ Settle(c, "revoked").revision = latest + 1
      /\ Settle(c, "revoked").claimed = control[c].claimed
  BY SettleEffect DEF Settled
<1>2. /\ control' = [control EXCEPT ![c] = Settle(c, "revoked")]
      /\ latest' = latest + 1 /\ run' = run
      /\ control[c].status = "pending" /\ ~control[c].claimed
  BY DEF Revoke, RevocableRow, Claimable, Pending
<1>3. /\ control' \in [Controls -> Row] /\ control'[c] = Settle(c, "revoked")
      /\ \A d \in Controls \ {c} : control'[d] = control[d]
  BY <1>1, <1>2 DEF Typed
<1> QED BY <1>1, <1>2, <1>3

\* finish_run_controls settles the pending rows among S.
LEMMA ApplyEffect ==
    ASSUME Typed, NEW S \in SUBSET Controls, Apply(S)
    PROVE  /\ control' \in [Controls -> Row]
           /\ latest' \in {latest, latest + 1}
           /\ \A c \in Controls : control'[c].claimed = control[c].claimed
           /\ \A c \in Controls :
                IF c \in S /\ Pending(c)
                THEN /\ control'[c].status = "applied"
                     /\ control'[c].revision = latest + 1 /\ latest' = latest + 1
                ELSE control'[c] = control[c]
<1>1. control' \in [Controls -> Row]
  BY SettleEffect DEF Typed, Apply, Settled
<1>2. ASSUME NEW c \in Controls
      PROVE  /\ control'[c].claimed = control[c].claimed
             /\ IF c \in S /\ Pending(c)
                THEN control'[c].status = "applied" /\ control'[c].revision = latest + 1
                ELSE control'[c] = control[c]
  BY <1>2, SettleEffect DEF Apply, Settled
<1>3. /\ latest' \in {latest, latest + 1}
      /\ \A c \in S : Pending(c) => latest' = latest + 1
  BY DEF Apply
<1> QED BY <1>1, <1>2, <1>3

\* The terminal transaction settles every row that was pending.
LEMMA FinishEffect ==
    ASSUME Typed, NEW status, NEW cause, FinishStore(status, cause)
    PROVE  /\ control' \in [Controls -> Row]
           /\ latest' \in {latest, latest + 1}
           /\ run \in Active /\ run' = status
           /\ \A c \in Controls : control'[c].claimed = control[c].claimed
           /\ \A c \in Controls :
                IF Pending(c)
                THEN /\ control'[c].status = IF c = cause THEN "applied" ELSE "wontapply"
                     /\ control'[c].revision = latest + 1 /\ latest' = latest + 1
                ELSE control'[c] = control[c]
<1>1. control' \in [Controls -> Row]
  BY SettleEffect DEF Typed, FinishStore, Closed, Settled
<1>2. ASSUME NEW c \in Controls
      PROVE  /\ control'[c].claimed = control[c].claimed
             /\ IF Pending(c)
                THEN /\ control'[c].status = IF c = cause THEN "applied" ELSE "wontapply"
                     /\ control'[c].revision = latest + 1
                ELSE control'[c] = control[c]
  BY <1>2, SettleEffect DEF FinishStore, Closed, Settled
<1>3. /\ latest' \in {latest, latest + 1}
      /\ \A c \in Controls : Pending(c) => latest' = latest + 1
      /\ run \in Active /\ run' = status
  BY DEF FinishStore
<1> QED BY <1>1, <1>2, <1>3

\* The first control of a set is one of them.
LEMMA FirstOf ==
    ASSUME ConstantsAssumption, NEW S \in SUBSET Controls
    PROVE  /\ First(S) \in Controls \cup {NoControl}
           /\ S # {} => First(S) \in S
<1>1. CASE S = {}
  BY <1>1 DEF First
<1>2. CASE S # {}
  <2>1. S \subseteq Nat
    BY DEF Controls, ConstantsAssumption
  <2>2. PICK c \in S : \A d \in S : ~(<<d, c>> \in OpToRel(<, Nat))
    BY <1>2, <2>1, NatLessThanWellFounded, WFMin, Zenon
  <2>3. ASSUME NEW d \in S PROVE c <= d
    <3>1. <<d, c>> \in Nat \X Nat => ~(d < c)
      BY <2>2 DEF OpToRel
    <3> QED BY <2>1, <3>1
  <2>4. First(S) \in S
    BY <1>2, <2>3 DEF First
  <2> QED BY <2>4
<1> QED BY <1>1, <1>2

----------------------------------------------------------------------------

USE ConstantsAssumption

\* A refresh caches controls, and its cursor is the latest revision.
LEMMA RefreshType ==
    ASSUME TypeOK, Refresh
    PROVE  cache' \subseteq Controls /\ callbacks' \subseteq Controls /\ cursor' = latest
  BY DEF TypeOK, Refresh, RefreshedCache, RefreshedCallbacks, Changed, ChangedPending

\* _observe_control caches at most the control it is given.
LEMMA ObserveType ==
    ASSUME TypeOK, NEW c \in Controls, NEW status, NEW timing, Observe(c, status, timing)
    PROVE  cache' \subseteq Controls /\ callbacks' \subseteq Controls
  BY DEF TypeOK, Observe
\* Delivering a record touches the cache, or queues a thread's delivery.
LEMMA DeliverType ==
    ASSUME TypeOK, NEW client \in Clients, NEW c \in Controls,
           NEW status \in {"pending", "revoked"}, NEW timing,
           Deliver(client, c, status, timing)
    PROVE  /\ cache' \subseteq Controls /\ callbacks' \subseteq Controls
           /\ cursor' = cursor
           /\ observing' \subseteq Controls \X {"pending", "revoked"}
<1> USE DEF Deliver, TypeOK, registry
<1>1. CASE client = "remote"
  BY <1>1
<1>2. CASE client = "thread"
  BY <1>2
<1>3. CASE client = "loop"
  BY <1>3, ObserveType
<1> QED BY <1>1, <1>2, <1>3

\* Types are preserved by every step.
LEMMA TypeStep == TypeOK /\ [Next]_vars => TypeOK'
<1> SUFFICES ASSUME TypeOK, [Next]_vars PROVE TypeOK'
  OBVIOUS
<1> USE DEF TypeOK, Typed, PCs, Goto, Active, Ended, store, registry, signals, task, published
<1>1. CASE Launch
  BY <1>1 DEF Launch
<1>2. CASE BeginRun
  BY <1>2 DEF BeginRun
<1>3. CASE WantSteers
  BY <1>3, RefreshType DEF WantSteers, CachedSteers, RefreshedCache, ChangedPending, Changed
<1>4. CASE ClaimSteers
  BY <1>4, ClaimEffect DEF ClaimSteers, Claimed
<1>5. CASE BeginStep
  BY <1>5, ApplyEffect DEF BeginStep
<1>6. CASE WantCancel
  <2>1. CachedCancels(RefreshedCache) \in SUBSET Controls
    BY DEF CachedCancels, RefreshedCache, ChangedPending, Changed
  <2>2. wanted' \subseteq Controls
    BY <1>6, <2>1, FirstOf DEF WantCancel
  <2> QED BY <1>6, <2>2, RefreshType DEF WantCancel, AwaitStep
<1>7. CASE ClaimCancel
  BY <1>7, ClaimEffect, FirstOf DEF ClaimCancel, AwaitStep, Claimed
<1>8. CASE BeginTools
  BY <1>8, RefreshType DEF BeginTools
<1>9. CASE WantFinalSteers
  BY <1>9, RefreshType DEF WantFinalSteers, CachedSteers, RefreshedCache, ChangedPending, Changed
<1>10. CASE ClaimFinalSteers
  BY <1>10, ClaimEffect DEF ClaimFinalSteers, Claimed
<1>11. CASE DeliverCancel
  <2>1. cancelRequested' \in BOOLEAN
    BY <1>11, Zenon DEF DeliverCancel
  <2>2. pc' \in PCs
    BY <1>11, SMT DEF DeliverCancel
  <2> QED BY <1>11, <2>1, <2>2 DEF DeliverCancel
<1>12. CASE Unwind
  <2>1. cancelRequested' \in BOOLEAN
    BY <1>12, Zenon DEF Unwind
  <2>2. pc' \in PCs
    BY <1>12, SMT DEF Unwind
  <2> QED BY <1>12, <2>1, <2>2 DEF Unwind
<1>13. CASE HandleCancelled
  BY <1>13, RefreshType DEF HandleCancelled
<1>14. CASE ChooseCause
  BY <1>14, RefreshType, FirstOf DEF ChooseCause, CachedCancels, RefreshedCache, ChangedPending, Changed
<1>15. CASE CancelUnstarted
  <2>1. cancelRequested' \in BOOLEAN
    BY <1>15, Zenon DEF CancelUnstarted
  <2>2. pc' \in PCs
    BY <1>15, SMT DEF CancelUnstarted
  <2> QED BY <1>15, <2>1, <2>2 DEF CancelUnstarted
<1>16. CASE Reap
  BY <1>16, FirstOf DEF Reap
<1>17. CASE FinishRun
  BY <1>17, FinishEffect DEF FinishRun
<1>18. CASE ModelAnswers
  BY <1>18 DEF ModelAnswers
<1>19. CASE ToolEnds
  BY <1>19 DEF ToolEnds
<1>20. CASE Poll
  BY <1>20, RefreshType DEF Poll
<1>21. CASE ExpireLimit
  BY <1>21 DEF ExpireLimit
<1>22. ASSUME NEW c \in Controls, Interrupt(c) PROVE TypeOK'
  <2>1. control' \in [Controls -> Row]
    BY <1>22, ClaimEffect DEF Interrupt
  <2>2. /\ interruption' \in Controls \cup {NoControl} /\ cancelRequested' \in BOOLEAN
        /\ callbacks' \subseteq Controls
    BY <1>22 DEF Interrupt
  <2> QED BY <1>22, <2>1, <2>2 DEF Interrupt
<1>23. ASSUME NEW reason \in Stops, Stop(reason) PROVE TypeOK'
  <2>1. CASE UNCHANGED <<store, cache, callbacks>>
    BY <1>23, <2>1 DEF Stop, CancelTask
  <2>2. CASE \E c \in Controls : /\ Accept(c, "cancel", "immediate")
                                 /\ Observe(c, "pending", "immediate")
    BY <1>23, <2>2, AcceptEffect, ObserveType DEF Stop, CancelTask, Kinds, Timings
  <2> QED BY <1>23, <2>1, <2>2 DEF Stop
<1>24. ASSUME NEW client \in Clients, NEW c \in Controls, NEW request \in Requests,
              Submit(client, c, request[1], request[2])
       PROVE  TypeOK'
  <2>1. request[1] \in Kinds /\ request[2] \in Timings
    OBVIOUS
  <2>2. /\ cache' \subseteq Controls /\ callbacks' \subseteq Controls /\ cursor' = cursor
        /\ observing' \subseteq Controls \X {"pending", "revoked"}
    BY <1>24, DeliverType DEF Submit
  <2>3. control' \in [Controls -> Row] /\ latest' = latest + 1 /\ run' = run
    BY <1>24, <2>1, AcceptEffect DEF Submit
  <2> QED BY <1>24, <2>2, <2>3 DEF Submit
<1>25. ASSUME NEW client \in Clients, NEW c \in Controls, CancelControl(client, c)
       PROVE  TypeOK'
  <2>1. /\ cache' \subseteq Controls /\ callbacks' \subseteq Controls /\ cursor' = cursor
        /\ observing' \subseteq Controls \X {"pending", "revoked"}
    BY <1>25, DeliverType DEF CancelControl
  <2>2. control' \in [Controls -> Row] /\ latest' = latest + 1 /\ run' = run
    BY <1>25, RevokeEffect DEF CancelControl
  <2> QED BY <1>25, <2>1, <2>2 DEF CancelControl
<1>26. ASSUME NEW c \in Controls, NEW status \in {"pending", "revoked"},
              ObserveThread(c, status)
       PROVE  TypeOK'
  <2>1. cache' \subseteq Controls /\ callbacks' \subseteq Controls
    BY <1>26, ObserveType DEF ObserveThread
  <2> QED BY <1>26, <2>1 DEF ObserveThread
<1>27. CASE UNCHANGED vars
  BY <1>27 DEF vars
<1> QED BY ONLY [Next]_vars, <1>1, <1>2, <1>3, <1>4, <1>5, <1>6, <1>7, <1>8, <1>9, <1>10, <1>11, <1>12, <1>13, <1>14, <1>15, <1>16, <1>17, <1>18, <1>19, <1>20, <1>21, <1>22, <1>23, <1>24, <1>25, <1>26, <1>27 DEF Next, Slice, External, Loop, Client
----------------------------------------------------------------------------

\* The inductive invariant: besides the properties, revisions never exceed
\* the issued ones, a claim outlives only as a pending or an answered row,
\* the run ends exactly when its task is done, a thread about to deliver a
\* withdrawal delivers what is in the database, and the cursor is below every
\* row that is still to be cached.
RowsInv ==
    \A c \in Controls :
        /\ control[c].revision <= latest
        /\ control[c].status # "none" => control[c].revision > 0
        /\ control[c].claimed => control[c].status \in {"pending", "applied", "wontapply"}

PhaseInv ==
    /\ run \in Ended <=> pc = "done"
    /\ pc = "accepted" => cursor = 0

ObservedInv ==
    \A c \in Controls : <<c, "revoked">> \in observing => control[c].status = "revoked"

CursorInv ==
    pc # "done" => \A c \in Controls :
        Pending(c) /\ control[c].revision <= cursor => c \in cache

AdoptedInv ==
    /\ \A c \in adopted : control[c].status = "applied"
    /\ \A c \in claimedInputs : control[c].claimed /\ (Pending(c) \/ run \in Ended)

Inv ==
    /\ TypeOK /\ RowsInv /\ PhaseInv /\ ObservedInv /\ CursorInv /\ AdoptedInv
    /\ EndedRunSettlesControls

\* The initial state satisfies the invariant.
LEMMA InitInv == Init => Inv
<1> SUFFICES ASSUME Init PROVE Inv
  OBVIOUS
<1>1. control \in [Controls -> Row]
  BY DEF Init, Row, Kinds, Timings
<1>2. \A c \in Controls : /\ control[c].status = "none" /\ ~control[c].claimed
                          /\ control[c].revision = 0
  BY DEF Init
<1>3. TypeOK
  <2>1. /\ run = "pending" /\ latest = 0 /\ cursor = 0 /\ pc = "accepted"
        /\ step = "model" /\ outcome = "failed"
        /\ ~stopped /\ ~limit /\ ~cancelRequested
        /\ stopped \in BOOLEAN /\ limit \in BOOLEAN /\ cancelRequested \in BOOLEAN
    BY DEF Init
  <2>2. /\ cache = {} /\ callbacks = {} /\ observing = {} /\ wanted = {}
        /\ claimedInputs = {} /\ adopted = {}
        /\ interruption = NoControl /\ chosen = NoControl /\ reported = NoControl
    BY DEF Init
  <2> QED BY <1>1, <2>1, <2>2 DEF TypeOK, Active, Ended, PCs
<1>4. RowsInv /\ PhaseInv /\ ObservedInv /\ CursorInv /\ AdoptedInv
  BY <1>2 DEF Init, RowsInv, PhaseInv, ObservedInv, CursorInv, AdoptedInv, Pending, Ended
<1>5. EndedRunSettlesControls
  BY <1>2 DEF EndedRunSettlesControls, Pending
<1> QED BY <1>3, <1>4, <1>5 DEF Inv

\* A refresh caches every pending row the cursor passes.
LEMMA RefreshCursor ==
    ASSUME Inv, Refresh, pc # "done", NEW c \in Controls, Pending(c)
    PROVE  c \in cache'
<1>1. CASE control[c].revision <= cursor
  BY <1>1 DEF Inv, CursorInv, Refresh, RefreshedCache, Changed, ChangedPending
<1>2. CASE control[c].revision > cursor
  BY <1>2 DEF Refresh, RefreshedCache, Changed, ChangedPending, Pending
<1>3. control[c].revision \in Nat /\ cursor \in Nat
  BY DEF Inv, TypeOK, Row
<1> QED BY <1>1, <1>2, <1>3

\* Steps that leave the database and what was adopted alone.
LEMMA QuietStep ==
    ASSUME Inv, TypeOK', UNCHANGED <<store, claimedInputs, adopted>>,
           \A c \in Controls : <<c, "revoked">> \in observing' => <<c, "revoked">> \in observing
                                   \/ control[c].status = "revoked",
           pc' = "done" <=> pc = "done", pc' = "accepted" => pc = "accepted" /\ cursor' = cursor,
           \/ pc # "done" /\ Refresh
           \/ /\ cursor' = cursor
              /\ \A c \in cache : c \in cache' \/ control[c].status # "pending"
    PROVE  Inv'
<1> USE DEF store
<1>1. RowsInv' /\ PhaseInv' /\ ObservedInv' /\ AdoptedInv' /\ EndedRunSettlesControls'
  BY DEF Inv, RowsInv, PhaseInv, ObservedInv, AdoptedInv, EndedRunSettlesControls, Pending
<1>2. CursorInv'
  <2>1. CASE pc # "done" /\ Refresh
    BY <2>1, RefreshCursor DEF CursorInv, Pending
  <2>2. CASE /\ cursor' = cursor
             /\ \A c \in cache : c \in cache' \/ control[c].status # "pending"
    BY <2>2 DEF Inv, CursorInv, Pending
  <2> QED BY <2>1, <2>2
<1> QED BY <1>1, <1>2 DEF Inv

\* Steps whose only change of the database is a claim.
LEMMA ClaimStep ==
    ASSUME Inv, TypeOK', NEW S \in SUBSET Controls, Claim(S),
           UNCHANGED <<run, latest, cursor, cache, observing, adopted>>,
           claimedInputs' \subseteq claimedInputs \cup Claimed(S),
           pc' = "done" <=> pc = "done", pc' = "accepted" <=> pc = "accepted"
    PROVE  Inv'
<1>1. /\ \A c \in Controls : SameRow(c)
      /\ \A c \in Controls : control'[c].claimed <=> control[c].claimed \/ c \in Claimed(S)
  BY ClaimEffect DEF Inv, TypeOK, Typed
<1>2. \A c \in Claimed(S) : c \in Controls /\ Pending(c)
  BY DEF Claimed, Claimable
<1>3. RowsInv' /\ PhaseInv' /\ ObservedInv' /\ CursorInv' /\ EndedRunSettlesControls'
  BY <1>1, <1>2 DEF Inv, RowsInv, PhaseInv, ObservedInv, CursorInv,
                    EndedRunSettlesControls, Pending, SameRow
<1>4. AdoptedInv'
  BY <1>1, <1>2 DEF Inv, TypeOK, AdoptedInv, Pending, SameRow
<1> QED BY <1>3, <1>4 DEF Inv

\* Clients' transactions, whatever they do to the cache afterwards.
LEMMA AcceptStep ==
    ASSUME Inv, TypeOK', NEW c \in Controls, NEW kind \in Kinds, NEW timing \in Timings,
           Accept(c, kind, timing), UNCHANGED <<cursor, pc, claimedInputs, adopted>>,
           cache \subseteq cache',
           \A d \in Controls : <<d, "revoked">> \in observing' => <<d, "revoked">> \in observing
    PROVE  Inv'
<1>1. /\ latest' = latest + 1 /\ run' = run /\ run \in Active
      /\ control[c].status = "none"
      /\ control'[c].status = "pending" /\ control'[c].revision = latest + 1
      /\ ~control'[c].claimed
      /\ \A d \in Controls \ {c} : control'[d] = control[d]
  BY AcceptEffect DEF Inv, TypeOK, Typed
<1>2. latest \in Nat /\ cursor <= latest /\ \A d \in Controls : control[d].revision \in Nat
  BY DEF Inv, TypeOK, Row
<1>3. RowsInv'
  BY <1>1, <1>2 DEF Inv, RowsInv
<1>4. PhaseInv' /\ EndedRunSettlesControls'
  BY <1>1 DEF Inv, PhaseInv, EndedRunSettlesControls, Active, Ended
<1>5. ObservedInv'
  BY <1>1 DEF Inv, ObservedInv
<1>6. CursorInv'
  BY <1>1, <1>2 DEF Inv, TypeOK, CursorInv, Pending
<1>7. AdoptedInv'
  <2>1. c \notin adopted
    BY <1>1 DEF Inv, AdoptedInv
  <2>2. c \notin claimedInputs
    BY <1>1 DEF Inv, AdoptedInv, Pending, Active, Ended
  <2> QED BY <1>1, <2>1, <2>2 DEF Inv, TypeOK, AdoptedInv, Pending
<1> QED BY <1>3, <1>4, <1>5, <1>6, <1>7 DEF Inv

LEMMA RevokeStep ==
    ASSUME Inv, TypeOK', NEW c \in Controls, Revoke(c),
           UNCHANGED <<cursor, pc, claimedInputs, adopted>>,
           cache \ {c} \subseteq cache',
           \A d \in Controls : <<d, "revoked">> \in observing' =>
                <<d, "revoked">> \in observing \/ d = c
    PROVE  Inv'
<1>1. /\ latest' = latest + 1 /\ run' = run
      /\ control[c].status = "pending" /\ ~control[c].claimed
      /\ control'[c].status = "revoked" /\ control'[c].revision = latest + 1
      /\ ~control'[c].claimed
      /\ \A d \in Controls \ {c} : control'[d] = control[d]
  BY RevokeEffect DEF Inv, TypeOK, Typed
<1>2. latest \in Nat /\ cursor <= latest /\ \A d \in Controls : control[d].revision \in Nat
  BY DEF Inv, TypeOK, Row
<1>3. RowsInv'
  BY <1>1, <1>2 DEF Inv, RowsInv
<1>4. PhaseInv' /\ EndedRunSettlesControls'
  BY <1>1 DEF Inv, PhaseInv, EndedRunSettlesControls, Pending
<1>5. ObservedInv'
  BY <1>1 DEF Inv, ObservedInv
<1>6. CursorInv'
  BY <1>1, <1>2 DEF Inv, CursorInv, Pending
<1>7. AdoptedInv'
  <2>1. c \notin adopted /\ c \notin claimedInputs
    BY <1>1 DEF Inv, AdoptedInv
  <2> QED BY <1>1, <2>1 DEF Inv, TypeOK, AdoptedInv, Pending
<1> QED BY <1>3, <1>4, <1>5, <1>6, <1>7 DEF Inv

\* A model Step takes the claimed steers and applies them in one transaction.
LEMMA BeginStepStep == Inv /\ TypeOK' /\ BeginStep => Inv'
<1> SUFFICES ASSUME Inv, TypeOK', BeginStep PROVE Inv'
  OBVIOUS
<1>1. /\ latest' \in {latest, latest + 1} /\ run' = run
      /\ \A c \in Controls : control'[c].claimed = control[c].claimed
      /\ \A c \in Controls :
            IF c \in claimedInputs /\ Pending(c)
            THEN /\ control'[c].status = "applied"
                 /\ control'[c].revision = latest + 1 /\ latest' = latest + 1
            ELSE control'[c] = control[c]
  BY ApplyEffect DEF Inv, TypeOK, Typed, BeginStep
<1>2. latest \in Nat /\ \A d \in Controls : control[d].revision \in Nat
  BY DEF Inv, TypeOK, Row
<1>3. \A c \in claimedInputs : c \in Controls /\ Pending(c)
  BY DEF Inv, TypeOK, AdoptedInv, PhaseInv, BeginStep
<1>4. RowsInv'
  BY <1>1, <1>2 DEF Inv, RowsInv
<1>5. PhaseInv' /\ EndedRunSettlesControls'
  BY <1>1 DEF Inv, PhaseInv, EndedRunSettlesControls, Pending, BeginStep, Goto
<1>6. ObservedInv'
  BY <1>1 DEF Inv, ObservedInv, Pending, BeginStep
<1>7. CursorInv'
  BY <1>1, <1>3 DEF Inv, CursorInv, Pending, BeginStep, Goto
<1>8. AdoptedInv'
  BY <1>1, <1>3 DEF Inv, TypeOK, AdoptedInv, Pending, BeginStep
<1> QED BY <1>4, <1>5, <1>6, <1>7, <1>8 DEF Inv

\* The terminal transaction.
LEMMA FinishStep == Inv /\ TypeOK' /\ FinishRun => Inv'
<1> SUFFICES ASSUME Inv, TypeOK', FinishRun PROVE Inv'
  OBVIOUS
<1>1. /\ latest' \in {latest, latest + 1} /\ run \in Active /\ run' = outcome
      /\ \A c \in Controls : control'[c].claimed = control[c].claimed
      /\ \A c \in Controls :
            IF Pending(c)
            THEN /\ control'[c].status = IF c = chosen THEN "applied" ELSE "wontapply"
                 /\ control'[c].revision = latest + 1 /\ latest' = latest + 1
            ELSE control'[c] = control[c]
  BY FinishEffect DEF Inv, TypeOK, Typed, FinishRun
<1>2. latest \in Nat /\ \A d \in Controls : control[d].revision \in Nat
  BY DEF Inv, TypeOK, Row
<1>3. run' \in Ended
  BY <1>1 DEF Inv, TypeOK
<1>4. \A c \in Controls : ~Pending(c)'
  BY <1>1 DEF Pending
<1>5. RowsInv'
  BY <1>1, <1>2 DEF Inv, RowsInv
<1>6. PhaseInv' /\ EndedRunSettlesControls' /\ CursorInv'
  BY <1>3, <1>4 DEF PhaseInv, EndedRunSettlesControls, CursorInv, FinishRun, Goto
<1>7. ObservedInv'
  BY <1>1 DEF Inv, ObservedInv, Pending, FinishRun
<1>8. AdoptedInv'
  BY <1>1, <1>3 DEF Inv, TypeOK, AdoptedInv, Pending, FinishRun
<1> QED BY <1>5, <1>6, <1>7, <1>8 DEF Inv

\* The invariant is preserved by every step.
LEMMA NextInv == Inv /\ [Next]_vars => Inv'
<1> SUFFICES ASSUME Inv, [Next]_vars PROVE Inv'
  OBVIOUS
<1> TypeOK'
  BY TypeStep DEF Inv
<1> USE DEF store, registry, signals, task, published, Goto
<1>1. CASE Launch \/ DeliverCancel \/ Unwind \/ CancelUnstarted \/ Reap
  BY <1>1, QuietStep DEF Launch, DeliverCancel, Unwind, CancelUnstarted, Reap
<1>2. CASE WantSteers \/ BeginTools \/ WantFinalSteers
  BY <1>2, QuietStep DEF WantSteers, BeginTools, WantFinalSteers
<1>3. CASE WantCancel
  BY <1>3, QuietStep DEF WantCancel, AwaitStep
<1>4. CASE HandleCancelled \/ ChooseCause
  BY <1>4, QuietStep DEF HandleCancelled, ChooseCause
<1>5. CASE ModelAnswers \/ ToolEnds \/ ExpireLimit
  BY <1>5, QuietStep DEF ModelAnswers, ToolEnds, ExpireLimit
<1>6. CASE Poll
  <2>1. /\ Refresh /\ pc # "done"
        /\ UNCHANGED <<store, claimedInputs, adopted, observing, pc>>
    BY <1>6 DEF Poll
  <2>2. pc' = "accepted" => pc = "accepted" /\ cursor' = cursor
    BY <1>6, <2>1 DEF Poll, Suspended
  <2> QED BY <2>1, <2>2, QuietStep
<1>7. CASE BeginRun
  BY <1>7 DEF BeginRun, Inv, RowsInv, PhaseInv, ObservedInv, CursorInv, AdoptedInv,
              EndedRunSettlesControls, Pending, Ended
<1>8. CASE ClaimSteers \/ ClaimCancel \/ ClaimFinalSteers
  BY <1>8, ClaimStep DEF ClaimSteers, ClaimCancel, ClaimFinalSteers, AwaitStep, Inv, TypeOK
<1>9. CASE BeginStep
  BY <1>9, BeginStepStep
<1>10. CASE FinishRun
  BY <1>10, FinishStep
<1>11. ASSUME NEW c \in Controls, Interrupt(c) PROVE Inv'
  <2>1. CASE UNCHANGED control
    BY <1>11, <2>1, QuietStep DEF Interrupt
  <2>2. CASE Claim({c})
    BY <1>11, <2>2, ClaimStep DEF Interrupt
  <2> QED BY <1>11, <2>1, <2>2 DEF Interrupt
<1>12. ASSUME NEW reason \in Stops, Stop(reason) PROVE Inv'
  <2>1. CASE UNCHANGED <<store, cache, callbacks>>
    BY <1>12, <2>1, QuietStep DEF Stop
  <2>2. CASE \E c \in Controls : /\ Accept(c, "cancel", "immediate")
                                 /\ Observe(c, "pending", "immediate")
    <3>1. PICK c \in Controls : /\ Accept(c, "cancel", "immediate")
                                /\ Observe(c, "pending", "immediate")
      BY <2>2
    <3>2. cache \subseteq cache'
      BY <3>1 DEF Observe
    <3> QED BY <1>12, <3>1, <3>2, AcceptStep DEF Stop, Kinds, Timings
  <2> QED BY <1>12, <2>1, <2>2 DEF Stop
<1>13. ASSUME NEW client \in Clients, NEW c \in Controls, NEW request \in Requests,
              Submit(client, c, request[1], request[2])
       PROVE  Inv'
  <2>1. request[1] \in Kinds /\ request[2] \in Timings
    OBVIOUS
  <2>2. /\ cache \subseteq cache' /\ cursor' = cursor
        /\ \A d \in Controls : <<d, "revoked">> \in observing' => <<d, "revoked">> \in observing
    <3>1. CASE client = "remote"
      BY <1>13, <3>1 DEF Submit, Deliver
    <3>2. CASE client = "thread"
      BY <1>13, <3>2 DEF Submit, Deliver
    <3>3. CASE client = "loop"
      BY <1>13, <3>3 DEF Submit, Deliver, Observe
    <3> QED BY <3>1, <3>2, <3>3
  <2> QED BY <1>13, <2>1, <2>2, AcceptStep DEF Submit
<1>14. ASSUME NEW client \in Clients, NEW c \in Controls, CancelControl(client, c)
       PROVE  Inv'
  <2>1. /\ cache \ {c} \subseteq cache' /\ cursor' = cursor
        /\ \A d \in Controls : <<d, "revoked">> \in observing' =>
                <<d, "revoked">> \in observing \/ d = c
    <3>1. CASE client = "remote"
      BY <1>14, <3>1 DEF CancelControl, Deliver
    <3>2. CASE client = "thread"
      BY <1>14, <3>2 DEF CancelControl, Deliver
    <3>3. CASE client = "loop"
      BY <1>14, <3>3 DEF CancelControl, Deliver, Observe
    <3> QED BY <3>1, <3>2, <3>3
  <2> QED BY <1>14, <2>1, RevokeStep DEF CancelControl
<1>15. ASSUME NEW c \in Controls, NEW status \in {"pending", "revoked"},
              ObserveThread(c, status)
       PROVE  Inv'
  <2>1. \A d \in cache : d \in cache' \/ control[d].status # "pending"
    BY <1>15 DEF ObserveThread, Observe, Inv, ObservedInv
  <2> QED BY <1>15, <2>1, QuietStep DEF ObserveThread
<1>16. CASE UNCHANGED vars
  BY <1>16, QuietStep DEF vars
<1> QED
  BY ONLY [Next]_vars, <1>1, <1>2, <1>3, <1>4, <1>5, <1>6, <1>7, <1>8, <1>9, <1>10, <1>11,
     <1>12, <1>13, <1>14, <1>15, <1>16 DEF Next, Slice, External, Loop, Client

----------------------------------------------------------------------------

\* Every reachable state satisfies the invariant.
LEMMA InvHolds == Spec => []Inv
<1> QED BY InitInv, NextInv, PTL DEF Spec

\* The run's row, the controls, the owner's registry and its task hold values
\* of their types, and the polling cursor is a revision the store has issued.
THEOREM TypesHold == Spec => []TypeOK
<1>1. Inv => TypeOK
  BY DEF Inv
<1> QED BY <1>1, InvHolds, PTL

\* Whatever was submitted while the run was active is applied, closed or
\* withdrawn once it ends, however acceptances race the terminal transaction
\* of _finish_run.
THEOREM EndSettles == Spec => []EndedRunSettlesControls
<1>1. Inv => EndedRunSettlesControls
  BY DEF Inv
<1> QED BY <1>1, InvHolds, PTL

\* A claim and a withdrawal of one control never both succeed: what the model
\* consumed is applied, and what is claimed for it is not revoked.
THEOREM ClaimsWin == Spec => []AdoptedIsApplied
<1>1. Inv => AdoptedIsApplied
  BY DEF Inv, RowsInv, AdoptedInv, AdoptedIsApplied
<1> QED BY <1>1, InvHolds, PTL

\* The owner's cursor passes no live control it has not cached, with any
\* number of processes, worker threads and loop code writing controls.
THEOREM NothingIsLost == Spec => []NoControlIsLost
<1>1. Inv => NoControlIsLost
  BY DEF Inv, CursorInv, NoControlIsLost, Registered
<1> QED BY <1>1, InvHolds, PTL

----------------------------------------------------------------------------

\* What any step does to the database: nothing, or one transaction.
Transaction ==
    \/ UNCHANGED store
    \/ pc = "launch" /\ run' = "running" /\ UNCHANGED <<control, latest>>
    \/ \E S \in SUBSET Controls : pc # "done" /\ Claim(S) /\ UNCHANGED <<run, latest>>
    \/ BeginStep
    \/ FinishRun
    \/ \E c \in Controls, kind \in Kinds, timing \in Timings : Accept(c, kind, timing)
    \/ \E c \in Controls : Revoke(c)

\* Every step is at most one of those transactions.
LEMMA OneTransaction == Inv /\ [Next]_vars => Transaction
<1> SUFFICES ASSUME Inv, [Next]_vars PROVE Transaction
  OBVIOUS
<1> USE DEF Transaction, store, Goto
<1>1. CASE \/ Launch \/ DeliverCancel \/ Unwind \/ CancelUnstarted \/ Reap
           \/ WantSteers \/ BeginTools \/ WantFinalSteers \/ WantCancel
           \/ HandleCancelled \/ ChooseCause
  BY <1>1 DEF Launch, DeliverCancel, Unwind, CancelUnstarted, Reap, WantSteers,
     BeginTools, WantFinalSteers, WantCancel, HandleCancelled, ChooseCause
<1>2. CASE External \/ Poll \/ ExpireLimit
  BY <1>2 DEF External, ModelAnswers, ToolEnds, Poll, ExpireLimit
<1>3. CASE BeginRun \/ BeginStep \/ FinishRun
  BY <1>3 DEF BeginRun
<1>4. CASE ClaimSteers \/ ClaimCancel \/ ClaimFinalSteers
  <2>1. wanted \in SUBSET Controls /\ Claim(wanted) /\ pc # "done" /\ UNCHANGED <<run, latest>>
    BY <1>4 DEF ClaimSteers, ClaimCancel, ClaimFinalSteers, Inv, TypeOK
  <2> QED BY <2>1
<1>5. ASSUME NEW c \in Controls, Interrupt(c) PROVE Transaction
  <2>1. CASE UNCHANGED control
    BY <1>5, <2>1 DEF Interrupt
  <2>2. CASE Claim({c}) /\ Interrupts(c)
    BY <1>5, <2>2 DEF Interrupt, Interrupts, Live
  <2> QED BY <1>5, <2>1, <2>2 DEF Interrupt
<1>6. ASSUME NEW reason \in Stops, Stop(reason) PROVE Transaction
  BY <1>6 DEF Stop, Kinds, Timings
<1>7. ASSUME NEW client \in Clients, NEW c \in Controls, NEW request \in Requests,
             Submit(client, c, request[1], request[2])
      PROVE  Transaction
  BY <1>7 DEF Submit
<1>8. CASE \E client \in Clients, c \in Controls : CancelControl(client, c)
  BY <1>8 DEF CancelControl
<1>9. CASE \E c \in Controls, status \in {"pending", "revoked"} : ObserveThread(c, status)
  BY <1>9 DEF ObserveThread
<1>10. CASE UNCHANGED vars
  BY <1>10 DEF vars
<1> QED
  BY ONLY [Next]_vars, <1>1, <1>2, <1>3, <1>4, <1>5, <1>6, <1>7, <1>8, <1>9, <1>10
     DEF Next, Slice, External, Loop, Client

\* A settled row and an ended run never change again.
LEMMA FinalStep ==
    Inv /\ [Next]_vars =>
        /\ run \in Ended => run' = run
        /\ \A c \in Controls : control[c].status \in Settled => control'[c] = control[c]
<1> SUFFICES ASSUME Inv, Transaction
             PROVE  /\ run \in Ended => run' = run
                    /\ \A c \in Controls :
                            control[c].status \in Settled => control'[c] = control[c]
  BY OneTransaction
<1> USE DEF Settled, Inv, TypeOK, Typed
<1>1. CASE UNCHANGED store
  BY <1>1 DEF store
<1>2. CASE pc = "launch" /\ run' = "running" /\ UNCHANGED <<control, latest>>
  BY <1>2 DEF PhaseInv
<1>3. ASSUME NEW S \in SUBSET Controls, Claim(S), UNCHANGED <<run, latest>>
      PROVE  /\ run' = run
             /\ \A c \in Controls :
                    control[c].status \in Settled => control'[c] = control[c]
  BY <1>3 DEF Claim, Claimed, Claimable, Pending
<1>4. CASE BeginStep
  BY <1>4, ApplyEffect DEF BeginStep, Pending
<1>5. CASE FinishRun
  BY <1>5, FinishEffect DEF FinishRun, Pending, Active, Ended
<1>6. ASSUME NEW c \in Controls, NEW kind \in Kinds, NEW timing \in Timings,
             Accept(c, kind, timing)
      PROVE  /\ run' = run
             /\ \A d \in Controls :
                    control[d].status \in Settled => control'[d] = control[d]
  BY <1>6, AcceptEffect
<1>7. ASSUME NEW c \in Controls, Revoke(c)
      PROVE  /\ run' = run
             /\ \A d \in Controls :
                    control[d].status \in Settled => control'[d] = control[d]
  BY <1>7, RevokeEffect
<1> QED BY ONLY Transaction, <1>1, <1>2, <1>3, <1>4, <1>5, <1>6, <1>7 DEF Transaction

\* No process changes a settled control or the status of an ended run.
THEOREM SettledStaysSettled == Spec => SettledIsFinal
<1>1. Inv /\ [Next]_vars =>
        [/\ run \in Ended => run' = run
         /\ \A c \in Controls :
                control[c].status \in Settled => control'[c] = control[c]]_vars
  BY FinalStep
<1>2. Spec => [][/\ run \in Ended => run' = run
                 /\ \A c \in Controls :
                        control[c].status \in Settled => control'[c] = control[c]]_vars
  BY <1>1, InvHolds, PTL DEF Spec
<1> QED BY <1>2 DEF SettledIsFinal

----------------------------------------------------------------------------

\* The database's view of the contract: its state, and one step of it for
\* every transaction of the store.
statuses == [c \in Controls |-> control[c].status]
holds == {c \in Controls : control[c].claimed}

LEMMA ContractStep == Inv /\ Inv' /\ [Next]_vars =>
        [Contract!Next]_<<run \in Active, statuses, holds>>
<1> SUFFICES ASSUME Inv, Inv', Transaction
             PROVE  Contract!Next \/ UNCHANGED <<run \in Active, statuses, holds>>
  BY OneTransaction
<1> USE DEF statuses, holds
<1>0. Typed
  BY DEF Inv, TypeOK, Typed
<1>1. CASE UNCHANGED store
  BY <1>1 DEF store
<1>2. CASE pc = "launch" /\ run' = "running" /\ UNCHANGED <<control, latest>>
  BY <1>2 DEF Inv, TypeOK, PhaseInv, Active, Ended
<1>3. ASSUME NEW S \in SUBSET Controls, pc # "done", Claim(S), UNCHANGED <<run, latest>>
      PROVE  Contract!Next
  <2>1. Contract!Hold(Claimed(S))
    <3>1. (run \in Active)' = (run \in Active) /\ run \in Active
      BY <1>3 DEF Inv, TypeOK, PhaseInv
    <3>2. Claimed(S) \subseteq Contract!Unsettled
      BY DEF Claimed, Claimable, Pending, Contract!Unsettled
    <3>3. holds' = holds \cup Claimed(S)
      BY <1>0, <1>3, ClaimEffect DEF Claimed
    <3>4. statuses' = statuses
      BY <1>0, <1>3, ClaimEffect DEF SameRow
    <3> QED BY <3>1, <3>2, <3>3, <3>4 DEF Contract!Hold
  <2>2. Claimed(S) \in SUBSET Controls
    BY DEF Claimed
  <2> QED BY <2>1, <2>2 DEF Contract!Next, Contract!Hold
<1>4. CASE BeginStep
  <2>1. /\ \A c \in Controls : control'[c].claimed = control[c].claimed
        /\ \A c \in Controls :
                IF c \in claimedInputs /\ Pending(c)
                THEN control'[c].status = "applied" ELSE control'[c] = control[c]
    BY <1>0, <1>4, ApplyEffect DEF BeginStep, Inv, TypeOK
  <2>2. run \in Active /\ run' = run /\ claimedInputs \in SUBSET Controls
        /\ \A c \in claimedInputs : control[c].claimed /\ Pending(c)
    BY <1>4 DEF BeginStep, Inv, TypeOK, PhaseInv, AdoptedInv
  <2>3. Contract!Apply(claimedInputs)
    <3>1. claimedInputs \subseteq Contract!Unsettled \cap holds
      BY <2>2 DEF Contract!Unsettled, Pending
    <3>2. statuses' = [c \in Controls |-> IF c \in claimedInputs THEN "applied" ELSE statuses[c]]
      BY <2>1, <2>2 DEF Pending
    <3>3. holds' = holds
      BY <2>1
    <3> QED BY <2>2, <3>1, <3>2, <3>3 DEF Contract!Apply
  <2> QED BY <2>2, <2>3 DEF Contract!Next, Contract!Apply
<1>5. CASE FinishRun
  <2>1. /\ run \in Active /\ run' \in Ended
        /\ \A c \in Controls : control'[c].claimed = control[c].claimed
        /\ \A c \in Controls :
                IF Pending(c)
                THEN control'[c].status = IF c = chosen THEN "applied" ELSE "wontapply"
                ELSE control'[c] = control[c]
    BY <1>0, <1>5, FinishEffect DEF FinishRun, Inv, TypeOK
  <2>2. Contract!Close(chosen)
    <3>1. (run \in Active)' = FALSE /\ (run \in Active) = TRUE
      BY <2>1 DEF Active, Ended
    <3>2. statuses' = [c \in Controls |->
            IF c \notin Contract!Unsettled THEN statuses[c]
            ELSE IF c = chosen THEN "applied" ELSE "wontapply"]
      BY <2>1 DEF Contract!Unsettled, Pending
    <3>3. holds' = holds
      BY <2>1
    <3> QED BY <3>1, <3>2, <3>3 DEF Contract!Close
  <2>3. chosen \in Controls \cup {0}
    BY DEF Inv, TypeOK, NoControl
  <2> QED BY <2>2, <2>3 DEF Contract!Next, Contract!Close
<1>6. ASSUME NEW c \in Controls, NEW kind \in Kinds, NEW timing \in Timings,
             Accept(c, kind, timing)
      PROVE  Contract!Next
  <2>1. /\ run' = run /\ run \in Active /\ control[c].status = "none"
        /\ control'[c].status = "pending" /\ ~control'[c].claimed
        /\ \A d \in Controls \ {c} : control'[d] = control[d]
    BY <1>0, <1>6, AcceptEffect
  <2>2. ~control[c].claimed
    BY <2>1 DEF Inv, RowsInv
  <2>3. Contract!Submit(c)
    <3>1. statuses' = [statuses EXCEPT ![c] = "pending"]
      BY <2>1
    <3>2. holds' = holds
      BY <2>1, <2>2
    <3> QED BY <2>1, <3>1, <3>2 DEF Contract!Submit
  <2> QED BY <2>3 DEF Contract!Next
<1>7. ASSUME NEW c \in Controls, Revoke(c) PROVE Contract!Next
  <2>1. /\ run' = run
        /\ control[c].status = "pending" /\ ~control[c].claimed
        /\ control'[c].status = "revoked" /\ ~control'[c].claimed
        /\ \A d \in Controls \ {c} : control'[d] = control[d]
    BY <1>0, <1>7, RevokeEffect
  <2>2. Contract!Withdraw(c)
    <3>1. statuses' = [statuses EXCEPT ![c] = "revoked"]
      BY <2>1
    <3>2. holds' = holds
      BY <2>1
    <3>3. c \in Contract!Unsettled \ holds
      BY <2>1 DEF Contract!Unsettled
    <3> QED BY <2>1, <3>1, <3>2, <3>3 DEF Contract!Withdraw
  <2> QED BY <2>2 DEF Contract!Next
<1> QED BY ONLY Transaction, <1>1, <1>2, <1>3, <1>4, <1>5, <1>6, <1>7 DEF Transaction

\* Whatever the owner, its loop and its clients do, the database alone
\* behaves as the contract promises: controls are accepted only while the run
\* is open, settle once, are withdrawn only until the runtime holds them, and
\* are all answered by the transaction that closes the run.
THEOREM DatabaseKeepsContract == Spec => KeepsContract
<1>1. Init => Contract!Init
  BY DEF Init, Contract!Init, Active, statuses, holds
<1>2. Inv /\ Inv' /\ [Next]_vars =>
        [Contract!Next]_<<run \in Active, statuses, holds>>
  BY ContractStep
<1>3. Spec => Contract!Init /\ [][Contract!Next]_<<run \in Active, statuses, holds>>
  BY <1>1, <1>2, InvHolds, PTL DEF Spec
<1> QED BY <1>3, PTL DEF KeepsContract, Contract!Spec, statuses, holds
====
