---- MODULE RunEndingProofs ----
(***************************************************************************)
(* Proofs about how a run ends: what a task that has been told to end may  *)
(* still do, and what the end is for.  They rest on the invariant of       *)
(* RunControlsProofs and on a second one about the signals of the task,    *)
(* which the first one needs nothing of.                                   *)
(***************************************************************************)
EXTENDS RunControlsProofs

USE ConstantsAssumption

Exists(c) == c # NoControl /\ control[c].status # "none"
Withdrawn == \E c \in Controls : control[c].status = "revoked"
WithdrawnCancel == \E c \in Controls : IsA(c, "cancel") /\ control[c].status = "revoked"
LiveCancel == \E c \in Controls : Pending(c) /\ IsA(c, "cancel")

\* What is collected for a model Step are steers, what is claimed to cancel is
\* a cancel, and a steer that interrupts the task is immediate.
KindInv ==
    /\ \A c \in claimedInputs : IsA(c, "steer")
    /\ pc \in {"claiming", "settling"} => \A c \in wanted : Exists(c) /\ IsA(c, "steer")
    /\ pc = "claimCancel" =>
            wanted # {} /\ \A c \in wanted : Exists(c) /\ IsA(c, "cancel") /\ wanted = {c}
    /\ \A c \in cache : Exists(c)
    /\ \A c \in callbacks : Exists(c) /\ control[c].timing = "immediate"
    /\ \A c \in Controls, status \in {"pending", "revoked"} :
            <<c, status>> \in observing => Exists(c)
    /\ interruption # NoControl =>
            /\ Exists(interruption)
            /\ IsA(interruption, "steer") => control[interruption].timing = "immediate"

\* While the run goes on a cancel is pending or withdrawn.
CancelsInv ==
    pc # "done" => \A c \in Controls :
        IsA(c, "cancel") => control[c].status \in {"none", "pending", "revoked"}

\* A task that has been told to end goes on only to its end.
Ending ==
    \/ pc \in {"call", "tool"} /\ cancelRequested
    \/ pc \in {"unwinding", "interrupted", "canceling", "finishing", "done"}
EndingInv ==
    /\ cancelRequested => pc \in {"launch", "call", "tool", "unwinding"}
    /\ limit \/ IsA(interruption, "cancel") => Ending
    /\ IsA(interruption, "cancel") => control[interruption].claimed
    /\ \A c \in Controls :
            Pending(c) /\ IsA(c, "cancel") /\ control[c].claimed => IsA(interruption, "cancel")

\* The control that the terminal facts will name.
ChosenInv ==
    /\ chosen # NoControl => pc \in {"interrupted", "canceling", "finishing", "reaping", "done"}
    /\ chosen # NoControl /\ pc # "done" =>
            IsA(chosen, "cancel") /\ control[chosen].status \in {"pending", "revoked"}
    /\ chosen # NoControl /\ pc = "interrupted" => IsA(interruption, "cancel")

\* What the CancelledError is for, from the call of task.cancel() to the end,
\* when neither stop() nor a withdrawal may be the reason.
Caused ==
    /\ ~(pc = "launch" /\ cancelRequested) /\ pc \notin {"cancelled", "reaping"}
    /\ cancelRequested \/ pc \in {"unwinding", "interrupted"} =>
            limit \/ (interruption # NoControl /\ Pending(interruption))
    /\ pc = "canceling" => limit \/ (IsA(interruption, "cancel") /\ Pending(interruption))
    /\ pc = "finishing" /\ outcome = "canceled" => chosen # NoControl
    /\ run = "canceled" => CanceledByRequest
WhyInv == stopped \/ Withdrawn \/ Caused

CauseInv == KindInv /\ CancelsInv /\ EndingInv /\ ChosenInv /\ WhyInv

\* stop(reason=...) leaves a cancel behind, or finds a task that has ended.
StopInv ==
    stopped => WithdrawnCancel \/ LiveCancel \/ pc \in {"cancelled", "reaping", "done"}

\* An accepted run satisfies both invariants: nobody has signaled its task.
LEMMA InitCause == Init => CauseInv /\ StopInv
<1> SUFFICES ASSUME Init PROVE CauseInv /\ StopInv
  OBVIOUS
<1>1. /\ run = "pending" /\ pc = "accepted" /\ ~cancelRequested /\ ~limit /\ ~stopped
      /\ cache = {} /\ callbacks = {} /\ observing = {} /\ claimedInputs = {} /\ wanted = {}
      /\ interruption = NoControl /\ chosen = NoControl
      /\ \A c \in Controls : control[c].status = "none" /\ ~control[c].claimed
  BY DEF Init
<1>2. KindInv /\ CancelsInv /\ EndingInv /\ ChosenInv
  BY <1>1 DEF KindInv, CancelsInv, EndingInv, ChosenInv, Ending, IsA, Pending
<1>3. WhyInv /\ StopInv
  BY <1>1 DEF WhyInv, Caused, CanceledByRequest, StopInv
<1> QED BY <1>2, <1>3 DEF CauseInv

----------------------------------------------------------------------------

\* A row that exists keeps its kind and its timing, and its claim.
RowKept(c) ==
    /\ control'[c].kind = control[c].kind /\ control'[c].timing = control[c].timing
    /\ control'[c].status # "none"
    /\ control[c].claimed => control'[c].claimed
RowsKept == \A c \in Controls : control[c].status # "none" => RowKept(c)

\* Settling a row leaves its kind, its timing and its claim.
LEMMA SettleKeeps ==
    ASSUME Typed, NEW c \in Controls, NEW status
    PROVE  /\ Settle(c, status).kind = control[c].kind
           /\ Settle(c, status).timing = control[c].timing
           /\ Settle(c, status).claimed = control[c].claimed
           /\ Settle(c, status).status = status
  BY DEF Typed, Settle, Row

\* Every step keeps the rows that exist.
LEMMA RowsAreKept == Inv /\ [Next]_vars => RowsKept
<1> SUFFICES ASSUME Inv, Transaction PROVE RowsKept
  BY OneTransaction
<1>0. Typed
  BY DEF Inv, TypeOK, Typed
<1>1. CASE UNCHANGED control
  BY <1>1 DEF RowsKept, RowKept
<1>2. ASSUME NEW S \in SUBSET Controls, Claim(S) PROVE RowsKept
  BY <1>0, <1>2, ClaimEffect DEF RowsKept, RowKept, SameRow
<1>3. CASE BeginStep
  BY <1>0, <1>3, SettleKeeps DEF BeginStep, Apply, RowsKept, RowKept
<1>4. CASE FinishRun
  BY <1>0, <1>4, SettleKeeps DEF FinishRun, FinishStore, Closed, RowsKept, RowKept
<1>5. ASSUME NEW c \in Controls, NEW kind \in Kinds, NEW timing \in Timings,
             Accept(c, kind, timing)
      PROVE  RowsKept
  BY <1>0, <1>5, AcceptEffect DEF RowsKept, RowKept
<1>6. ASSUME NEW c \in Controls, Revoke(c) PROVE RowsKept
  <2>1. control' = [control EXCEPT ![c] = Settle(c, "revoked")]
    BY <1>6 DEF Revoke
  <2> QED BY <1>0, <2>1, SettleKeeps DEF Typed, RowsKept, RowKept
<1> QED
  BY <1>1, <1>2, <1>3, <1>4, <1>5, <1>6 DEF Transaction, store

\* What is withdrawn stays withdrawn.
LEMMA WithdrawnStays ==
    Inv /\ [Next]_vars =>
        (Withdrawn => Withdrawn') /\ (WithdrawnCancel => WithdrawnCancel')
<1> SUFFICES ASSUME Inv, [Next]_vars
             PROVE  (Withdrawn => Withdrawn') /\ (WithdrawnCancel => WithdrawnCancel')
  OBVIOUS
<1>1. \A c \in Controls : control[c].status = "revoked" => control'[c] = control[c]
  BY FinalStep DEF Settled
<1> QED BY <1>1 DEF Withdrawn, WithdrawnCancel, IsA

----------------------------------------------------------------------------

\* A refresh caches rows that exist, and interrupts for immediate ones only.
LEMMA RefreshKinds ==
    ASSUME KindInv, TypeOK, Refresh
    PROVE  /\ \A c \in cache' : c \in Controls /\ Exists(c)
           /\ \A c \in callbacks' : Exists(c) /\ control[c].timing = "immediate"
           /\ cache' = RefreshedCache
  BY DEF KindInv, TypeOK, Refresh, RefreshedCache, RefreshedCallbacks, Changed,
         ChangedPending, Exists, Controls, NoControl

\* Sets of controls keep to the kind the code filters them by.
LEMMA KindStep == Inv /\ KindInv /\ [Next]_vars => KindInv'
<1> SUFFICES ASSUME Inv, KindInv, [Next]_vars PROVE KindInv'
  OBVIOUS
<1>0. /\ TypeOK /\ RowsInv /\ RowsKept
      /\ \A c \in Controls : Exists(c) => Exists(c)' /\ RowKept(c)
  BY RowsAreKept DEF Inv, RowsKept, RowKept, Exists
<1> USE DEF Goto, store, registry, signals, task, published
<1>1. ASSUME UNCHANGED <<claimedInputs, interruption>>, UNCHANGED <<wanted, pc>> \/ pc' \notin {"claiming", "settling", "claimCancel"},
             \A c \in cache' : c \in Controls /\ Exists(c)',
             \A c \in callbacks' : c \in Controls /\ Exists(c)' /\ control'[c].timing = "immediate",
             \A c \in Controls, status \in {"pending", "revoked"} :
                    <<c, status>> \in observing' => Exists(c)'
      PROVE  KindInv'
  <2>1. \A c \in claimedInputs : c \in Controls /\ Exists(c) /\ IsA(c, "steer")
    BY <1>0 DEF KindInv, Inv, TypeOK, AdoptedInv, RowsInv, Exists, IsA
  <2>2. \A c \in claimedInputs' : IsA(c, "steer")'
    BY <1>0, <1>1, <2>1 DEF IsA, RowKept
  <2>3. /\ pc' \in {"claiming", "settling"} => \A c \in wanted' : Exists(c)' /\ IsA(c, "steer")'
        /\ pc' = "claimCancel" =>
            wanted' # {} /\ \A c \in wanted' : Exists(c)' /\ IsA(c, "cancel")' /\ wanted' = {c}
    BY <1>0, <1>1 DEF KindInv, IsA, RowKept, TypeOK
  <2>4. interruption' # NoControl =>
            /\ Exists(interruption)'
            /\ IsA(interruption, "steer")' => control'[interruption'].timing = "immediate"
    BY <1>0, <1>1 DEF KindInv, IsA, RowKept, TypeOK
  <2> QED BY <1>1, <2>2, <2>3, <2>4 DEF KindInv
<1>2. ASSUME \/ UNCHANGED registry
             \/ Refresh
             \/ cache' \subseteq cache /\ callbacks' \subseteq callbacks
      PROVE  /\ \A c \in cache' : c \in Controls /\ Exists(c)'
             /\ \A c \in callbacks' : c \in Controls /\ Exists(c)' /\ control'[c].timing = "immediate"
  BY <1>0, <1>2, RefreshKinds, RefreshType DEF KindInv, TypeOK, RowKept
<1>3. ASSUME UNCHANGED observing
      PROVE  \A c \in Controls, status \in {"pending", "revoked"} :
                    <<c, status>> \in observing' => Exists(c)'
  BY <1>0, <1>3 DEF KindInv
<1>4. CASE \/ Launch \/ BeginRun \/ BeginTools \/ DeliverCancel \/ Unwind \/ HandleCancelled
           \/ CancelUnstarted \/ Reap \/ ChooseCause
  BY <1>4, <1>1, <1>2, <1>3 DEF Launch, BeginRun, BeginTools, DeliverCancel, Unwind,
        HandleCancelled, CancelUnstarted, Reap, ChooseCause
<1>5. CASE External \/ Poll \/ ExpireLimit
  BY <1>5, <1>1, <1>2, <1>3 DEF External, ModelAnswers, ToolEnds, Poll, ExpireLimit
<1>6. CASE FinishRun
  BY <1>6, <1>1, <1>2, <1>3 DEF FinishRun
<1>7. CASE WantSteers \/ WantFinalSteers \/ WantCancel
  <2>1. Refresh /\ UNCHANGED <<control, claimedInputs, interruption, observing>>
    BY <1>7 DEF WantSteers, WantFinalSteers, WantCancel
  <2>2. /\ CachedSteers(RefreshedCache) \subseteq Controls /\ CachedCancels(RefreshedCache) \subseteq Controls
        /\ \A c \in CachedSteers(RefreshedCache) : Exists(c) /\ IsA(c, "steer")
        /\ \A c \in CachedCancels(RefreshedCache) : Exists(c) /\ IsA(c, "cancel")
    BY <1>0, <2>1, RefreshKinds DEF CachedSteers, CachedCancels
  <2>3. pc' \in {"claiming", "settling"} => \A c \in wanted' : Exists(c)' /\ IsA(c, "steer")'
    BY <1>7, <2>1, <2>2 DEF WantSteers, WantFinalSteers, WantCancel, AwaitStep, Exists, IsA
  <2>4. pc' = "claimCancel" =>
            wanted' # {} /\ \A c \in wanted' : Exists(c)' /\ IsA(c, "cancel")' /\ wanted' = {c}
    <3>1. CASE pc' = "claimCancel"
      <4>1. /\ wanted' = {First(CachedCancels(RefreshedCache))}
            /\ CachedCancels(RefreshedCache) # {}
        BY <1>7, <3>1 DEF WantSteers, WantFinalSteers, WantCancel, AwaitStep
      <4>2. First(CachedCancels(RefreshedCache)) \in CachedCancels(RefreshedCache)
        BY <2>2, <4>1, FirstOf
      <4>3. \A c \in wanted' : Exists(c) /\ IsA(c, "cancel") /\ wanted' = {c}
        BY <2>2, <4>1, <4>2
      <4>4. \A c \in wanted' : Exists(c)' /\ IsA(c, "cancel")' /\ wanted' = {c}
        BY <2>1, <4>3 DEF Exists, IsA
      <4> QED BY <4>1, <4>4
    <3> QED BY <3>1
  <2> QED BY <1>0, <1>2, <1>3, <2>1, <2>3, <2>4 DEF KindInv, IsA, RowKept, Exists
<1>8. CASE ClaimSteers \/ ClaimCancel \/ ClaimFinalSteers
  <2>1. /\ claimedInputs' \subseteq claimedInputs \cup (IF pc = "claimCancel" THEN {} ELSE wanted)
        /\ interruption' \in {interruption} \cup (IF pc = "claimCancel" THEN {First(wanted)} ELSE {})
        /\ pc' \notin {"claiming", "settling", "claimCancel"}
        /\ UNCHANGED <<cache, callbacks, observing>>
        /\ pc \in {"claiming", "settling", "claimCancel"}
    BY <1>8 DEF ClaimSteers, ClaimCancel, ClaimFinalSteers, AwaitStep, Claimed
  <2>2. pc = "claimCancel" => First(wanted) \in wanted
    BY <1>0, FirstOf DEF KindInv, TypeOK
  <2>3. \A c \in claimedInputs' : IsA(c, "steer")'
    BY <1>0, <2>1 DEF KindInv, IsA, RowKept, RowsKept, RowsInv, TypeOK, AdoptedInv, Exists, Inv
  <2>4. interruption' # NoControl =>
            /\ Exists(interruption)'
            /\ IsA(interruption, "steer")' => control'[interruption'].timing = "immediate"
    BY <1>0, <2>1, <2>2 DEF KindInv, IsA, RowKept, Exists, TypeOK
  <2> QED BY <1>0, <1>2, <1>3, <2>1, <2>3, <2>4 DEF KindInv
<1>9. CASE BeginStep
  <2>1. /\ claimedInputs' = {} /\ interruption' \in {interruption, NoControl} /\ pc' = "begun"
        /\ UNCHANGED <<callbacks, observing>> /\ cache' \subseteq cache
    BY <1>9 DEF BeginStep
  <2> QED BY <1>0, <1>2, <1>3, <2>1 DEF KindInv, IsA, RowKept, Exists, TypeOK
<1>10. ASSUME NEW c \in Controls, Interrupt(c) PROVE KindInv'
  <2>1. /\ UNCHANGED <<claimedInputs, cache, observing, wanted, pc>> /\ callbacks' \subseteq callbacks
        /\ interruption' \in {interruption, c} /\ c \in callbacks
    BY <1>10 DEF Interrupt
  <2>2. interruption' # NoControl =>
            /\ Exists(interruption)'
            /\ IsA(interruption, "steer")' => control'[interruption'].timing = "immediate"
    BY <1>0, <2>1 DEF KindInv, IsA, RowKept, Exists, TypeOK
  <2>3. pc \notin {"claiming", "settling", "claimCancel"}
    BY <1>10 DEF Interrupt, Suspended
  <2> QED BY <1>0, <1>2, <1>3, <2>1, <2>2, <2>3
          DEF KindInv, IsA, RowKept, RowsKept, RowsInv, TypeOK, Exists, Inv, AdoptedInv
<1>11. ASSUME NEW c \in Controls, Exists(c)',
              \E status, timing : /\ Observe(c, status, timing)
                                  /\ status = "pending" => control'[c].timing = timing
       PROVE  /\ \A d \in cache' : d \in Controls /\ Exists(d)'
              /\ \A d \in callbacks' : d \in Controls /\ Exists(d)' /\ control'[d].timing = "immediate"
  BY <1>0, <1>11 DEF Observe, KindInv, TypeOK, RowKept
<1>12. ASSUME NEW reason \in Stops, Stop(reason) PROVE KindInv'
  <2>1. UNCHANGED <<claimedInputs, interruption, observing, wanted, pc>>
    BY <1>12 DEF Stop
  <2>2. CASE UNCHANGED <<store, cache, callbacks>>
    BY <1>1, <1>2, <1>3, <2>1, <2>2
  <2>3. ASSUME NEW c \in Controls, Accept(c, "cancel", "immediate"), Observe(c, "pending", "immediate")
        PROVE  KindInv'
    <3>1. Exists(c)' /\ control'[c].timing = "immediate"
      BY <1>0, <2>3 DEF Accept, Insert, Exists, NoControl, Controls, TypeOK
    <3> QED BY <1>1, <1>3, <1>11, <2>1, <2>3, <3>1
  <2> QED BY <1>12, <2>2, <2>3 DEF Stop
<1>13. ASSUME NEW client \in Clients, NEW c \in Controls, NEW status \in {"pending", "revoked"},
              NEW timing, Deliver(client, c, status, timing),
              Exists(c)', control'[c].timing = timing,
              UNCHANGED <<claimedInputs, interruption, wanted, pc>>
       PROVE  KindInv'
  <2>1. CASE client = "remote"
    BY <1>1, <1>2, <1>3, <1>13, <2>1 DEF Deliver
  <2>2. CASE client = "thread"
    <3>1. UNCHANGED registry /\ observing' = observing \cup {<<c, status>>}
      BY <1>13, <2>2 DEF Deliver
    <3>2. \A d \in Controls, s \in {"pending", "revoked"} : <<d, s>> \in observing' => Exists(d)'
      BY <1>0, <1>13, <3>1 DEF KindInv
    <3> QED BY <1>1, <1>2, <1>13, <3>1, <3>2
  <2>3. CASE client = "loop"
    <3>1. UNCHANGED observing /\ (Observe(c, status, timing) \/ UNCHANGED <<cache, callbacks>>)
      BY <1>13, <2>3 DEF Deliver
    <3>2. CASE Observe(c, status, timing)
      BY <1>1, <1>3, <1>11, <1>13, <3>1, <3>2
    <3>3. CASE UNCHANGED <<cache, callbacks>>
      BY <1>1, <1>2, <1>3, <1>13, <3>1, <3>3
    <3> QED BY <3>1, <3>2, <3>3
  <2> QED BY <2>1, <2>2, <2>3
<1>14. ASSUME NEW client \in Clients, NEW c \in Controls, NEW request \in Requests,
              Submit(client, c, request[1], request[2])
       PROVE  KindInv'
  <2>1. Exists(c)' /\ control'[c].timing = request[2]
    BY <1>0, <1>14 DEF Submit, Accept, Insert, Exists, NoControl, Controls, TypeOK
  <2> QED BY <1>13, <1>14, <2>1 DEF Submit
<1>15. ASSUME NEW client \in Clients, NEW c \in Controls, CancelControl(client, c) PROVE KindInv'
  <2>1. Exists(c)
    BY <1>15 DEF CancelControl, Revoke, RevocableRow, Claimable, Pending, Exists, NoControl, Controls
  <2>2. Exists(c)' /\ control'[c].timing = control[c].timing
    BY <1>0, <2>1 DEF RowKept
  <2> QED BY <1>13, <1>15, <2>2 DEF CancelControl
<1>16. ASSUME NEW c \in Controls, NEW status \in {"pending", "revoked"}, ObserveThread(c, status)
       PROVE  KindInv'
  <2>1. /\ Exists(c) /\ UNCHANGED <<store, claimedInputs, interruption, wanted, pc>>
        /\ observing' \subseteq observing
        /\ Observe(c, status, control[c].timing) \/ UNCHANGED <<cache, callbacks>>
    BY <1>16 DEF ObserveThread, KindInv
  <2>2. \A d \in Controls, s \in {"pending", "revoked"} : <<d, s>> \in observing' => Exists(d)'
    BY <1>0, <2>1 DEF KindInv
  <2>3. CASE Observe(c, status, control[c].timing)
    BY <1>0, <1>1, <1>11, <2>1, <2>2, <2>3
  <2>4. CASE UNCHANGED <<cache, callbacks>>
    BY <1>1, <1>2, <2>1, <2>2, <2>4
  <2> QED BY <2>1, <2>3, <2>4
<1>17. CASE UNCHANGED vars
  BY <1>17, <1>1, <1>2, <1>3 DEF vars
<1> QED
  BY ONLY [Next]_vars, <1>4, <1>5, <1>6, <1>7, <1>8, <1>9, <1>10, <1>12, <1>14, <1>15, <1>16, <1>17
     DEF Next, Slice, External, Loop, Client

\* Until the run is done it never was.
LEMMA NotDoneYet == Inv /\ [Next]_vars => (pc' # "done" => pc # "done")
  BY NextInv, FinalStep DEF Inv, PhaseInv

\* Only the terminal transaction settles a cancel other than by withdrawal.
LEMMA CancelsStep == Inv /\ KindInv /\ CancelsInv /\ [Next]_vars => CancelsInv'
<1> SUFFICES ASSUME Inv, KindInv, CancelsInv, RowsKept, Transaction, pc # "done", pc' # "done",
                    NEW c \in Controls, IsA(c, "cancel")'
             PROVE  control'[c].status \in {"none", "pending", "revoked"}
  BY NotDoneYet, OneTransaction, RowsAreKept DEF CancelsInv
<1>0. Typed
  BY DEF Inv, TypeOK, Typed
<1>1. control[c].status # "none" => IsA(c, "cancel") /\ control[c].status \in {"pending", "revoked"}
  BY DEF RowsKept, RowKept, IsA, CancelsInv
<1>2. CASE UNCHANGED control
  BY <1>1, <1>2
<1>3. ASSUME NEW S \in SUBSET Controls, Claim(S) PROVE control'[c].status = control[c].status
  BY <1>0, <1>3, ClaimEffect DEF SameRow
<1>4. CASE BeginStep
  <2>1. IF c \in claimedInputs /\ Pending(c) THEN control'[c].status = "applied"
        ELSE control'[c] = control[c]
    BY <1>0, <1>4, ApplyEffect DEF BeginStep, Inv, TypeOK
  <2>2. c \in claimedInputs => ~Pending(c)
    BY <1>1 DEF KindInv, IsA, Pending
  <2> QED BY <1>1, <2>1, <2>2
<1>5. CASE FinishRun
  BY <1>5 DEF FinishRun, Goto
<1>6. ASSUME NEW d \in Controls, NEW kind \in Kinds, NEW timing \in Timings, Accept(d, kind, timing)
      PROVE  control'[c].status \in {"none", "pending", "revoked"}
  BY <1>0, <1>1, <1>6, AcceptEffect
<1>7. ASSUME NEW d \in Controls, Revoke(d)
      PROVE  control'[c].status \in {"none", "pending", "revoked"}
  BY <1>0, <1>1, <1>7, RevokeEffect
<1> QED BY <1>1, <1>2, <1>3, <1>4, <1>5, <1>6, <1>7 DEF Transaction, store

----------------------------------------------------------------------------

\* Only ClaimCancel and interrupt() claim a cancel.
NoNewClaim == \A c \in Controls : IsA(c, "cancel")' /\ control'[c].claimed => control[c].claimed

\* Steps other than those two leave the claims of cancels alone.
LEMMA ClaimsAreSteers ==
    ASSUME Inv, KindInv, RowsKept,
           \/ UNCHANGED control
           \/ ClaimSteers \/ ClaimFinalSteers \/ BeginStep \/ FinishRun
           \/ \E c \in Controls, kind \in Kinds, timing \in Timings : Accept(c, kind, timing)
           \/ \E c \in Controls : Revoke(c)
    PROVE  NoNewClaim
<1>0. Typed
  BY DEF Inv, TypeOK, Typed
<1>1. CASE UNCHANGED control
  BY <1>1 DEF NoNewClaim
<1>2. CASE ClaimSteers \/ ClaimFinalSteers
  <2>1. wanted \in SUBSET Controls /\ Claim(wanted) /\ pc \in {"claiming", "settling"}
    BY <1>2 DEF ClaimSteers, ClaimFinalSteers, Inv, TypeOK
  <2>2. \A c \in wanted : control'[c].kind = "steer"
    BY <2>1 DEF KindInv, Exists, IsA, RowsKept, RowKept
  <2> QED BY <1>0, <2>1, <2>2, ClaimEffect DEF NoNewClaim, IsA, Claimed
<1>3. CASE BeginStep
  BY <1>0, <1>3, ApplyEffect DEF BeginStep, NoNewClaim, Inv, TypeOK
<1>4. CASE FinishRun
  BY <1>0, <1>4, FinishEffect DEF FinishRun, NoNewClaim
<1>5. ASSUME NEW c \in Controls, NEW kind \in Kinds, NEW timing \in Timings, Accept(c, kind, timing)
      PROVE  NoNewClaim
  BY <1>0, <1>5, AcceptEffect DEF NoNewClaim
<1>6. ASSUME NEW c \in Controls, Revoke(c) PROVE NoNewClaim
  BY <1>0, <1>6, RevokeEffect DEF NoNewClaim
<1> QED BY <1>1, <1>2, <1>3, <1>4, <1>5, <1>6

\* What EndingInv says of the claimed cancels.
ClaimsInv ==
    /\ IsA(interruption, "cancel") => control[interruption].claimed
    /\ \A c \in Controls :
            Pending(c) /\ IsA(c, "cancel") /\ control[c].claimed => IsA(interruption, "cancel")

\* A claimed cancel stays the interruption of the task.
LEMMA ClaimsFrame ==
    ASSUME Inv, KindInv, [Next]_vars, ClaimsInv, NoNewClaim,
           interruption' = interruption \/ ~IsA(interruption, "cancel"),
           interruption' \in {interruption, NoControl}
    PROVE  ClaimsInv'
<1>1. RowsKept
  BY RowsAreKept
<1>2. interruption # NoControl => interruption \in Controls /\ Exists(interruption)
  BY DEF Inv, TypeOK, KindInv
<1>3. (IsA(interruption, "cancel") => control[interruption].claimed)'
  BY <1>1, <1>2 DEF ClaimsInv, IsA, RowsKept, RowKept, Exists
<1>4. ASSUME NEW c \in Controls, Pending(c)', IsA(c, "cancel")', control'[c].claimed
      PROVE  IsA(interruption, "cancel")'
  <2>1. control[c].claimed
    BY <1>4 DEF NoNewClaim
  <2>2. Pending(c)
    BY <1>4, <2>1, FinalStep DEF Inv, RowsInv, Settled, Pending
  <2>3. IsA(interruption, "cancel")
    BY <1>1, <1>4, <2>1, <2>2 DEF ClaimsInv, IsA, RowsKept, RowKept, Pending
  <2> QED BY <1>1, <1>2, <2>3 DEF IsA, RowsKept, RowKept, Exists
<1> QED BY <1>3, <1>4 DEF ClaimsInv

\* A task told to end stays on its way to the end.
LEMMA EndingStep == Inv /\ KindInv /\ EndingInv /\ [Next]_vars => EndingInv'
<1> SUFFICES ASSUME Inv, KindInv, EndingInv, [Next]_vars PROVE EndingInv'
  OBVIOUS
<1>0. /\ RowsKept /\ TypeOK /\ ClaimsInv
      /\ interruption # NoControl => interruption \in Controls /\ Exists(interruption)
  BY RowsAreKept DEF Inv, TypeOK, EndingInv, ClaimsInv, KindInv
<1>a. IsA(interruption, "cancel") /\ interruption' = interruption
        => IsA(interruption, "cancel")'
  BY <1>0 DEF IsA, RowsKept, RowKept, Exists
<1>b. IsA(interruption, "cancel")' /\ interruption' \in {interruption, NoControl}
        => IsA(interruption, "cancel")
  BY <1>0 DEF IsA, RowsKept, RowKept, Exists
<1> USE DEF Goto, store, registry, signals, task, published
<1>1. ASSUME UNCHANGED <<interruption, limit>>, NoNewClaim,
             cancelRequested' => pc' \in {"launch", "call", "tool", "unwinding"},
             (limit \/ IsA(interruption, "cancel")) /\ Ending => Ending'
      PROVE  EndingInv'
  <2>1. ClaimsInv'
    BY <1>0, <1>1, ClaimsFrame
  <2> QED BY <1>1, <1>b, <2>1 DEF EndingInv, ClaimsInv
<1>2. CASE \/ Launch \/ BeginTools \/ WantSteers \/ WantFinalSteers \/ WantCancel \/ Reap
           \/ ChooseCause
  <2>1. UNCHANGED <<control, interruption, limit, cancelRequested>>
    BY <1>2 DEF Launch, BeginTools, WantSteers, WantFinalSteers, WantCancel, Reap, ChooseCause
  <2>2. ~cancelRequested /\ (Ending => Ending')
    BY <1>2 DEF Launch, BeginTools, WantSteers, WantFinalSteers, WantCancel, Reap, ChooseCause,
                EndingInv, Ending
  <2> QED BY <1>0, <1>1, <2>1, <2>2, ClaimsAreSteers
<1>3. CASE ClaimSteers \/ ClaimFinalSteers \/ FinishRun
  <2>1. UNCHANGED <<interruption, limit, cancelRequested>>
    BY <1>3 DEF ClaimSteers, ClaimFinalSteers, FinishRun
  <2>2. ~cancelRequested /\ (Ending => Ending')
    BY <1>3 DEF ClaimSteers, ClaimFinalSteers, FinishRun, EndingInv, Ending
  <2> QED BY <1>0, <1>1, <1>3, <2>1, <2>2, ClaimsAreSteers
<1>4. CASE BeginRun \/ DeliverCancel \/ Unwind \/ CancelUnstarted \/ External \/ Poll
  <2>1. UNCHANGED <<control, interruption, limit>>
    BY <1>4 DEF BeginRun, DeliverCancel, Unwind, CancelUnstarted, External, ModelAnswers, ToolEnds, Poll
  <2>2. /\ cancelRequested' => pc' \in {"launch", "call", "tool", "unwinding"}
        /\ Ending => Ending'
    BY <1>4 DEF BeginRun, DeliverCancel, Unwind, CancelUnstarted, External, ModelAnswers, ToolEnds,
                Poll, EndingInv, Ending
  <2> QED BY <1>0, <1>1, <2>1, <2>2, ClaimsAreSteers
<1>5. CASE HandleCancelled
  <2>1. UNCHANGED <<control, interruption, limit, cancelRequested>>
    BY <1>5 DEF HandleCancelled
  <2>2. ~cancelRequested
    BY <1>5 DEF HandleCancelled, EndingInv
  <2>3. limit \/ IsA(interruption, "cancel") => Ending'
    BY <1>5 DEF HandleCancelled, Ending, Continuable
  <2> QED BY <1>0, <1>1, <2>1, <2>2, <2>3, ClaimsAreSteers
<1>6. CASE BeginStep
  <2>1. /\ limit' = limit /\ cancelRequested' = cancelRequested
        /\ interruption' \in {interruption, NoControl} /\ pc' = "begun" /\ pc = "begin"
    BY <1>6 DEF BeginStep
  <2>2. ~limit /\ ~IsA(interruption, "cancel") /\ ~cancelRequested
    BY <2>1 DEF EndingInv, Ending
  <2>3. ClaimsInv'
    BY <1>0, <1>6, <2>1, <2>2, ClaimsFrame, ClaimsAreSteers
  <2> QED BY <1>b, <2>1, <2>2, <2>3 DEF EndingInv, ClaimsInv
<1>7. CASE ClaimCancel
  <2>1. /\ wanted \in SUBSET Controls /\ Claim(wanted) /\ First(wanted) \in wanted
        /\ \A c \in wanted : IsA(c, "cancel")
        /\ limit' = limit /\ cancelRequested' = cancelRequested /\ pc = "claimCancel"
    BY <1>0, <1>7, FirstOf DEF ClaimCancel, TypeOK, KindInv
  <2>2. ~limit /\ ~IsA(interruption, "cancel") /\ ~cancelRequested
    BY <2>1 DEF EndingInv, Ending
  <2>3. /\ \A c \in Controls : SameRow(c)
        /\ \A c \in Controls : control'[c].claimed <=> control[c].claimed \/ c \in Claimed(wanted)
    BY <1>0, <2>1, ClaimEffect DEF TypeOK, Typed
  <2>4. CASE Claimed(wanted) = {}
    <3>1. NoNewClaim /\ UNCHANGED interruption
      BY <1>7, <2>3, <2>4 DEF NoNewClaim, ClaimCancel
    <3> QED BY <1>1, <2>1, <2>2, <3>1
  <2>5. CASE Claimed(wanted) # {}
    <3>1. interruption' = First(wanted) /\ pc' = "interrupted"
      BY <1>7, <2>5 DEF ClaimCancel
    <3>2. IsA(interruption, "cancel")'
      BY <2>1, <2>3, <3>1 DEF IsA, SameRow
    <3>3. control'[interruption'].claimed
      <4>1. First(wanted) \in Claimed(wanted)
        BY <2>1, <2>5 DEF Claimed, KindInv
      <4> QED BY <2>1, <2>3, <3>1, <4>1
    <3> QED BY <2>1, <2>2, <3>1, <3>2, <3>3 DEF EndingInv, Ending
  <2> QED BY <2>4, <2>5
<1>8. ASSUME NEW c \in Controls, Interrupt(c) PROVE EndingInv'
  <2>1. CASE UNCHANGED <<control, signals>>
    <3>1. UNCHANGED <<interruption, limit, cancelRequested, pc>>
      BY <1>8, <2>1 DEF Interrupt
    <3> QED BY <1>0, <1>1, <2>1, <3>1, ClaimsAreSteers DEF EndingInv, Ending
  <2>2. CASE Interrupts(c)
    <3>1. /\ ~IsA(interruption, "cancel") /\ pc \in {"call", "tool", "unwinding"} /\ UNCHANGED <<pc, limit>>
          /\ interruption' = c /\ cancelRequested'
      BY <1>8, <2>2 DEF Interrupt, Interrupts, Live
    <3>2. Ending'
      BY <3>1 DEF Ending
    <3>3. CASE ~IsA(c, "cancel")
      <4>1. UNCHANGED control
        BY <1>8, <2>2, <3>3 DEF Interrupt
      <4>2. ~IsA(interruption, "cancel")'
        BY <3>1, <3>3, <4>1 DEF IsA
      <4>3. ClaimsInv'
        BY <1>0, <3>1, <4>1, <4>2 DEF ClaimsInv, IsA, Pending
      <4> QED BY <3>1, <3>2, <4>3 DEF EndingInv, ClaimsInv
    <3>4. CASE IsA(c, "cancel")
      <4>1. Claim({c}) /\ c \in Claimed({c})
        BY <1>8, <2>2, <3>4 DEF Interrupt, Interrupts, Claimed
      <4>2. SameRow(c) /\ control'[c].claimed
        BY <1>0, <4>1, ClaimEffect DEF TypeOK, Typed
      <4>3. IsA(interruption, "cancel")' /\ control'[interruption'].claimed
        BY <3>1, <3>4, <4>2 DEF IsA, SameRow
      <4> QED BY <3>1, <3>2, <4>3 DEF EndingInv
    <3> QED BY <3>3, <3>4
  <2> QED BY <1>8, <2>1, <2>2 DEF Interrupt
<1>9. ASSUME NEW reason \in Stops, Stop(reason) PROVE EndingInv'
  <2>1. UNCHANGED <<interruption, limit, pc>> /\ (cancelRequested' <=> (cancelRequested \/ Live))
    BY <1>9, Zenon DEF Stop, CancelTask
  <2>2. NoNewClaim
    BY <1>0, <1>9, ClaimsAreSteers DEF Stop, Kinds, Timings
  <2> QED BY <1>1, <2>1, <2>2 DEF EndingInv, Ending, Live
<1>10. CASE ExpireLimit
  <2>1. /\ UNCHANGED <<control, interruption, pc>> /\ cancelRequested' /\ pc \in {"call", "tool", "unwinding"}
    BY <1>10 DEF ExpireLimit
  <2>2. ClaimsInv'
    BY <1>0, <2>1, ClaimsFrame, ClaimsAreSteers
  <2> QED BY <2>1, <2>2 DEF EndingInv, ClaimsInv, Ending
<1>11. CASE Client
  <2>1. UNCHANGED <<interruption, limit, cancelRequested, pc>>
    BY <1>11 DEF Client, Submit, CancelControl, ObserveThread
  <2>2. ASSUME NEW client \in Clients, NEW c \in Controls, NEW request \in Requests,
               Submit(client, c, request[1], request[2])
        PROVE  NoNewClaim
    <3>1. request[1] \in Kinds /\ request[2] \in Timings
      OBVIOUS
    <3> QED BY <1>0, <2>2, <3>1, ClaimsAreSteers DEF Submit
  <2>3. ASSUME NEW client \in Clients, NEW c \in Controls, CancelControl(client, c)
        PROVE  NoNewClaim
    BY <1>0, <2>3, ClaimsAreSteers DEF CancelControl
  <2>4. ASSUME NEW c \in Controls, NEW status \in {"pending", "revoked"}, ObserveThread(c, status)
        PROVE  NoNewClaim
    BY <1>0, <2>4, ClaimsAreSteers DEF ObserveThread
  <2>5. NoNewClaim
    BY ONLY <1>11, <2>2, <2>3, <2>4 DEF Client
  <2> QED BY <1>1, <2>1, <2>5 DEF EndingInv, Ending
<1>12. CASE UNCHANGED vars
  <2>1. UNCHANGED <<control, interruption, limit, cancelRequested, pc>>
    BY <1>12 DEF vars
  <2> QED BY <1>0, <1>1, <2>1, ClaimsAreSteers DEF EndingInv, Ending
<1> QED
  BY ONLY [Next]_vars, <1>2, <1>3, <1>4, <1>5, <1>6, <1>7, <1>8, <1>9, <1>10, <1>11, <1>12
     DEF Next, Slice, Loop

----------------------------------------------------------------------------

\* The control the terminal facts name is a cancel that was not answered yet.
LEMMA ChosenStep ==
    Inv /\ KindInv /\ CancelsInv /\ EndingInv /\ ChosenInv /\ CancelsInv' /\ [Next]_vars
        => ChosenInv'
<1> SUFFICES ASSUME Inv, KindInv, CancelsInv, EndingInv, ChosenInv, CancelsInv', [Next]_vars
             PROVE  ChosenInv'
  OBVIOUS
<1>0. /\ TypeOK /\ RowsKept /\ TypeOK'
      /\ interruption # NoControl => Exists(interruption)
      /\ pc' # "done" => pc # "done"
  BY RowsAreKept, TypeStep, NotDoneYet DEF Inv, KindInv
<1> USE DEF Goto, store, registry, signals, task, published
\* A cancel that exists stays one, and while the run goes on it is pending or revoked.
<1>a. ASSUME NEW c \in Controls, IsA(c, "cancel"), Exists(c)
      PROVE  /\ IsA(c, "cancel")'
             /\ pc' # "done" => control'[c].status \in {"pending", "revoked"}
  BY <1>0, <1>a DEF RowsKept, RowKept, IsA, Exists, CancelsInv
<1>1. ASSUME UNCHANGED <<chosen, interruption>>,
             chosen # NoControl => pc' \in {"canceling", "finishing", "reaping", "done"}
                                        \/ pc' = pc
      PROVE  ChosenInv'
  <2>1. chosen # NoControl /\ pc # "done" => chosen \in Controls /\ Exists(chosen) /\ IsA(chosen, "cancel")
    BY <1>0 DEF ChosenInv, TypeOK, Exists
  <2>2. chosen # NoControl /\ pc' # "done" =>
            IsA(chosen, "cancel")' /\ control'[chosen].status \in {"pending", "revoked"}
    BY <1>0, <1>1, <1>a, <2>1 DEF IsA
  <2>3. chosen # NoControl /\ pc' = "interrupted" => IsA(interruption, "cancel")'
    BY <1>0, <1>1, <1>a DEF ChosenInv, TypeOK, IsA
  <2> QED BY <1>1, <2>2, <2>3 DEF ChosenInv
<1>2. CASE \/ Launch \/ BeginRun \/ WantSteers \/ ClaimSteers \/ BeginTools \/ WantFinalSteers
           \/ ClaimFinalSteers \/ DeliverCancel \/ Unwind \/ CancelUnstarted \/ WantCancel
  BY <1>1, <1>2 DEF ChosenInv, Launch, BeginRun, WantSteers, ClaimSteers, BeginTools, WantFinalSteers,
        ClaimFinalSteers, DeliverCancel, Unwind, CancelUnstarted, WantCancel
<1>3. CASE BeginStep
  <2>1. chosen' = NoControl
    BY <1>3 DEF BeginStep, ChosenInv
  <2> QED BY <2>1 DEF ChosenInv
<1>4. CASE ClaimCancel
  <2>1. CASE Claimed(wanted) = {}
    BY <1>1, <1>4, <2>1 DEF ClaimCancel, ChosenInv
  <2>2. CASE Claimed(wanted) # {}
    <3>1. PICK c \in Controls : /\ chosen' = c /\ interruption' = c /\ pc' = "interrupted"
                                /\ IsA(c, "cancel") /\ Exists(c)
      BY <1>0, <1>4, <2>2, FirstOf DEF ClaimCancel, KindInv, TypeOK
    <3>2. IsA(c, "cancel")' /\ control'[c].status \in {"pending", "revoked"}
      BY <1>a, <3>1
    <3>3. /\ IsA(chosen, "cancel")' /\ IsA(interruption, "cancel")'
          /\ control'[chosen'].status \in {"pending", "revoked"}
      BY <3>1, <3>2 DEF IsA
    <3> QED BY <3>1, <3>3 DEF ChosenInv
  <2> QED BY <2>1, <2>2
<1>5. CASE HandleCancelled
  <2>1. chosen # NoControl => pc' = "canceling"
    BY <1>5 DEF HandleCancelled, ChosenInv, Continuable
  <2> QED BY <1>1, <1>5, <2>1 DEF HandleCancelled
<1>6. CASE ChooseCause
  <2>1. UNCHANGED control /\ pc' = "finishing" /\ pc = "canceling"
    BY <1>6 DEF ChooseCause
  <2>2. chosen' # NoControl => chosen' \in Controls /\ IsA(chosen', "cancel") /\ Exists(chosen')
    <3>1. CASE chosen' = chosen
      BY <1>0, <2>1, <3>1 DEF ChosenInv, Exists, TypeOK
    <3>2. CASE chosen' = interruption /\ IsA(interruption, "cancel")
      BY <1>0, <3>2 DEF TypeOK, IsA
    <3>3. CASE /\ Refresh
               /\ chosen' = First({c \in CachedCancels(RefreshedCache) :
                                            control[c].timing = "immediate"})
      <4> DEFINE S == {c \in CachedCancels(RefreshedCache) : control[c].timing = "immediate"}
      <4>1. \A c \in S : c \in Controls /\ IsA(c, "cancel") /\ Exists(c)
        BY <1>0, <3>3, RefreshKinds DEF CachedCancels
      <4>2. S \in SUBSET Controls /\ chosen' = First(S)
        BY <3>3, <4>1
      <4>3. chosen' # NoControl => chosen' \in S
        <5> HIDE DEF S
        <5> QED BY <4>2, FirstOf DEF First
      <4> QED BY <4>1, <4>3
    <3> QED BY <1>6, <3>1, <3>2, <3>3 DEF ChooseCause
  <2>3. chosen' # NoControl =>
            IsA(chosen, "cancel")' /\ control'[chosen'].status \in {"pending", "revoked"}
    BY <1>a, <2>1, <2>2 DEF IsA
  <2> QED BY <2>1, <2>3 DEF ChosenInv
<1>7. CASE Reap
  <2>1. UNCHANGED control /\ pc' = "reaping" /\ pc = "cancelled"
    BY <1>7 DEF Reap
  <2>2. chosen' # NoControl => chosen' \in Controls /\ IsA(chosen', "cancel") /\ Exists(chosen')
    <3>1. CASE IsA(interruption, "cancel")
      BY <1>0, <1>7, <3>1 DEF Reap, TypeOK
    <3>2. CASE ~IsA(interruption, "cancel")
      <4> DEFINE S == {c \in Controls : Pending(c) /\ IsA(c, "cancel")}
      <4>1. S \in SUBSET Controls /\ chosen' = First(S)
        BY <1>7, <3>2 DEF Reap
      <4>2. chosen' # NoControl => chosen' \in S
        <5> HIDE DEF S
        <5> QED BY <4>1, FirstOf DEF First
      <4> QED BY <4>2 DEF Pending, IsA, Exists
    <3> QED BY <3>1, <3>2
  <2>3. chosen' # NoControl =>
            IsA(chosen, "cancel")' /\ control'[chosen'].status \in {"pending", "revoked"}
    BY <1>a, <2>1, <2>2 DEF IsA
  <2> QED BY <2>1, <2>3 DEF ChosenInv
<1>8. CASE FinishRun
  BY <1>8 DEF FinishRun, ChosenInv
<1>9. CASE External \/ Poll \/ ExpireLimit \/ Client
  BY <1>1, <1>9 DEF External, ModelAnswers, ToolEnds, Poll, ExpireLimit, Client, Submit, CancelControl,
        ObserveThread, ChosenInv
<1>10. ASSUME NEW c \in Controls, Interrupt(c) PROVE ChosenInv'
  <2>1. pc' = pc /\ chosen' = chosen /\ pc \in {"call", "tool", "unwinding", "cancelled", "done"}
    BY <1>10 DEF Interrupt, Suspended
  <2> QED BY <2>1 DEF ChosenInv
<1>11. ASSUME NEW reason \in Stops, Stop(reason) PROVE ChosenInv'
  BY <1>1, <1>11 DEF Stop
<1>12. CASE UNCHANGED vars
  BY <1>1, <1>12 DEF vars
<1> QED
  BY ONLY [Next]_vars, <1>2, <1>3, <1>4, <1>5, <1>6, <1>7, <1>8, <1>9, <1>10, <1>11, <1>12
     DEF Next, Slice, Loop

----------------------------------------------------------------------------

\* What is pending stays pending until a model Step, the end or a withdrawal.
LEMMA PendingStays ==
    Inv /\ [Next]_vars /\ pc # "begin" /\ pc' # "done" /\ ~Withdrawn' =>
        \A c \in Controls : Pending(c) => Pending(c)'
<1> SUFFICES ASSUME Inv, Transaction, pc # "begin", pc' # "done", ~Withdrawn',
                    NEW c \in Controls, Pending(c)
             PROVE  Pending(c)'
  BY OneTransaction
<1>0. Typed
  BY DEF Inv, TypeOK, Typed
<1>1. CASE UNCHANGED control
  BY <1>1 DEF Pending
<1>2. ASSUME NEW S \in SUBSET Controls, Claim(S) PROVE Pending(c)'
  BY <1>0, <1>2, ClaimEffect DEF SameRow, Pending
<1>3. CASE BeginStep \/ FinishRun
  BY <1>3 DEF BeginStep, FinishRun, Goto
<1>4. ASSUME NEW d \in Controls, NEW kind \in Kinds, NEW timing \in Timings, Accept(d, kind, timing)
      PROVE  Pending(c)'
  BY <1>0, <1>4, AcceptEffect DEF Pending
<1>5. ASSUME NEW d \in Controls, Revoke(d) PROVE Pending(c)'
  BY <1>0, <1>5, RevokeEffect DEF Withdrawn
<1> QED BY <1>1, <1>2, <1>3, <1>4, <1>5 DEF Transaction, store

\* stop() is not taken back.
LEMMA StoppedStays == [Next]_vars /\ stopped => stopped'
  BY DEF Next, Slice, External, Loop, Client, Launch, BeginRun, WantSteers, ClaimSteers,
     BeginStep, WantCancel, ClaimCancel, BeginTools, WantFinalSteers, ClaimFinalSteers,
     DeliverCancel, Unwind, HandleCancelled, ChooseCause, CancelUnstarted, Reap, FinishRun,
     ModelAnswers, ToolEnds, Poll, Interrupt, Stop, ExpireLimit, Submit, CancelControl,
     ObserveThread, vars

\* The CancelledError of a run nobody stopped and nothing was withdrawn from
\* has its cause until the run ends.
LEMMA WhyStep ==
    Inv /\ KindInv /\ EndingInv /\ ChosenInv /\ WhyInv /\ [Next]_vars => WhyInv'
<1> SUFFICES ASSUME Inv, KindInv, EndingInv, ChosenInv, Caused, [Next]_vars,
                    ~stopped', ~Withdrawn'
             PROVE  Caused'
  BY StoppedStays, WithdrawnStays DEF WhyInv
<1>0. /\ TypeOK /\ RowsKept
      /\ interruption # NoControl => interruption \in Controls /\ Exists(interruption)
  BY RowsAreKept DEF Inv, TypeOK, KindInv
<1> USE DEF Goto, store, registry, signals, task, published
<1>a. pc # "done" => run # "canceled"
  BY DEF Inv, PhaseInv, Ended
<1>b. run = "canceled" => CanceledByRequest'
  <2>1. ~stopped
    BY StoppedStays
  <2>2. ASSUME NEW c \in Controls, IsA(c, "cancel"), control[c].status = "applied"
        PROVE  CanceledByRequest'
    <3>1. control'[c] = control[c]
      BY <2>2, FinalStep DEF Settled
    <3> QED BY <2>2, <3>1 DEF CanceledByRequest, IsA
  <2> QED BY <2>1, <2>2 DEF Caused, CanceledByRequest
<1>c. ASSUME UNCHANGED <<interruption, limit>>, pc # "begin", pc' # "done",
             run' = "canceled" => run = "canceled",
             pc' = "launch" => ~cancelRequested', pc' \notin {"cancelled", "reaping"},
             cancelRequested' \/ pc' \in {"unwinding", "interrupted"} =>
                cancelRequested \/ pc \in {"unwinding", "interrupted"},
             pc' = "canceling" => pc = "canceling" \/ limit \/ (IsA(interruption, "cancel") /\ Pending(interruption)),
             pc' = "finishing" /\ outcome' = "canceled" => chosen' # NoControl
      PROVE  Caused'
  <2>1. interruption # NoControl /\ Pending(interruption) => Pending(interruption)'
    BY <1>0, <1>c, PendingStays DEF Pending
  <2>2. IsA(interruption, "cancel") /\ Pending(interruption)
            => IsA(interruption, "cancel")' /\ Pending(interruption)'
    BY <1>0, <1>c, <2>1 DEF IsA, RowsKept, RowKept, Exists
  <2> QED BY <1>b, <1>c, <2>1, <2>2 DEF Caused
<1>1. CASE \/ Launch \/ BeginTools \/ WantSteers \/ WantFinalSteers \/ WantCancel
           \/ ClaimSteers \/ ClaimFinalSteers \/ BeginRun
  <2>1. UNCHANGED <<interruption, limit, cancelRequested>>
    BY <1>1 DEF Launch, BeginTools, WantSteers, WantFinalSteers, WantCancel, ClaimSteers,
                ClaimFinalSteers, BeginRun
  <2>2. ~cancelRequested
    BY <1>1 DEF Launch, BeginTools, WantSteers, WantFinalSteers, WantCancel, ClaimSteers,
                ClaimFinalSteers, BeginRun, EndingInv
  <2>3. /\ run' = "canceled" => run = "canceled"
        /\ pc' \notin {"cancelled", "reaping", "unwinding", "interrupted", "canceling", "done"}
        /\ pc' = "finishing" => outcome' # "canceled"
    BY <1>1 DEF Launch, BeginTools, WantSteers, WantFinalSteers, WantCancel, ClaimSteers,
                ClaimFinalSteers, BeginRun, AwaitStep
  <2>4. pc # "begin"
    BY <1>1 DEF Launch, BeginTools, WantSteers, WantFinalSteers, WantCancel, ClaimSteers,
                ClaimFinalSteers, BeginRun
  <2> QED BY <1>c, <2>1, <2>2, <2>3, <2>4
<1>2. CASE DeliverCancel \/ Unwind \/ External \/ Poll
  <2>1. UNCHANGED <<interruption, limit, run>> /\ pc # "begin"
    BY <1>2 DEF DeliverCancel, Unwind, External, ModelAnswers, ToolEnds, Poll, Suspended
  <2>2. /\ pc' \notin {"cancelled", "reaping", "canceling", "done"}
        /\ pc' = "finishing" => outcome' # "canceled"
        /\ pc' = "launch" => ~cancelRequested'
        /\ cancelRequested' \/ pc' \in {"unwinding", "interrupted"} =>
                cancelRequested \/ pc \in {"unwinding", "interrupted"}
    BY <1>2 DEF DeliverCancel, Unwind, External, ModelAnswers, ToolEnds, Poll, Suspended, Caused
  <2> QED BY <1>c, <2>1, <2>2
<1>3. CASE BeginStep
  <2>1. pc' = "begun" /\ run' = run /\ cancelRequested' = cancelRequested /\ ~cancelRequested
    BY <1>3 DEF BeginStep, EndingInv
  <2> QED BY <1>b, <2>1 DEF Caused
<1>4. CASE ClaimCancel
  <2>1. run' = run /\ run # "canceled" /\ limit' = limit /\ cancelRequested' = cancelRequested
        /\ ~cancelRequested /\ pc # "begin"
    BY <1>4, <1>a DEF ClaimCancel, EndingInv
  <2>2. CASE Claimed(wanted) = {}
    BY <1>4, <1>c, <2>1, <2>2 DEF ClaimCancel, AwaitStep
  <2>3. CASE Claimed(wanted) # {}
    <3>1. PICK c \in Controls : interruption' = c /\ pc' = "interrupted" /\ Pending(c)
      <4>1. PICK c \in wanted : c \in Controls /\ c \in Claimed(wanted) /\ First(wanted) = c
        BY <1>0, <1>4, <2>3, FirstOf DEF ClaimCancel, KindInv, TypeOK, Claimed
      <4> QED BY <1>4, <2>3, <4>1 DEF ClaimCancel, Claimed, Claimable
    <3>2. Pending(c)'
      BY <1>4, <3>1, PendingStays DEF ClaimCancel
    <3> QED BY <2>1, <3>1, <3>2 DEF Caused, Pending, NoControl, Controls
  <2> QED BY <2>2, <2>3
<1>5. CASE HandleCancelled
  <2>1. UNCHANGED <<store, interruption, limit, cancelRequested>> /\ pc = "interrupted"
        /\ pc' \in {"top", "canceling"} /\ ~cancelRequested
    BY <1>5 DEF HandleCancelled, EndingInv
  <2>2. pc' = "canceling" => limit \/ (IsA(interruption, "cancel") /\ Pending(interruption))
    <3>0. limit \/ Pending(interruption)
      BY <2>1 DEF Caused
    <3>1. SUFFICES ASSUME ~limit, ~IsA(interruption, "cancel") PROVE pc' # "canceling"
      BY <3>0
    <3>2. interruption \in Controls /\ Pending(interruption) /\ Exists(interruption)
      BY <1>0, <2>1, <3>1 DEF Caused
    <3>3. IsA(interruption, "steer") /\ control[interruption].timing = "immediate"
      BY <1>0, <3>1, <3>2 DEF KindInv, IsA, TypeOK, Row, Kinds, Exists
    <3>4. Refresh /\ pc' = IF ImmediateSteer THEN "top" ELSE "canceling"
      BY <1>5, <3>1 DEF HandleCancelled, Continuable
    <3>5. interruption \in RefreshedCache
      BY <2>1, <3>2, <3>4, RefreshCursor DEF Refresh
    <3> QED BY <3>3, <3>4, <3>5 DEF ImmediateSteer, CachedSteers
  <2> QED BY <1>c, <2>1, <2>2
<1>6. CASE ChooseCause
  <2>1. UNCHANGED <<store, interruption, limit, cancelRequested>> /\ pc = "canceling"
        /\ pc' = "finishing" /\ ~cancelRequested
    BY <1>6 DEF ChooseCause, EndingInv
  <2>2. outcome' = "canceled" => chosen' # NoControl
    BY <1>6, <2>1 DEF ChooseCause, Caused, IsA
  <2> QED BY <1>c, <2>1, <2>2
<1>7. CASE CancelUnstarted \/ Reap
  BY <1>7 DEF CancelUnstarted, Reap, Caused
<1>8. CASE FinishRun
  <2>1. pc' = "done" /\ pc = "finishing" /\ run' = outcome /\ cancelRequested' = cancelRequested
        /\ ~cancelRequested /\ FinishStore(outcome, chosen)
    BY <1>8 DEF FinishRun, FinishStore, EndingInv, Caused
  <2>2. ASSUME outcome = "canceled" PROVE CanceledByRequest'
    <3>1. chosen \in Controls /\ IsA(chosen, "cancel") /\ Pending(chosen)
      <4>1. ~Withdrawn
        BY WithdrawnStays
      <4> QED BY <1>0, <2>1, <2>2, <4>1 DEF Caused, ChosenInv, TypeOK, Withdrawn, Pending
    <3>2. control'[chosen].status = "applied"
      BY <1>0, <2>1, <3>1, FinishEffect DEF TypeOK, Typed
    <3>3. control'[chosen].kind = "cancel"
      BY <1>0, <3>1 DEF RowsKept, RowKept, IsA, Pending
    <3> QED BY <3>1, <3>2, <3>3 DEF CanceledByRequest, IsA
  <2> QED BY <2>1, <2>2 DEF Caused
<1>9. CASE ExpireLimit
  <2>1. limit' /\ UNCHANGED <<run, pc>> /\ pc \in {"call", "tool", "unwinding"}
    BY <1>9 DEF ExpireLimit
  <2> QED BY <1>b, <2>1 DEF Caused
<1>10. ASSUME NEW c \in Controls, Interrupt(c) PROVE Caused'
  <2>1. UNCHANGED <<run, limit, pc, outcome, chosen>> /\ pc \in {"call", "tool", "unwinding", "cancelled", "done"}
    BY <1>10 DEF Interrupt, Suspended
  <2>2. CASE UNCHANGED <<control, signals>>
    BY <1>b, <2>1, <2>2 DEF Caused, Pending
  <2>3. CASE Interrupts(c)
    <3>1. Pending(c) /\ interruption' = c /\ pc \in {"call", "tool", "unwinding"}
      BY <1>10, <2>1, <2>3 DEF Interrupt, Interrupts, Claimable, Live
    <3>2. Pending(c)'
      BY <2>1, <3>1, PendingStays
    <3> QED BY <1>b, <2>1, <3>1, <3>2 DEF Caused, Pending, NoControl, Controls
  <2> QED BY <1>10, <2>2, <2>3 DEF Interrupt
<1>11. ASSUME NEW reason \in Stops, Stop(reason) PROVE FALSE
  BY <1>11 DEF Stop
<1>12. CASE Client
  <2>1. UNCHANGED <<interruption, limit, cancelRequested, pc, outcome, chosen, run>>
    BY <1>12 DEF Client, Submit, CancelControl, ObserveThread, Accept, Insert, Revoke
  <2>2. CASE pc = "begin" \/ pc = "done"
    BY <1>b, <2>1, <2>2 DEF Caused, EndingInv
  <2>3. CASE pc # "begin" /\ pc # "done"
    <3>1. /\ pc' = "launch" => ~cancelRequested'
          /\ cancelRequested' => cancelRequested
          /\ pc' \notin {"cancelled", "reaping"}
          /\ pc' = "finishing" /\ outcome' = "canceled" => chosen' # NoControl
      BY <2>1 DEF Caused
    <3> QED BY <1>c, <2>1, <2>3, <3>1
  <2> QED BY <2>2, <2>3
<1>13. CASE UNCHANGED vars
  <2>1. UNCHANGED <<interruption, limit, cancelRequested, pc, outcome, chosen, run, control>>
    BY <1>13 DEF vars
  <2> QED BY <1>b, <2>1 DEF Caused, IsA, Pending
<1> QED
  BY ONLY [Next]_vars, <1>1, <1>2, <1>3, <1>4, <1>5, <1>6, <1>7, <1>8, <1>9, <1>10, <1>11,
     <1>12, <1>13 DEF Next, Slice, Loop

----------------------------------------------------------------------------

\* The second invariant is inductive under the first one.
LEMMA CauseStep == Inv /\ CauseInv /\ [Next]_vars => CauseInv'
  BY KindStep, CancelsStep, EndingStep, ChosenStep, WhyStep DEF CauseInv

\* Every reachable state satisfies both invariants.
LEMMA CauseHolds == Spec => [](Inv /\ CauseInv)
  BY InitInv, NextInv, InitCause, CauseStep, PTL DEF Spec

\* A run ends canceled only by a cancel that was written, because the executor
\* was stopped, or by what a withdrawn control had asked for: a steer never
\* cancels the run it steers, whatever the CancelledErrors it sends race with
\* (interrupt, _checkpoint_cancel, execute and _task_done of the executor).
THEOREM EndsForCause == Spec => []CanceledForCause
<1>1. Inv /\ CauseInv => CanceledForCause
  BY DEF Inv, PhaseInv, CauseInv, WhyInv, Caused, CanceledForCause, CanceledByRequest, Withdrawn
<1> QED BY <1>1, CauseHolds, PTL

----------------------------------------------------------------------------

\* A call starts at a checkpoint that found no cancel, or could not claim it.
LEMMA CallsStart ==
    Inv /\ [Next]_vars /\ EntersCall =>
        /\ pc \in {"begun", "claimCancel"}
        /\ WantCancel \/ ClaimCancel
<1> SUFFICES ASSUME Inv, [Next]_vars, EntersCall PROVE WantCancel \/ ClaimCancel
  BY DEF WantCancel, ClaimCancel
<1>1. CASE Slice
  BY <1>1 DEF Slice, EntersCall, Launch, BeginRun, WantSteers, ClaimSteers, BeginStep, BeginTools,
     WantFinalSteers, ClaimFinalSteers, DeliverCancel, Unwind, HandleCancelled, ChooseCause,
     CancelUnstarted, Reap, FinishRun, Goto
<1>2. CASE External
  BY <1>2 DEF External, EntersCall, ModelAnswers, ToolEnds, Goto
<1>3. pc' # pc
  BY DEF EntersCall
<1>4. CASE Loop \/ Client \/ UNCHANGED vars
  BY <1>3, <1>4 DEF Loop, Client, Poll, Interrupt, Stop, ExpireLimit, Submit, CancelControl,
     ObserveThread, vars, task
<1> QED BY <1>1, <1>2, <1>4 DEF Next

\* Once interrupt() or a checkpoint has claimed a cancel, or the time limit of
\* schedule_time_limit has expired, the task starts no model or tool call.
THEOREM NoCallOnceEnding == Spec => NoCallWhileEnding
<1>1. Inv /\ CauseInv /\ [Next]_vars =>
        [EntersCall =>
            /\ ~limit
            /\ ~\E c \in Controls :
                  Pending(c) /\ IsA(c, "cancel") /\ control[c].claimed]_vars
  BY CallsStart DEF CauseInv, EndingInv, Ending
<1>2. Spec => [][EntersCall =>
            /\ ~limit
            /\ ~\E c \in Controls :
                  Pending(c) /\ IsA(c, "cancel") /\ control[c].claimed]_vars
  BY <1>1, CauseHolds, PTL DEF Spec
<1> QED BY <1>2 DEF NoCallWhileEnding

----------------------------------------------------------------------------

\* The cancel that stop(reason=...) leaves behind stands until it is withdrawn
\* or the run is done.
LEMMA StopStep ==
    FALSE \notin Stops /\ Inv /\ CauseInv /\ CauseInv' /\ StopInv /\ [Next]_vars => StopInv'
<1> SUFFICES ASSUME FALSE \notin Stops, Inv, CauseInv, CauseInv', StopInv, [Next]_vars,
                    stopped', pc' # "done"
             PROVE  WithdrawnCancel' \/ LiveCancel' \/ pc' \in {"cancelled", "reaping"}
  BY DEF StopInv
<1>0. RowsKept /\ pc # "done" /\ Typed
  BY RowsAreKept, NotDoneYet DEF Inv, TypeOK, Typed
<1>1. LiveCancel => LiveCancel' \/ WithdrawnCancel'
  <2>1. SUFFICES ASSUME NEW c \in Controls, Pending(c), IsA(c, "cancel")
                 PROVE  LiveCancel' \/ WithdrawnCancel'
    BY DEF LiveCancel
  <2>2. IsA(c, "cancel")' /\ control'[c].status # "none"
    BY <1>0, <2>1 DEF RowsKept, RowKept, IsA, Pending
  <2>3. control'[c].status \in {"pending", "revoked"}
    BY <2>2 DEF CauseInv, CancelsInv
  <2> QED BY <2>2, <2>3 DEF LiveCancel, WithdrawnCancel, Pending
<1>2. ASSUME NEW reason \in Stops, Stop(reason)
      PROVE  LiveCancel' \/ WithdrawnCancel' \/ pc' \in {"cancelled", "reaping"}
  <2>1. reason = TRUE /\ pc' = pc /\ Suspended
    BY <1>2 DEF Stop, task
  <2>2. CASE ~Live
    BY <1>0, <2>1, <2>2 DEF Suspended, Live
  <2>3. CASE LiveCancel
    BY <1>1, <2>3
  <2>4. ASSUME NEW c \in Controls, Accept(c, "cancel", "immediate") PROVE LiveCancel'
    <3>1. /\ control'[c].kind = "cancel" /\ control'[c].status = "pending"
      BY <1>0, <2>4 DEF Accept, Insert, Typed
    <3> QED BY <3>1 DEF LiveCancel, Pending, IsA, NoControl, Controls
  <2> QED BY <1>2, <2>1, <2>2, <2>3, <2>4 DEF Stop, LiveCancel
<1>3. ASSUME stopped PROVE WithdrawnCancel' \/ LiveCancel' \/ pc' \in {"cancelled", "reaping"}
  <2>1. CASE WithdrawnCancel \/ LiveCancel
    BY <1>1, <2>1, WithdrawnStays
  <2>2. CASE pc \in {"cancelled", "reaping"}
    BY <1>0, <2>2 DEF Next, Slice, External, Loop, Client, Launch, BeginRun, WantSteers, ClaimSteers,
       BeginStep, WantCancel, ClaimCancel, BeginTools, WantFinalSteers, ClaimFinalSteers,
       DeliverCancel, Unwind, HandleCancelled, ChooseCause, CancelUnstarted, Reap, FinishRun,
       ModelAnswers, ToolEnds, Poll, Interrupt, Stop, ExpireLimit, Submit, CancelControl,
       ObserveThread, vars, task, Goto
  <2> QED BY <1>0, <1>3, <2>1, <2>2 DEF StopInv
<1>4. ASSUME ~stopped PROVE \E reason \in Stops : Stop(reason)
  BY <1>4 DEF Next, Slice, External, Loop, Client, Launch, BeginRun, WantSteers, ClaimSteers,
     BeginStep, WantCancel, ClaimCancel, BeginTools, WantFinalSteers, ClaimFinalSteers,
     DeliverCancel, Unwind, HandleCancelled, ChooseCause, CancelUnstarted, Reap, FinishRun,
     ModelAnswers, ToolEnds, Poll, Interrupt, ExpireLimit, Submit, CancelControl,
     ObserveThread, vars
<1> QED BY <1>2, <1>3, <1>4

\* After stop(reason=...) a call starts only if a cancel was withdrawn.  The
\* hypothesis leaves out stop() without a reason, which writes no cancel and of
\* which the property says nothing.
THEOREM NoCallOnceStopped == FALSE \notin Stops => (Spec => NoCallAfterStop)
<1> SUFFICES ASSUME FALSE \notin Stops PROVE Spec => NoCallAfterStop
  OBVIOUS
<1>1. Init => StopInv
  BY InitCause
<1>2. Inv /\ CauseInv /\ CauseInv' /\ StopInv /\ [Next]_vars => StopInv'
  BY StopStep
<1>3. Spec => [](Inv /\ CauseInv /\ StopInv)
  BY <1>1, <1>2, CauseHolds, PTL DEF Spec
<1>4. Inv /\ CauseInv /\ StopInv /\ [Next]_vars =>
        [EntersCall /\ stopped =>
            \E c \in Controls : IsA(c, "cancel") /\ control[c].status = "revoked"]_vars
  <2>1. SUFFICES ASSUME Inv, CauseInv, StopInv, [Next]_vars, EntersCall, stopped
                 PROVE  WithdrawnCancel
    BY DEF WithdrawnCancel
  <2>2. pc \in {"begun", "claimCancel"} /\ (WantCancel \/ ClaimCancel)
    BY <2>1, CallsStart
  <2>3. WithdrawnCancel \/ LiveCancel
    BY <2>1, <2>2 DEF StopInv
  <2>4. CASE WantCancel
    <3>1. Refresh /\ CachedCancels(RefreshedCache) = {}
      BY <2>1, <2>4 DEF WantCancel, EntersCall, Goto
    <3>2. ~LiveCancel
      BY <2>1, <2>2, <3>1, RefreshCursor DEF LiveCancel, Refresh, CachedCancels
    <3> QED BY <2>3, <3>2
  <2>5. CASE ClaimCancel
    <3>1. Claimed(wanted) = {} /\ pc = "claimCancel"
      BY <2>1, <2>5 DEF ClaimCancel, EntersCall, Goto
    <3>2. PICK c \in wanted : c \in Controls /\ Exists(c) /\ IsA(c, "cancel")
      BY <2>1, <3>1 DEF CauseInv, KindInv, Inv, TypeOK
    <3>3. control[c].status \in {"pending", "revoked"}
      BY <2>1, <3>1, <3>2 DEF CauseInv, CancelsInv, Exists
    <3>4. ~(Pending(c) /\ control[c].claimed)
      BY <2>1, <3>1, <3>2 DEF CauseInv, EndingInv, Ending
    <3>5. ~Claimable(c)
      BY <3>1, <3>2 DEF Claimed
    <3> QED BY <3>2, <3>3, <3>4, <3>5 DEF Claimable, Pending, WithdrawnCancel
  <2> QED BY <2>2, <2>4, <2>5
<1>5. Spec => [][EntersCall /\ stopped =>
            \E c \in Controls : IsA(c, "cancel") /\ control[c].status = "revoked"]_vars
  BY <1>3, <1>4, PTL DEF Spec
<1> QED BY <1>5 DEF NoCallAfterStop

----------------------------------------------------------------------------

\* What checkpoints read, as an invariant of its own: without worker threads
\* nothing is observed later than it was committed.
ForgetInv ==
    /\ observing = {}
    /\ pc # "done" => \A c \in cache : Pending(c) \/ control[c].revision > cursor

\* A settled row carries a revision the cursor has not reached.
LEMMA SettlesAhead ==
    Inv /\ [Next]_vars =>
        \A c \in Controls : Pending(c) =>
            Pending(c)' \/ (control'[c].revision = latest + 1 /\ latest' = latest + 1)
<1> SUFFICES ASSUME Inv, Transaction, NEW c \in Controls, Pending(c)
             PROVE  Pending(c)' \/ (control'[c].revision = latest + 1 /\ latest' = latest + 1)
  BY OneTransaction
<1>0. Typed
  BY DEF Inv, TypeOK, Typed
<1>1. CASE UNCHANGED control
  BY <1>1 DEF Pending
<1>2. ASSUME NEW S \in SUBSET Controls, Claim(S) PROVE Pending(c)'
  BY <1>0, <1>2, ClaimEffect DEF SameRow, Pending
<1>3. CASE BeginStep
  <2>1. Apply(claimedInputs) /\ claimedInputs \in SUBSET Controls
    BY <1>3 DEF BeginStep, Inv, TypeOK
  <2> QED BY <1>0, <2>1, ApplyEffect DEF Pending
<1>4. CASE FinishRun
  BY <1>0, <1>4, FinishEffect DEF FinishRun
<1>5. ASSUME NEW d \in Controls, NEW kind \in Kinds, NEW timing \in Timings, Accept(d, kind, timing)
      PROVE  Pending(c)'
  BY <1>0, <1>5, AcceptEffect DEF Pending
<1>6. ASSUME NEW d \in Controls, Revoke(d)
      PROVE  Pending(c)' \/ (control'[c].revision = latest + 1 /\ latest' = latest + 1)
  BY <1>0, <1>6, RevokeEffect DEF Pending
<1> QED BY <1>1, <1>2, <1>3, <1>4, <1>5, <1>6 DEF Transaction, store

\* Every step of a process without such threads keeps the cache so.
LEMMA ForgetStep ==
    "thread" \notin Clients /\ Inv /\ CauseInv /\ ForgetInv /\ [Next]_vars => ForgetInv'
<1> SUFFICES ASSUME "thread" \notin Clients, Inv, Inv', CauseInv, ForgetInv, [Next]_vars
             PROVE  ForgetInv'
  BY NextInv
<1>0. /\ pc' # "done" => pc # "done"
      /\ latest \in Nat /\ cursor \in Nat /\ cursor <= latest /\ cache \subseteq Controls
      /\ \A c \in cache : Exists(c)
      /\ \A c \in Controls : control[c].status # "none" => Pending(c) \/ control[c].status \in Settled
  <2>1. pc' # "done" => pc # "done"
    BY NotDoneYet
  <2>2. /\ latest \in Nat /\ cursor \in Nat /\ cursor <= latest /\ cache \subseteq Controls
        /\ \A c \in Controls : control[c].status \in {"none", "pending"} \cup Settled
    BY DEF Inv, TypeOK, Row
  <2> QED BY <2>1, <2>2 DEF CauseInv, KindInv, Pending
<1> USE DEF Goto, store, registry
<1>1. ASSUME Refresh, UNCHANGED <<control, observing>>, pc # "done" PROVE ForgetInv'
  <2>1. ASSUME NEW c \in cache' PROVE Pending(c)
    <3>1. c \in cache \cup ChangedPending /\ c \notin Changed \ ChangedPending
      BY <1>1, <2>1 DEF Refresh, RefreshedCache
    <3>2. c \in ChangedPending => Pending(c)
      BY DEF ChangedPending
    <3>3. c \in cache => Pending(c) \/ c \in Changed
      BY <1>0, <1>1 DEF ForgetInv, Changed, Exists
    <3> QED BY <3>1, <3>2, <3>3
  <2> QED BY <1>1, <2>1 DEF ForgetInv, Pending
<1>2. ASSUME cursor' = cursor, observing' = {}, pc' # "done" => \A c \in cache' : c \in cache \/ Pending(c)'
      PROVE  ForgetInv'
  <2>1. SUFFICES ASSUME pc' # "done", NEW c \in cache', c \in cache
                 PROVE  Pending(c)' \/ control'[c].revision > cursor
    BY <1>2 DEF ForgetInv
  <2>2. CASE Pending(c)
    BY <1>0, <2>1, <2>2, SettlesAhead
  <2>3. CASE ~Pending(c)
    <3>1. control[c].revision > cursor /\ control[c].status \in Settled /\ c \in Controls
      BY <1>0, <2>1, <2>3 DEF ForgetInv, Exists
    <3> QED BY <3>1, FinalStep
  <2> QED BY <2>2, <2>3
<1>3. CASE WantSteers \/ WantCancel \/ WantFinalSteers \/ BeginTools \/ Poll
  BY <1>1, <1>3 DEF WantSteers, WantCancel, WantFinalSteers, BeginTools, Poll
<1>4. CASE HandleCancelled \/ ChooseCause
  BY <1>1, <1>2, <1>4 DEF HandleCancelled, ChooseCause, ForgetInv
<1>5. CASE \/ Launch \/ BeginRun \/ ClaimSteers \/ ClaimCancel \/ ClaimFinalSteers \/ DeliverCancel
           \/ Unwind \/ CancelUnstarted \/ Reap \/ External
  BY <1>2, <1>5 DEF Launch, BeginRun, ClaimSteers, ClaimCancel, ClaimFinalSteers, DeliverCancel, Unwind,
     CancelUnstarted, Reap, External, ModelAnswers, ToolEnds, ForgetInv
<1>6. CASE BeginStep \/ FinishRun \/ ExpireLimit
  BY <1>2, <1>6 DEF BeginStep, FinishRun, ExpireLimit, ForgetInv
<1>7. ASSUME NEW c \in Controls, Interrupt(c) PROVE ForgetInv'
  BY <1>2, <1>7 DEF Interrupt, ForgetInv
<1>8. ASSUME NEW reason \in Stops, Stop(reason) PROVE ForgetInv'
  <2>1. cursor' = cursor /\ observing' = {}
    BY <1>8 DEF Stop, ForgetInv
  <2>2. CASE UNCHANGED <<store, cache, callbacks>>
    BY <1>2, <2>1, <2>2
  <2>3. ASSUME NEW c \in Controls, Accept(c, "cancel", "immediate"), Observe(c, "pending", "immediate")
        PROVE  ForgetInv'
    BY <1>2, <2>1, <2>3, AcceptEffect DEF Observe, Pending, Inv, TypeOK, Typed, Kinds, Timings
  <2> QED BY <1>8, <2>2, <2>3 DEF Stop
<1>9. ASSUME NEW client \in Clients, NEW c \in Controls, NEW request \in Requests,
             Submit(client, c, request[1], request[2])
      PROVE  ForgetInv'
  <2>1. request[1] \in Kinds /\ request[2] \in Timings
    OBVIOUS
  <2>2. Pending(c)'
    BY <1>9, <2>1, AcceptEffect DEF Submit, Pending, Inv, TypeOK, Typed
  <2>3. CASE client = "remote"
    BY <1>2, <1>9, <2>3 DEF Submit, Deliver, ForgetInv
  <2>4. CASE client = "loop"
    BY <1>2, <1>9, <2>2, <2>4 DEF Submit, Deliver, Observe, ForgetInv
  <2> QED BY <2>3, <2>4
<1>10. ASSUME NEW client \in Clients, NEW c \in Controls, CancelControl(client, c) PROVE ForgetInv'
  <2>1. CASE client = "remote"
    BY <1>2, <1>10, <2>1 DEF CancelControl, Deliver, ForgetInv
  <2>2. CASE client = "loop"
    BY <1>2, <1>10, <2>2 DEF CancelControl, Deliver, Observe, ForgetInv
  <2> QED BY <2>1, <2>2
<1>11. CASE \E c \in Controls, status \in {"pending", "revoked"} : ObserveThread(c, status)
  BY <1>11 DEF ObserveThread, ForgetInv
<1>12. CASE UNCHANGED vars
  BY <1>2, <1>12 DEF vars, ForgetInv
<1> QED
  BY ONLY [Next]_vars, <1>3, <1>4, <1>5, <1>6, <1>7, <1>8, <1>9, <1>10, <1>11, <1>12
     DEF Next, Slice, Loop, Client

\* Where no worker thread of the owner's process writes controls, the cache the
\* checkpoints read holds no settled control that the next refresh would not
\* drop.  With such a thread it may: a record observed after its control was
\* applied stays, which is why the hypothesis is there.
THEOREM CacheForgets == "thread" \notin Clients => (Spec => []CacheForgetsSettled)
<1> SUFFICES ASSUME "thread" \notin Clients PROVE Spec => []CacheForgetsSettled
  OBVIOUS
<1>1. Init => ForgetInv
  BY DEF Init, ForgetInv
<1>2. Inv /\ CauseInv /\ ForgetInv /\ [Next]_vars => ForgetInv'
  BY ForgetStep
<1>3. ForgetInv => CacheForgetsSettled
  BY DEF ForgetInv, CacheForgetsSettled, Registered
<1> QED BY <1>1, <1>2, <1>3, CauseHolds, PTL DEF Spec
====
