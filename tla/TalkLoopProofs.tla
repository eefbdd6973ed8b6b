---- MODULE TalkLoopProofs ----
(***************************************************************************)
(* Proofs about TalkLoop, for any number of hubs, conversations, entries,  *)
(* restarts and late cursor writes.  First what the steps do to one        *)
(* receipt, then the types, then the inductive invariant: it says of each  *)
(* await of the loop what the batch in hand, the hub's cursor and the      *)
(* receipts in the database have to do with each other.                    *)
(***************************************************************************)
EXTENDS TalkLoop, FiniteSetTheorems, TLAPS

USE ConstantsAssumption

Batches == [conversation : Conversations, after : Positions, through : Positions]

\* Where the loop has a batch of its own in hand, before it saves its end.
Reading == {"reading", "rules"}
InHand == Reading \cup {"handling", "replying"}
Locations == InHand \cup {"wait", "checking", "writing", "cursor", "final", "done"}

TypeInv ==
    /\ entries \in [Scopes -> Seq({"incoming", "own"})]
    /\ cursor \in [Scopes -> Nat]
    /\ \A s \in Scopes : Len(entries[s]) <= MaxEntries /\ cursor[s] <= Len(entries[s])
    /\ member \in [Scopes -> BOOLEAN] /\ strayed \subseteq Scopes
    /\ late \subseteq Scopes \X Positions
    /\ hub \in Hubs /\ identity \in Hubs \cup {"none"}
    /\ receipts \in [Scopes -> [Positions -> Receipt]]
    /\ bound \in [Conversations -> Hubs \cup {"none"}]
    /\ at \in Locations /\ signal \in {"none", "cancelled", "raised", "swallowed"}
    /\ pending \in {NoPending} \cup Conversations \X Positions
    /\ last \in {0} \cup Conversations /\ left \subseteq Conversations
    /\ batch \in Batches \cup {NoBatch}
    /\ restarts \in 0..MaxRestarts

\* What the loop holds at each of its awaits.
PhaseInv ==
    /\ batch = NoBatch <=> at \in {"wait", "checking", "writing", "cursor", "done"}
    /\ at \in InHand \cup {"cursor"} => pending = NoPending
    /\ at \in {"checking", "writing", "final"} => pending # NoPending
    /\ pending # NoPending \/ at \in InHand \cup {"cursor"} => identity \in Hubs

\* The batch in hand starts where the cursor was when it was read, and its
\* receipt is the one of the handler that is awaited.
BatchInv ==
    at \in InHand =>
        /\ batch.after <= cursor[Here]
        /\ Here \notin strayed => cursor[Here] = batch.after
        /\ at \in Reading => Current.status = "none"
        /\ at = "rules" => batch.after < batch.through /\ batch.through <= Len(entries[Here])
        /\ at \in {"handling", "replying"} => Current.through = batch.through
        /\ at = "handling" => Current.status \in {"active"} \cup Ended
        /\ at = "replying" => Current.status \in Ended /\ Current.notice /\ Current.sent = 0

ReceiptInv(s, a) ==
    /\ receipts[s][a].status # "none" =>
            a < receipts[s][a].through /\ receipts[s][a].through <= Len(entries[s])
    /\ receipts[s][a].sent <= 1
    /\ ~receipts[s][a].notice => receipts[s][a].sent = 0
    /\ receipts[s][a].status # "none" /\ s \notin strayed =>
            a = cursor[s] \/ receipts[s][a].through <= cursor[s]
ReceiptsInv == \A s \in Scopes, a \in Positions : ReceiptInv(s, a)

\* Every message up to x is in the range of a run that has ended.
Covered(s, x) ==
    /\ x <= Len(entries[s])
    /\ \A i \in 1..x : entries[s][i] = "incoming" =>
            \E a \in Positions : i \in Handed(s, a) /\ receipts[s][a].status \in Ended

\* A position that may still be written to the hub passes no other message,
\* and no receipt of a run by half.
CoverInv ==
    /\ \A s \in Scopes : Covered(s, cursor[s])
    /\ \A s \in Scopes, x \in Positions : <<s, x>> \in late => Covered(s, x)
    /\ pending # NoPending => Covered(Target, pending[2])
PendingInv ==
    pending # NoPending /\ Target \notin strayed /\ cursor[Target] < pending[2] =>
        (receipts[Target][cursor[Target]].status # "none" =>
            receipts[Target][cursor[Target]].through <= pending[2])

TalkInv ==
    /\ TypeInv /\ PhaseInv /\ BatchInv /\ ReceiptsInv /\ CoverInv /\ PendingInv
    /\ HandledOnce /\ HandlersAreAwaited

----------------------------------------------------------------------------

\* The initial state satisfies the invariant.
LEMMA InitTalk == Init => TalkInv
<1> SUFFICES ASSUME Init PROVE TalkInv
  OBVIOUS
<1>0. /\ \A s \in Scopes : entries[s] = <<>> /\ cursor[s] = 0
      /\ \A s \in Scopes, a \in Positions : receipts[s][a] = NoReceipt
      /\ late = {} /\ strayed = {} /\ at = "wait" /\ pending = NoPending /\ batch = NoBatch
  BY DEF Init
<1>1. TypeInv
  <2>1. receipts \in [Scopes -> [Positions -> Receipt]]
    <3>1. NoReceipt \in Receipt
      BY DEF NoReceipt, Receipt, Positions
    <3> HIDE DEF NoReceipt
    <3> QED BY <3>1 DEF Init
  <2>2. entries \in [Scopes -> Seq({"incoming", "own"})] /\ cursor \in [Scopes -> Nat]
    BY DEF Init
  <2>3. \A s \in Scopes : Len(entries[s]) <= MaxEntries /\ cursor[s] <= Len(entries[s])
    BY <1>0
  <2>4. /\ member \in [Scopes -> BOOLEAN] /\ strayed \subseteq Scopes /\ late \subseteq Scopes \X Positions
        /\ hub \in Hubs /\ identity \in Hubs \cup {"none"}
        /\ bound \in [Conversations -> Hubs \cup {"none"}]
        /\ signal \in {"none", "cancelled", "raised", "swallowed"}
        /\ last \in {0} \cup Conversations /\ left \subseteq Conversations
        /\ restarts \in 0..MaxRestarts
    BY DEF Init
  <2> QED BY <1>0, <2>1, <2>2, <2>3, <2>4 DEF TypeInv, Locations
<1>2. PhaseInv /\ BatchInv /\ PendingInv
  BY <1>0 DEF PhaseInv, BatchInv, PendingInv, InHand, Reading
<1>3. ReceiptsInv /\ HandledOnce /\ HandlersAreAwaited
  BY <1>0 DEF ReceiptsInv, ReceiptInv, HandledOnce, HandlersAreAwaited, NoReceipt
<1>4. CoverInv
  BY <1>0 DEF CoverInv, Covered
<1> QED BY <1>1, <1>2, <1>3, <1>4 DEF TalkInv

----------------------------------------------------------------------------

\* Only the receipt of the batch that starts after a changes.
Others(s, a) ==
    /\ receipts' \in [Scopes -> [Positions -> Receipt]]
    /\ \A t \in Scopes, b \in Positions :
            (t # s \/ b # a) => receipts'[t][b] = receipts[t][b]

\* mark_failure_sent: the receipt remembers that its failure was reported.
LEMMA NoticeEffect ==
    ASSUME TypeInv, NEW s \in Scopes, NEW a \in Positions,
           receipts' = [receipts EXCEPT ![s][a] = Reported(@)]
    PROVE  /\ Others(s, a) /\ receipts'[s][a].notice
           /\ receipts'[s][a].status = receipts[s][a].status
           /\ receipts'[s][a].through = receipts[s][a].through
           /\ receipts'[s][a].sent = receipts[s][a].sent
<1>1. receipts[s][a] \in Receipt
  BY DEF TypeInv
<1> DEFINE r == [receipts[s][a] EXCEPT !.notice = TRUE]
<1>2. /\ r \in Receipt /\ r.notice /\ r.status = receipts[s][a].status
      /\ r.through = receipts[s][a].through /\ r.sent = receipts[s][a].sent
  BY <1>1 DEF Receipt
<1>3. receipts' = [receipts EXCEPT ![s][a] = r]
  BY DEF Reported
<1> HIDE DEF r
<1>4. receipts \in [Scopes -> [Positions -> Receipt]]
  BY DEF TypeInv
<1>5. Others(s, a) /\ receipts'[s][a] = r
  BY <1>2, <1>3, <1>4 DEF Others
<1> QED BY <1>2, <1>5

\* The failure reply is one more request.
LEMMA SentEffect ==
    ASSUME TypeInv, NEW s \in Scopes, NEW a \in Positions,
           receipts' = [receipts EXCEPT ![s][a].sent = @ + 1]
    PROVE  /\ Others(s, a)
           /\ receipts'[s][a].sent = receipts[s][a].sent + 1
           /\ receipts'[s][a].status = receipts[s][a].status
           /\ receipts'[s][a].through = receipts[s][a].through
           /\ receipts'[s][a].notice = receipts[s][a].notice
<1>1. receipts[s][a] \in Receipt
  BY DEF TypeInv
<1> DEFINE r == [receipts[s][a] EXCEPT !.sent = receipts[s][a].sent + 1]
<1>2. /\ r \in Receipt /\ r.notice = receipts[s][a].notice /\ r.status = receipts[s][a].status
      /\ r.through = receipts[s][a].through /\ r.sent = receipts[s][a].sent + 1
  BY <1>1 DEF Receipt
<1>3. receipts' = [receipts EXCEPT ![s][a] = r]
  OBVIOUS
<1> HIDE DEF r
<1>4. receipts \in [Scopes -> [Positions -> Receipt]]
  BY DEF TypeInv
<1>5. Others(s, a) /\ receipts'[s][a] = r
  BY <1>2, <1>3, <1>4 DEF Others
<1> QED BY <1>2, <1>5

\* accept_run writes the receipt of the batch in hand.
LEMMA AdmitEffect ==
    ASSUME TypeInv, NEW s \in Scopes, NEW a \in Positions, NEW through \in Positions,
           receipts' = [receipts EXCEPT ![s][a] =
                            [NoReceipt EXCEPT !.through = through, !.status = "active"]]
    PROVE  /\ Others(s, a)
           /\ receipts'[s][a].status = "active" /\ receipts'[s][a].through = through
           /\ ~receipts'[s][a].notice /\ receipts'[s][a].sent = 0
<1> DEFINE r == [NoReceipt EXCEPT !.through = through, !.status = "active"]
<1>1. r \in Receipt /\ r.status = "active" /\ r.through = through /\ ~r.notice /\ r.sent = 0
  BY DEF Receipt, NoReceipt
<1>2. receipts' = [receipts EXCEPT ![s][a] = r]
  OBVIOUS
<1> HIDE DEF r
<1>3. receipts \in [Scopes -> [Positions -> Receipt]]
  BY DEF TypeInv
<1>4. Others(s, a) /\ receipts'[s][a] = r
  BY <1>1, <1>2, <1>3 DEF Others
<1> QED BY <1>1, <1>4

\* A run that ends changes the status its receipt shows.
LEMMA EndEffect ==
    ASSUME TypeInv, NEW s \in Scopes, NEW a \in Positions, NEW status \in Ended,
           receipts' = [receipts EXCEPT ![s][a].status = status]
    PROVE  /\ Others(s, a) /\ receipts'[s][a].status = status
           /\ receipts'[s][a].through = receipts[s][a].through
           /\ receipts'[s][a].notice = receipts[s][a].notice
           /\ receipts'[s][a].sent = receipts[s][a].sent
<1>1. receipts[s][a] \in Receipt
  BY DEF TypeInv
<1> DEFINE r == [receipts[s][a] EXCEPT !.status = status]
<1>2. /\ r \in Receipt /\ r.notice = receipts[s][a].notice /\ r.status = status
      /\ r.through = receipts[s][a].through /\ r.sent = receipts[s][a].sent
  BY <1>1 DEF Receipt
<1>3. receipts' = [receipts EXCEPT ![s][a] = r]
  OBVIOUS
<1> HIDE DEF r
<1>4. receipts \in [Scopes -> [Positions -> Receipt]]
  BY DEF TypeInv
<1>5. Others(s, a) /\ receipts'[s][a] = r
  BY <1>2, <1>3, <1>4 DEF Others
<1> QED BY <1>2, <1>5

\* The end of a process orphans its active runs and changes no receipt else.
LEMMA RestartEffect ==
    ASSUME TypeInv,
           receipts' = [s \in Scopes |-> [a \in Positions |-> Orphaned(receipts[s][a])]]
    PROVE  /\ receipts' \in [Scopes -> [Positions -> Receipt]]
           /\ \A s \in Scopes, a \in Positions :
                /\ receipts'[s][a].status =
                        IF receipts[s][a].status = "active" THEN "orphaned" ELSE receipts[s][a].status
                /\ receipts'[s][a].through = receipts[s][a].through
                /\ receipts'[s][a].notice = receipts[s][a].notice
                /\ receipts'[s][a].sent = receipts[s][a].sent
<1>1. ASSUME NEW r \in Receipt
      PROVE  /\ Orphaned(r) \in Receipt
             /\ Orphaned(r).status = IF r.status = "active" THEN "orphaned" ELSE r.status
             /\ Orphaned(r).through = r.through /\ Orphaned(r).notice = r.notice
             /\ Orphaned(r).sent = r.sent
  BY <1>1 DEF Orphaned, Receipt
<1>2. \A s \in Scopes, a \in Positions : receipts[s][a] \in Receipt
  BY DEF TypeInv
<1> QED BY <1>1, <1>2

\* Posting appends one entry to one stream.
LEMMA PostEffect ==
    ASSUME TypeInv, NEW s \in Scopes, NEW kind \in {"incoming", "own"}, Post(s, kind)
    PROVE  /\ entries' \in [Scopes -> Seq({"incoming", "own"})]
           /\ \A t \in Scopes : /\ Len(entries[t]) <= Len(entries'[t])
                                /\ Len(entries'[t]) <= MaxEntries
                                /\ \A i \in 1..Len(entries[t]) : entries'[t][i] = entries[t][i]
           /\ UNCHANGED <<member, cursor, late, strayed>>
<1>1. /\ entries \in [Scopes -> Seq({"incoming", "own"})]
      /\ \A t \in Scopes : entries[t] \in Seq({"incoming", "own"}) /\ Len(entries[t]) <= MaxEntries
      /\ Len(entries[s]) < MaxEntries
      /\ entries' = [entries EXCEPT ![s] = Append(entries[s], kind)]
  BY DEF TypeInv, Post
<1> DEFINE es == Append(entries[s], kind)
<1>2. /\ es \in Seq({"incoming", "own"}) /\ Len(es) = Len(entries[s]) + 1
      /\ \A i \in 1..Len(entries[s]) : es[i] = entries[s][i]
  BY <1>1
<1>3. \A t \in Scopes : Len(entries[t]) \in Nat
  BY <1>1
<1> HIDE DEF es
<1>4. entries' = [entries EXCEPT ![s] = es]
  BY <1>1 DEF es
<1>5. entries' \in [Scopes -> Seq({"incoming", "own"})]
  BY <1>1, <1>2, <1>4
<1>6. ASSUME NEW t \in Scopes
      PROVE  /\ Len(entries[t]) <= Len(entries'[t]) /\ Len(entries'[t]) <= MaxEntries
             /\ \A i \in 1..Len(entries[t]) : entries'[t][i] = entries[t][i]
  BY <1>1, <1>2, <1>3, <1>4
<1> QED BY <1>5, <1>6 DEF Post

----------------------------------------------------------------------------

\* The batch in hand, and where it comes from.
LEMMA InHandFacts ==
    ASSUME TypeInv, PhaseInv, at \in InHand \cup {"final"}
    PROVE  /\ batch \in Batches
           /\ batch.conversation \in Conversations /\ batch.after \in Positions
           /\ batch.through \in Positions
           /\ at # "final" => Here \in Scopes /\ pending = NoPending
  BY DEF TypeInv, PhaseInv, InHand, Reading, Batches, Here, Scope, Scopes

\* A position that is still to be written belongs to a conversation of a hub.
LEMMA TargetFacts ==
    ASSUME TypeInv, PhaseInv, pending # NoPending
    PROVE  /\ pending[1] \in Conversations /\ pending[2] \in Positions
           /\ Target \in Scopes
  BY DEF TypeInv, PhaseInv, Target, Scope, Scopes

\* What the end of a batch does to the loop's fields and to its receipt.
LEMMA ConcludeTypes ==
    ASSUME TypeInv, NEW b \in Batches, Scope(b.conversation) \in Scopes,
           Conclude(b) \/ Fail(b) \/ (Save(b) /\ UNCHANGED receipts),
           pending = NoPending
    PROVE  /\ receipts' \in [Scopes -> [Positions -> Receipt]]
           /\ \/ at' = "replying" /\ pending' = NoPending
              \/ at' = "final" /\ pending' = <<b.conversation, b.through>>
           /\ pending' \in {NoPending} \cup Conversations \X Positions
<1>1. receipts \in [Scopes -> [Positions -> Receipt]] /\ b.after \in Positions
      /\ b.conversation \in Conversations /\ b.through \in Positions
  BY DEF TypeInv, Batches
<1>2. CASE UNCHANGED receipts /\ Save(b)
  BY <1>1, <1>2 DEF Save
<1>3. CASE /\ receipts' = [receipts EXCEPT ![Scope(b.conversation)][b.after] = Reported(@)]
           /\ at' = "replying" /\ UNCHANGED pending
  BY <1>1, <1>3, NoticeEffect DEF Others
<1> QED BY <1>2, <1>3 DEF Conclude, Fail

\* Every step keeps the types.
LEMMA TypeStep == TypeInv /\ PhaseInv /\ [Next]_vars => TypeInv'
<1> SUFFICES ASSUME TypeInv, PhaseInv, [Next]_vars PROVE TypeInv'
  OBVIOUS
<1> USE DEF hubSide, progress
\* Steps of the loop that leave the hub and the receipts alone.
<1>1. ASSUME UNCHANGED <<entries, member, cursor, late, strayed, hub, receipts, bound, restarts>>,
             identity' \in Hubs \cup {"none"},
             at' \in Locations, signal' \in {"none", "cancelled", "raised", "swallowed"},
             pending' \in {NoPending} \cup Conversations \X Positions,
             last' \in {0} \cup Conversations, left' \subseteq Conversations,
             batch' \in Batches \cup {NoBatch}
      PROVE  TypeInv'
  BY <1>1 DEF TypeInv
<1>2. CASE Poll
  <2>1. /\ UNCHANGED <<entries, member, cursor, late, strayed, hub, receipts, bound, restarts, batch, signal>>
        /\ identity' = hub /\ pending' \in {pending, NoPending} /\ last' \in {last, 0}
        /\ left' \subseteq Conversations /\ at' \in {"checking", "wait", "cursor"}
    BY <1>2 DEF Poll, Kept
  <2> QED BY <1>1, <2>1 DEF TypeInv, Locations
<1>3. CASE Confirm \/ ReadFails \/ WriteDenied \/ WriteRefused \/ Quit
  <2>1. UNCHANGED <<entries, member, cursor, late, strayed, hub, receipts, bound, restarts, identity, last>>
    BY <1>3 DEF Confirm, ReadFails, WriteDenied, WriteRefused, Quit
  <2>2. /\ at' \in Locations /\ signal' \in {"none", "cancelled", "raised", "swallowed"}
        /\ pending' \in {pending, NoPending} /\ left' \in {left, {}} /\ batch' \in {batch, NoBatch}
    BY <1>3 DEF Confirm, ReadFails, WriteDenied, WriteRefused, Quit, Return, Leave, Locations, TypeInv
  <2> QED BY <1>1, <2>1, <2>2 DEF TypeInv
<1>4. ASSUME NEW c \in Conversations, ReadCursor(c) PROVE TypeInv'
  <2>1. /\ UNCHANGED <<entries, member, cursor, late, strayed, hub, bound, restarts, identity, signal>>
        /\ pending = NoPending /\ Scope(c) \in Scopes
        /\ cursor[Scope(c)] \in Positions
    BY <1>4 DEF ReadCursor, PhaseInv, Scope, Scopes, TypeInv, Positions
  <2>2. receipts[Scope(c)][cursor[Scope(c)]] \in Receipt
    BY <2>1 DEF TypeInv
  <2>3. CASE UNCHANGED <<receipts, pending>> /\ at' \in {"wait", "done", "cursor", "reading"}
    <3>1. /\ last' \in {last, c} /\ left' \subseteq left
          /\ batch' \in {NoBatch, [conversation |-> c, after |-> cursor[Scope(c)],
                                   through |-> cursor[Scope(c)]]}
      BY <1>4, <2>3 DEF ReadCursor, Skip, Return, Conclude, Fail, Save
    <3> QED BY <1>1, <2>1, <2>3, <3>1 DEF TypeInv, Locations, InHand, Reading, Batches
  <2>4. ASSUME NEW b \in Batches, b.conversation = c, Conclude(b),
               batch' = b, left' = {}, last' = c
        PROVE  TypeInv'
    <3>1. /\ receipts' \in [Scopes -> [Positions -> Receipt]] /\ at' \in {"replying", "final"}
          /\ pending' \in {NoPending} \cup Conversations \X Positions
      BY <2>1, <2>4, ConcludeTypes
    <3> QED BY <2>1, <2>4, <3>1 DEF TypeInv, Locations, InHand
  <2>5. [conversation |-> c, after |-> cursor[Scope(c)], through |-> Recovered(c, cursor[Scope(c)])]
            \in Batches
    BY <2>1, <2>2 DEF Batches, Recovered, Receipt
  <2> QED BY <1>4, <2>3, <2>4, <2>5 DEF ReadCursor, Skip, Return
<1>5. CASE ReadEntries
  <2> DEFINE t == Through(Here, batch.after)
  <2>1. /\ UNCHANGED <<entries, member, cursor, late, strayed, hub, receipts, bound, restarts, identity, signal>>
        /\ batch \in Batches /\ batch.conversation \in Conversations /\ batch.after \in Positions
        /\ Here \in Scopes /\ pending = NoPending
    BY <1>5, InHandFacts DEF ReadEntries, InHand, Reading
  <2>2. t <= Len(entries[Here]) /\ t \in Int /\ Len(entries[Here]) <= MaxEntries
    BY <2>1 DEF Through, TypeInv, Positions
  <2>3. CASE ~member[Here] \/ t <= batch.after
    <3>1. /\ at' \in {"wait", "cursor"} /\ left' \subseteq left /\ batch' = NoBatch
          /\ UNCHANGED <<pending, last>>
      BY <1>5, <2>1, <2>2, <2>3 DEF ReadEntries, Skip, Positions
    <3> QED BY <1>1, <2>1, <3>1 DEF TypeInv, Locations
  <2>4. CASE t > batch.after
    <3>1. t \in Positions
      BY <2>1, <2>2, <2>4 DEF Positions
    <3>2. [batch EXCEPT !.through = t] \in Batches
          /\ [batch EXCEPT !.through = t].conversation = batch.conversation
          /\ [batch EXCEPT !.through = t].through = t
      BY <2>1, <3>1 DEF Batches
    <3>3. CASE ~member[Here]
      BY <2>3, <3>3
    <3>4. CASE member[Here]
      <4>1. /\ last' = batch.conversation /\ left' = {} /\ batch' = [batch EXCEPT !.through = t]
            /\ \/ at' = "rules" /\ UNCHANGED pending
               \/ at' = "final" /\ pending' = <<batch'.conversation, batch'.through>>
        BY <1>5, <2>1, <2>2, <2>4, <3>4 DEF ReadEntries, Save, Positions
      <4> HIDE DEF t
      <4>2. pending' \in {NoPending} \cup Conversations \X Positions
        BY <2>1, <3>1, <3>2, <4>1
      <4>3. at' \in Locations /\ batch' \in Batches
        BY <3>2, <4>1 DEF Locations, InHand, Reading
      <4> QED BY <1>1, <2>1, <4>1, <4>2, <4>3 DEF TypeInv
    <3> QED BY <3>3, <3>4
  <2> QED BY <2>1, <2>2, <2>3, <2>4 DEF Positions
<1>6. CASE Admit
  <2>1. /\ batch.conversation \in Conversations /\ batch.after \in Positions
        /\ batch.through \in Positions /\ Here \in Scopes /\ identity \in Hubs
    BY <1>6, InHandFacts DEF Admit, InHand, Reading, PhaseInv
  <2>2. receipts' \in [Scopes -> [Positions -> Receipt]]
    BY <1>6, <2>1, AdmitEffect DEF Admit, Others
  <2>3. bound' \in [Conversations -> Hubs \cup {"none"}]
    BY <1>6, <2>1 DEF Admit, Bind, TypeInv
  <2> QED BY <1>6, <2>2, <2>3 DEF Admit, TypeInv, Locations, InHand
<1>7. CASE Refuse
  <2>1. batch.conversation \in Conversations /\ identity \in Hubs
    BY <1>7, InHandFacts DEF Refuse, InHand, Reading, PhaseInv
  <2>2. bound' \in [Conversations -> Hubs \cup {"none"}]
    BY <1>7, <2>1 DEF Refuse, Bind, TypeInv
  <2>3. at' \in Locations /\ left' = {} /\ batch' = NoBatch
    BY <1>7 DEF Refuse, Return, Locations
  <2> QED BY <1>7, <2>2, <2>3 DEF Refuse, TypeInv
<1>8. CASE HandlerReturns
  <2>1. /\ batch \in Batches /\ Scope(batch.conversation) \in Scopes /\ pending = NoPending
    BY <1>8, InHandFacts DEF HandlerReturns, InHand, Here
  <2>2. /\ receipts' \in [Scopes -> [Positions -> Receipt]] /\ at' \in {"replying", "final"}
        /\ pending' \in {NoPending} \cup Conversations \X Positions
    BY <1>8, <2>1, ConcludeTypes DEF HandlerReturns
  <2> QED BY <1>8, <2>2 DEF HandlerReturns, TypeInv, Locations, InHand
<1>9. ASSUME ReplySent, at \in InHand
      PROVE  /\ entries' \in [Scopes -> Seq({"incoming", "own"})]
             /\ \A s \in Scopes : Len(entries'[s]) <= MaxEntries /\ cursor[s] <= Len(entries'[s])
             /\ UNCHANGED <<member, cursor, late, strayed>>
             /\ receipts' \in [Scopes -> [Positions -> Receipt]]
  <2>1. Here \in Scopes /\ batch.after \in Positions
    BY <1>9, InHandFacts DEF InHand, Reading
  <2>2. receipts' \in [Scopes -> [Positions -> Receipt]]
    BY <1>9, <2>1, SentEffect DEF ReplySent, Others
  <2>3. CASE UNCHANGED hubSide
    BY <2>2, <2>3 DEF TypeInv
  <2>4. CASE Post(Here, "own")
    <3>1. \A s \in Scopes : Len(entries[s]) \in Nat /\ cursor[s] \in Nat /\ cursor[s] <= Len(entries[s])
      BY DEF TypeInv
    <3>2. /\ entries' \in [Scopes -> Seq({"incoming", "own"})] /\ UNCHANGED <<member, cursor, late, strayed>>
          /\ \A s \in Scopes : Len(entries'[s]) <= MaxEntries /\ Len(entries[s]) <= Len(entries'[s])
      BY <2>1, <2>4, PostEffect
    <3>3. \A s \in Scopes : Len(entries'[s]) \in Nat
      BY <3>2
    <3> QED BY <2>2, <3>1, <3>2, <3>3
  <2> QED BY <1>9, <2>3, <2>4 DEF ReplySent
<1>10. CASE Reply
  <2>1. /\ batch \in Batches /\ at = "replying" /\ UNCHANGED <<hub, bound, identity, last, left, batch, signal, restarts>>
        /\ at' = "final" /\ pending' = <<batch.conversation, batch.through>> /\ ReplySent
    BY <1>10, InHandFacts DEF Reply, InHand, Save
  <2>2. pending' \in {NoPending} \cup Conversations \X Positions
    BY <2>1 DEF Batches
  <2>3. at \in InHand
    BY <2>1 DEF InHand
  <2>4. /\ entries' \in [Scopes -> Seq({"incoming", "own"})]
        /\ \A s \in Scopes : Len(entries'[s]) <= MaxEntries /\ cursor[s] <= Len(entries'[s])
        /\ UNCHANGED <<member, cursor, late, strayed>>
        /\ receipts' \in [Scopes -> [Positions -> Receipt]]
    BY <1>9, <2>1, <2>3
  <2> QED BY <2>1, <2>2, <2>4 DEF TypeInv, Locations
<1>11. CASE WriteConfirmed
  <2>1. /\ Target \in Scopes /\ pending[2] \in Positions /\ pending[2] <= Len(entries[Target])
    BY <1>11, TargetFacts DEF WriteConfirmed, PhaseInv, Accepts
  <2>2. /\ cursor' \in [Scopes -> Nat] /\ \A s \in Scopes : cursor'[s] <= Len(entries[s])
    BY <1>11, <2>1 DEF WriteConfirmed, TypeInv, Positions
  <2>3. at' \in Locations /\ left' = {} /\ batch' = NoBatch /\ pending' = NoPending
    BY <1>11 DEF WriteConfirmed, Return, Locations
  <2> QED BY <1>11, <2>2, <2>3 DEF WriteConfirmed, TypeInv
<1>12. CASE WriteUnanswered
  <2>1. /\ Target \in Scopes /\ pending[2] \in Positions
    BY <1>12, TargetFacts DEF WriteUnanswered, PhaseInv
  <2>2. /\ cursor' \in [Scopes -> Nat] /\ \A s \in Scopes : cursor'[s] <= Len(entries[s])
    <3>1. CASE UNCHANGED cursor
      BY <3>1 DEF TypeInv
    <3>2. CASE Accepts(Target, pending[2]) /\ cursor' = [cursor EXCEPT ![Target] = pending[2]]
      BY <2>1, <3>2 DEF TypeInv, Accepts, Positions
    <3> QED BY <1>12, <3>1, <3>2 DEF WriteUnanswered, Unanswered
  <2>3. late' \subseteq Scopes \X Positions
    BY <1>12, <2>1 DEF WriteUnanswered, Unanswered, TypeInv
  <2>4. at' \in Locations /\ left' = {} /\ batch' = NoBatch /\ UNCHANGED <<entries, member, strayed>>
    BY <1>12 DEF WriteUnanswered, Unanswered, Return, Locations
  <2> QED BY <1>12, <2>2, <2>3, <2>4 DEF WriteUnanswered, TypeInv
<1>13. CASE Stop
  <2>1. UNCHANGED <<hub, bound, identity, last, restarts>>
        /\ signal' \in {"none", "cancelled", "raised", "swallowed"}
    BY <1>13 DEF Stop
  <2>2. CASE Leave /\ UNCHANGED <<hubSide, receipts>>
    BY <1>1, <2>1, <2>2 DEF Leave, TypeInv, Locations
  <2>3. CASE CancelHandler /\ UNCHANGED <<hubSide, receipts>>
    BY <1>1, <2>1, <2>3 DEF CancelHandler, TypeInv
  <2>4. CASE at = "handling" /\ Fail(batch) /\ UNCHANGED <<hubSide, left, batch>>
    <3>1. batch \in Batches /\ Scope(batch.conversation) \in Scopes /\ pending = NoPending
      BY <2>4, InHandFacts DEF InHand, Here
    <3>2. /\ receipts' \in [Scopes -> [Positions -> Receipt]] /\ at' \in {"replying", "final"}
          /\ pending' \in {NoPending} \cup Conversations \X Positions
      BY <2>4, <3>1, ConcludeTypes
    <3> QED BY <2>1, <2>4, <3>2 DEF TypeInv, Locations, InHand
  <2>5. CASE at = "replying" /\ ReplySent /\ Save(batch) /\ UNCHANGED <<left, batch>>
    <3>1. at \in InHand /\ batch \in Batches
      BY <2>5, InHandFacts DEF InHand
    <3>2. /\ entries' \in [Scopes -> Seq({"incoming", "own"})]
          /\ \A s \in Scopes : Len(entries'[s]) <= MaxEntries /\ cursor[s] <= Len(entries'[s])
          /\ UNCHANGED <<member, cursor, late, strayed>>
          /\ receipts' \in [Scopes -> [Positions -> Receipt]]
      BY <1>9, <2>5, <3>1
    <3>3. at' = "final" /\ pending' \in {NoPending} \cup Conversations \X Positions
      BY <2>5, <3>1 DEF Save, Batches
    <3> QED BY <2>1, <2>5, <3>2, <3>3 DEF TypeInv, Locations
  <2> QED BY <1>13, <2>2, <2>3, <2>4, <2>5 DEF Stop
<1>14. CASE Restart
  <2>1. receipts' \in [Scopes -> [Positions -> Receipt]]
    BY <1>14, RestartEffect DEF Restart
  <2>2. restarts' \in 0..MaxRestarts
    BY <1>14 DEF Restart, TypeInv
  <2> QED BY <1>14, <2>1, <2>2 DEF Restart, TypeInv, Locations
<1>15. ASSUME NEW s \in Scopes, NEW a \in Positions, NEW status \in Ended, RunEnds(s, a, status)
       PROVE  TypeInv'
  <2>1. receipts' \in [Scopes -> [Positions -> Receipt]]
    BY <1>15, EndEffect DEF RunEnds, Others
  <2> QED BY <1>15, <2>1 DEF RunEnds, TypeInv
<1>16. ASSUME NEW h \in Hubs, Switch(h) PROVE TypeInv'
  BY <1>16 DEF Switch, TypeInv
<1>17. CASE Hub
  <2>1. UNCHANGED <<hub, receipts, bound, at, progress, signal, restarts>>
    BY <1>17 DEF Hub
  <2>2. ASSUME NEW s \in Scopes, NEW kind \in {"incoming", "own"}, Post(s, kind) PROVE TypeInv'
    <3>1. /\ entries' \in [Scopes -> Seq({"incoming", "own"})] /\ UNCHANGED <<member, cursor, late, strayed>>
          /\ \A t \in Scopes : Len(entries'[t]) <= MaxEntries /\ Len(entries[t]) <= Len(entries'[t])
      BY <2>2, PostEffect
    <3>2. \A t \in Scopes : Len(entries'[t]) \in Nat
      BY <3>1
    <3>3. \A t \in Scopes : Len(entries[t]) \in Nat /\ cursor[t] \in Nat /\ cursor[t] <= Len(entries[t])
      BY DEF TypeInv
    <3>4. ASSUME NEW t \in Scopes PROVE cursor[t] <= Len(entries'[t])
      <4>1. /\ Len(entries'[t]) \in Nat /\ Len(entries[t]) \in Nat /\ cursor[t] \in Nat
            /\ cursor[t] <= Len(entries[t]) /\ Len(entries[t]) <= Len(entries'[t])
        BY <3>1, <3>2, <3>3
      <4> QED BY <4>1
    <3> QED BY <2>1, <3>1, <3>4 DEF TypeInv
  <2>3. ASSUME NEW s \in Scopes, Membership(s) PROVE TypeInv'
    <3>1. member' \in [Scopes -> BOOLEAN]
      BY <2>3 DEF Membership, TypeInv
    <3> QED BY <2>1, <2>3, <3>1 DEF Membership, TypeInv
  <2>4. ASSUME NEW s \in Scopes, NEW x \in Positions, LateWrite(s, x) PROVE TypeInv'
    <3>1. cursor' \in [Scopes -> Nat] /\ \A t \in Scopes : cursor'[t] <= Len(entries[t])
      BY <2>4 DEF LateWrite, TypeInv, Accepts, Positions
    <3>2. late' \subseteq Scopes \X Positions /\ strayed' \subseteq Scopes /\ UNCHANGED <<entries, member>>
      BY <2>4 DEF LateWrite, TypeInv
    <3> QED BY <2>1, <3>1, <3>2 DEF TypeInv
  <2> QED BY <1>17, <2>2, <2>3, <2>4 DEF Hub
<1>18. CASE UNCHANGED vars
  BY <1>1, <1>18 DEF vars, TypeInv
<1> QED
  BY ONLY [Next]_vars, <1>2, <1>3, <1>4, <1>5, <1>6, <1>7, <1>8, <1>10, <1>11, <1>12, <1>13,
     <1>14, <1>15, <1>16, <1>17, <1>18 DEF Next, Consume

----------------------------------------------------------------------------

\* A batch is none of the placeholders.
LEMMA NoBatchIsNone == NoBatch \notin Batches /\ NoPending \notin Conversations \X Positions
  BY DEF NoBatch, Batches, NoPending

\* Every step goes from one await to another the way PhaseInv says.
LEMMA PhaseStep == TypeInv /\ TypeInv' /\ PhaseInv /\ [Next]_vars => PhaseInv'
<1> SUFFICES ASSUME TypeInv, TypeInv', PhaseInv, [Next]_vars PROVE PhaseInv'
  OBVIOUS
<1> USE DEF hubSide, progress
<1>a. at' \in {"final", "replying"} /\ batch' \in Batches /\ identity' = identity
      /\ at \in InHand \cup {"cursor"}
      /\ (at' = "replying" => pending' = NoPending) /\ (at' = "final" => pending' # NoPending)
        => PhaseInv'
  BY NoBatchIsNone DEF PhaseInv, InHand, Reading
<1>b. ASSUME NEW b \in Batches, Save(b) PROVE at' = "final" /\ pending' # NoPending
  BY <1>b, NoBatchIsNone DEF Save, Batches
<1>c. ASSUME NEW b \in Batches, batch' = b, identity' = identity, Conclude(b) \/ Fail(b),
             at \in InHand \cup {"cursor"}
      PROVE  PhaseInv'
  <2>1. CASE Save(b)
    BY <1>a, <1>b, <1>c, <2>1
  <2>2. CASE at' = "replying" /\ UNCHANGED pending
    BY <1>a, <1>c, <2>2 DEF PhaseInv
  <2> QED BY <1>c, <2>1, <2>2 DEF Conclude, Fail
<1>1. CASE Poll
  BY <1>1 DEF Poll, Kept, PhaseInv, InHand, Reading, TypeInv
<1>2. CASE Confirm
  BY <1>2 DEF Confirm, PhaseInv, InHand, Reading
<1>3. CASE ReadFails \/ WriteDenied \/ WriteRefused \/ WriteConfirmed \/ WriteUnanswered \/ Refuse
  <2>1. /\ at' \in {"done", "wait"} /\ batch' = NoBatch /\ pending' \in {pending, NoPending}
        /\ identity' = identity
    BY <1>3 DEF ReadFails, WriteDenied, WriteRefused, WriteConfirmed, WriteUnanswered, Refuse, Return
  <2> QED BY <2>1 DEF PhaseInv, InHand, Reading
<1>4. ASSUME NEW c \in Conversations, ReadCursor(c) PROVE PhaseInv'
  <2>1. /\ identity' = identity /\ at = "cursor" /\ pending = NoPending /\ identity \in Hubs
    BY <1>4 DEF ReadCursor, PhaseInv
  <2>2. CASE UNCHANGED pending /\ at' = "reading" /\ batch' \in Batches
    BY <2>1, <2>2, NoBatchIsNone DEF PhaseInv, InHand, Reading
  <2>3. CASE UNCHANGED pending /\ at' \in {"wait", "done", "cursor"} /\ batch' = NoBatch
    BY <2>1, <2>3 DEF PhaseInv, InHand, Reading
  <2>4. ASSUME NEW b, batch' = b, Conclude(b), b # NoBatch PROVE PhaseInv'
    <3>1. b \in Batches
      BY <2>4 DEF TypeInv
    <3> QED BY <1>c, <2>1, <2>4, <3>1
  <2>5. \A a, t : [conversation |-> c, after |-> a, through |-> t] # NoBatch
    BY DEF NoBatch
  <2>6. CASE at' = "reading" /\ UNCHANGED pending
            /\ batch' = [conversation |-> c, after |-> cursor[Scope(c)], through |-> cursor[Scope(c)]]
    BY <2>2, <2>5, <2>6 DEF TypeInv
  <2> QED BY <1>4, <2>3, <2>4, <2>5, <2>6 DEF ReadCursor, Skip, Return
<1>5. CASE ReadEntries
  <2>1. identity' = identity /\ at = "reading" /\ pending = NoPending /\ identity \in Hubs
        /\ batch \in Batches
    BY <1>5, InHandFacts DEF ReadEntries, PhaseInv, InHand, Reading
  <2>2. CASE Skip /\ UNCHANGED pending
    BY <2>1, <2>2 DEF Skip, PhaseInv, InHand, Reading
  <2>3. CASE batch' = [batch EXCEPT !.through = Through(Here, batch.after)]
    <3>1. batch' \in Batches
      <4>1. batch' # NoBatch
        BY <2>1, <2>3 DEF Batches, NoBatch
      <4> QED BY <4>1 DEF TypeInv
    <3>2. CASE at' = "rules" /\ UNCHANGED pending
      BY <2>1, <3>1, <3>2, NoBatchIsNone DEF PhaseInv, InHand, Reading
    <3>3. CASE Save(batch')
      BY <1>a, <1>b, <2>1, <3>1, <3>3 DEF InHand, Reading
    <3> QED BY <1>5, <2>1, <2>3, <3>1, <3>2, <3>3, NoBatchIsNone DEF ReadEntries, Skip
  <2> QED BY <1>5, <2>2, <2>3 DEF ReadEntries
<1>6. CASE Admit
  BY <1>6 DEF Admit, PhaseInv, InHand, Reading
<1>7. CASE HandlerReturns
  <2>1. identity' = identity /\ at \in InHand /\ batch \in Batches /\ batch' = batch
    BY <1>7, InHandFacts DEF HandlerReturns, InHand
  <2> QED BY <1>7, <1>a, <1>b, <1>c, <2>1 DEF HandlerReturns
<1>8. CASE Reply
  <2>1. identity' = identity /\ at \in InHand /\ batch \in Batches /\ batch' = batch /\ Save(batch)
    BY <1>8, InHandFacts DEF Reply, InHand
  <2> QED BY <1>a, <1>b, <2>1
<1>9. CASE Quit
  BY <1>9 DEF Quit, Leave, PhaseInv, InHand, Reading
<1>10. CASE Stop
  <2>1. identity' = identity
    BY <1>10 DEF Stop
  <2>2. CASE Leave
    BY <2>1, <2>2 DEF Leave, PhaseInv, InHand, Reading
  <2>3. CASE CancelHandler
    BY <2>1, <2>3 DEF CancelHandler, PhaseInv
  <2>4. CASE at \in {"handling", "replying"} /\ batch' = batch /\ (Fail(batch) \/ Save(batch))
    <3>1. at \in InHand /\ batch \in Batches
      BY <2>4, InHandFacts DEF InHand
    <3> QED BY <1>a, <1>b, <1>c, <2>1, <2>4, <3>1
  <2> QED BY <1>10, <2>2, <2>3, <2>4 DEF Stop
<1>11. CASE Restart
  BY <1>11 DEF Restart, PhaseInv, InHand, Reading
<1>12. CASE \/ Hub \/ \E h \in Hubs : Switch(h)
            \/ \E s \in Scopes, a \in Positions, status \in Ended : RunEnds(s, a, status)
            \/ UNCHANGED vars
  BY <1>12 DEF Hub, Switch, RunEnds, vars, PhaseInv
<1> QED
  BY ONLY [Next]_vars, <1>1, <1>2, <1>3, <1>4, <1>5, <1>6, <1>7, <1>8, <1>9, <1>10, <1>11, <1>12
     DEF Next, Consume

----------------------------------------------------------------------------

\* Streams are appended to, and what a run has handled stays on record.
Grows == \A s \in Scopes : /\ Len(entries[s]) <= Len(entries'[s])
                           /\ \A i \in 1..Len(entries[s]) : entries'[s][i] = entries[s][i]
EndedKept == \A s \in Scopes, a \in Positions :
                receipts[s][a].status \in Ended =>
                    /\ receipts'[s][a].status = receipts[s][a].status
                    /\ receipts'[s][a].through = receipts[s][a].through

\* The request of a reply posts at most an entry of the agent's own.
LEMMA ReplyEffect ==
    ASSUME TypeInv, PhaseInv, at \in InHand, ReplySent
    PROVE  /\ Grows /\ UNCHANGED <<cursor, late, strayed>>
           /\ Others(Here, batch.after)
           /\ receipts'[Here][batch.after].sent = Current.sent + 1
           /\ receipts'[Here][batch.after].status = Current.status
           /\ receipts'[Here][batch.after].through = Current.through
           /\ receipts'[Here][batch.after].notice = Current.notice
<1>1. Here \in Scopes /\ batch.after \in Positions
  BY InHandFacts DEF InHand, Reading
<1>2. Grows /\ UNCHANGED <<cursor, late, strayed>>
  <2>1. CASE UNCHANGED hubSide
    <3>1. \A s \in Scopes : Len(entries[s]) \in Nat
      BY DEF TypeInv
    <3> QED BY <2>1, <3>1 DEF hubSide, Grows
  <2>2. CASE Post(Here, "own")
    BY <1>1, <2>2, PostEffect DEF Grows
  <2> QED BY <2>1, <2>2 DEF ReplySent
<1>3. receipts' = [receipts EXCEPT ![Here][batch.after].sent = @ + 1]
  BY DEF ReplySent
<1> QED BY <1>1, <1>2, <1>3, SentEffect DEF Current

\* What a report does to the receipt of the batch: it marks it, if anything.
LEMMA ConcludeEffect ==
    ASSUME TypeInv, NEW b \in Batches, Scope(b.conversation) \in Scopes,
           Conclude(b) \/ Fail(b) \/ (Save(b) /\ UNCHANGED receipts)
    PROVE  /\ Others(Scope(b.conversation), b.after)
           /\ LET r == receipts[Scope(b.conversation)][b.after]
                  q == receipts'[Scope(b.conversation)][b.after]
              IN  /\ q.status = r.status /\ q.through = r.through /\ q.sent = r.sent
                  /\ r.notice => q.notice
                  /\ \/ at' = "final" /\ pending' = <<b.conversation, b.through>> /\ q = r
                     \/ at' = "replying" /\ UNCHANGED pending /\ ~r.notice /\ q.notice
<1>1. b.after \in Positions /\ receipts \in [Scopes -> [Positions -> Receipt]]
  BY DEF Batches, TypeInv
<1>2. CASE UNCHANGED receipts /\ Save(b)
  BY <1>1, <1>2 DEF Others, Save
<1>3. CASE /\ receipts' = [receipts EXCEPT ![Scope(b.conversation)][b.after] = Reported(@)]
           /\ at' = "replying" /\ UNCHANGED pending
           /\ ~receipts[Scope(b.conversation)][b.after].notice
  BY <1>1, <1>3, NoticeEffect
<1> QED BY <1>2, <1>3 DEF Conclude, Fail

\* Every step keeps the history of the streams and of the runs that ended.
LEMMA HistoryKept == TalkInv /\ [Next]_vars => Grows /\ EndedKept
<1> SUFFICES ASSUME TalkInv, [Next]_vars PROVE Grows /\ EndedKept
  OBVIOUS
<1>0. /\ TypeInv /\ PhaseInv /\ BatchInv /\ \A s \in Scopes : Len(entries[s]) \in Nat
  BY DEF TalkInv, TypeInv
<1> USE DEF hubSide, progress
<1>a. ASSUME entries' = entries PROVE Grows
  BY <1>0, <1>a DEF Grows
<1>b. ASSUME receipts' = receipts PROVE EndedKept
  BY <1>b DEF EndedKept
<1>c. ASSUME NEW b \in Batches, Scope(b.conversation) \in Scopes,
             Conclude(b) \/ Fail(b) \/ (Save(b) /\ UNCHANGED receipts)
      PROVE  EndedKept
  BY <1>0, <1>c, ConcludeEffect DEF EndedKept, Others
<1>1. CASE \/ Poll \/ Confirm \/ ReadEntries \/ ReadFails \/ Refuse \/ WriteConfirmed \/ WriteDenied
           \/ WriteUnanswered \/ WriteRefused \/ Quit \/ (\E h \in Hubs : Switch(h)) \/ UNCHANGED vars
  <2>1. entries' = entries /\ receipts' = receipts
    BY <1>1 DEF Poll, Confirm, ReadEntries, ReadFails, Refuse, WriteConfirmed, WriteDenied,
           WriteUnanswered, Unanswered, WriteRefused, Quit, Switch, vars
  <2> QED BY <1>a, <1>b, <2>1
<1>2. ASSUME NEW c \in Conversations, ReadCursor(c) PROVE Grows /\ EndedKept
  <2>1. entries' = entries /\ at = "cursor" /\ identity' = identity
    BY <1>2 DEF ReadCursor
  <2>2. ASSUME NEW b, b.conversation = c, Conclude(b), batch' = b, b.after = cursor[Scope(c)],
               b.through = Recovered(c, cursor[Scope(c)])
        PROVE  EndedKept
    <3>1. b.conversation \in Conversations /\ Scope(c) \in Scopes /\ cursor[Scope(c)] \in Positions
      BY <1>0, <2>1, <2>2 DEF PhaseInv, Scope, Scopes, TypeInv, Positions
    <3>2. CASE UNCHANGED receipts
      BY <1>b, <3>2
    <3>3. CASE receipts' = [receipts EXCEPT ![Scope(c)][b.after] = Reported(@)]
      <4>1. b.after \in Positions
        BY <2>2, <3>1
      <4>2. /\ Others(Scope(c), b.after)
            /\ receipts'[Scope(c)][b.after].status = receipts[Scope(c)][b.after].status
            /\ receipts'[Scope(c)][b.after].through = receipts[Scope(c)][b.after].through
        BY <1>0, <3>1, <3>3, <4>1, NoticeEffect
      <4> QED BY <4>2 DEF EndedKept, Others
    <3> QED BY <2>2, <3>2, <3>3 DEF Conclude, Fail
  <2>3. CASE UNCHANGED receipts
    BY <1>a, <1>b, <2>1, <2>3
  <2> QED BY <1>2, <1>a, <2>1, <2>2, <2>3 DEF ReadCursor
<1>3. CASE Admit
  <2>1. /\ at = "rules" /\ entries' = entries /\ Here \in Scopes /\ batch.after \in Positions
        /\ batch.through \in Positions
    BY <1>0, <1>3, InHandFacts DEF Admit, InHand, Reading
  <2>2. Current.status = "none"
    BY <1>0, <2>1 DEF BatchInv, InHand, Reading
  <2>3. Others(Here, batch.after)
    BY <1>0, <1>3, <2>1, AdmitEffect DEF Admit
  <2> QED BY <1>a, <2>1, <2>2, <2>3 DEF Others, EndedKept, Current, Ended
<1>4. CASE HandlerReturns
  <2>1. entries' = entries /\ batch \in Batches /\ Scope(batch.conversation) \in Scopes
    BY <1>0, <1>4, InHandFacts DEF HandlerReturns, InHand, Here
  <2> QED BY <1>4, <1>a, <1>c, <2>1 DEF HandlerReturns
<1>5. CASE at \in InHand /\ ReplySent
  <2>1. Here \in Scopes /\ batch.after \in Positions
    BY <1>0, <1>5, InHandFacts DEF InHand, Reading
  <2> QED BY <1>0, <1>5, <2>1, ReplyEffect DEF EndedKept, Others, Current
<1>6. CASE Reply
  BY <1>5, <1>6 DEF Reply, InHand
<1>7. CASE Stop
  <2>1. CASE UNCHANGED <<hubSide, receipts>>
    BY <1>a, <1>b, <2>1
  <2>2. CASE at = "handling" /\ Fail(batch) /\ UNCHANGED hubSide
    <3>1. entries' = entries /\ batch \in Batches /\ Scope(batch.conversation) \in Scopes
      BY <1>0, <2>2, InHandFacts DEF InHand, Here
    <3> QED BY <1>a, <1>c, <2>2, <3>1
  <2> QED BY <1>5, <1>7, <2>1, <2>2 DEF Stop, InHand
<1>8. CASE Restart
  <2>1. entries' = entries /\ \A s \in Scopes, a \in Positions :
                /\ receipts'[s][a].status =
                        IF receipts[s][a].status = "active" THEN "orphaned" ELSE receipts[s][a].status
                /\ receipts'[s][a].through = receipts[s][a].through
    BY <1>0, <1>8, RestartEffect DEF Restart
  <2> QED BY <1>a, <2>1 DEF EndedKept, Ended
<1>9. ASSUME NEW s \in Scopes, NEW a \in Positions, NEW status \in Ended, RunEnds(s, a, status)
      PROVE  Grows /\ EndedKept
  <2>1. entries' = entries /\ Others(s, a) /\ receipts[s][a].status = "active"
    BY <1>0, <1>9, EndEffect DEF RunEnds
  <2> QED BY <1>a, <2>1 DEF EndedKept, Others, Ended
<1>10. CASE Hub
  <2>1. receipts' = receipts
    BY <1>10 DEF Hub
  <2>2. ASSUME NEW s \in Scopes, NEW kind \in {"incoming", "own"}, Post(s, kind) PROVE Grows
    BY <1>0, <2>2, PostEffect DEF Grows
  <2>3. CASE entries' = entries
    BY <1>a, <1>b, <2>1, <2>3
  <2> QED BY <1>10, <1>b, <2>1, <2>2, <2>3 DEF Hub, Membership, LateWrite
<1> QED
  BY ONLY [Next]_vars, <1>1, <1>2, <1>3, <1>4, <1>6, <1>7, <1>8, <1>9, <1>10 DEF Next, Consume

\* What is covered stays covered, and covers every position before it.
LEMMA CoverKept ==
    ASSUME TypeInv, TypeInv', NEW s \in Scopes, NEW x \in Nat, Covered(s, x), Grows, EndedKept
    PROVE  Covered(s, x)'
<1>1. Len(entries[s]) \in Nat /\ Len(entries'[s]) \in Nat
  BY DEF TypeInv
<1>2. x <= Len(entries'[s])
  BY <1>1 DEF Covered, Grows
<1>3. ASSUME NEW i \in 1..x, entries'[s][i] = "incoming"
      PROVE  \E a \in Positions : i \in Handed(s, a)' /\ receipts'[s][a].status \in Ended
  <2>1. entries[s][i] = "incoming"
    BY <1>1, <1>3 DEF Covered, Grows
  <2>2. PICK a \in Positions : i \in Handed(s, a) /\ receipts[s][a].status \in Ended
    BY <2>1 DEF Covered
  <2>3. receipts'[s][a].status \in Ended /\ receipts'[s][a].through = receipts[s][a].through
    BY <2>2 DEF EndedKept
  <2> QED BY <2>2, <2>3 DEF Handed
<1> QED BY <1>2, <1>3 DEF Covered

\* The end of a batch that needed no run, or whose run has ended, is covered.
LEMMA BatchCovered ==
    ASSUME TypeInv, NEW s \in Scopes, NEW a \in Positions, NEW t \in Positions,
           Covered(s, cursor[s]), a <= cursor[s], t <= Len(entries[s]),
           \/ receipts[s][a].status \in Ended /\ receipts[s][a].through = t
           \/ ~Incoming(s, a, t)
    PROVE  Covered(s, t)
<1>0. a \in Nat /\ t \in Nat /\ cursor[s] \in Nat
  BY DEF TypeInv, Positions
<1>1. ASSUME NEW i \in 1..t, entries[s][i] = "incoming"
      PROVE  \E b \in Positions : i \in Handed(s, b) /\ receipts[s][b].status \in Ended
  <2>1. CASE i <= a
    BY <1>0, <1>1, <2>1 DEF Covered
  <2>2. CASE i > a
    <3>1. i \in a + 1..t
      BY <1>0, <2>2
    <3>2. receipts[s][a].status \in Ended /\ receipts[s][a].through = t
      BY <1>1, <3>1 DEF Incoming
    <3> QED BY <3>1, <3>2 DEF Handed
  <2> QED BY <1>0, <2>1, <2>2
<1> QED BY <1>1 DEF Covered

----------------------------------------------------------------------------

\* The end of a batch of s that starts after a is saved, to be written.
Saved(s, a) ==
    /\ at' = "final" /\ s \in Scopes /\ a \in Positions
    /\ pending' # NoPending /\ Target' = s /\ pending'[2] \in Positions
    /\ a <= cursor[s] /\ (s \notin strayed => cursor[s] = a)
    /\ pending'[2] <= Len(entries[s])
    /\ \/ receipts[s][a].status \in Ended /\ receipts[s][a].through = pending'[2]
       \/ receipts[s][a].status = "none" /\ ~Incoming(s, a, pending'[2])
    /\ UNCHANGED <<cursor, late, strayed>>
    /\ Others(s, a)
    /\ receipts'[s][a].status = receipts[s][a].status
    /\ receipts'[s][a].through = receipts[s][a].through

KeepsPending ==
    \/ pending' = NoPending
    \/ pending' = pending /\ identity' = identity

\* A handler that has ended ends its batch: the report or the save.
LEMMA EndsBatch ==
    ASSUME TalkInv, at \in {"handling", "replying"}, Current.status \in Ended,
           UNCHANGED <<identity, cursor, late, strayed>>,
           \/ Conclude(batch) \/ Fail(batch) \/ (Save(batch) /\ UNCHANGED receipts)
           \/ ReplySent /\ Save(batch)
    PROVE  KeepsPending \/ Saved(Here, batch.after)
<1>1. TypeInv /\ PhaseInv /\ BatchInv /\ ReceiptInv(Here, batch.after)
  BY InHandFacts DEF TalkInv, ReceiptsInv, InHand
<1>2. batch \in Batches /\ Here \in Scopes /\ batch.after \in Positions /\ batch.through \in Positions
      /\ Scope(batch.conversation) = Here /\ at \in InHand
  BY <1>1, InHandFacts DEF InHand, Here
<1>3. /\ batch.after <= cursor[Here] /\ (Here \notin strayed => cursor[Here] = batch.after)
      /\ Current.through = batch.through /\ batch.through <= Len(entries[Here])
  BY <1>1, <1>2 DEF BatchInv, InHand, ReceiptInv, Current, Ended
<1>4. /\ Others(Here, batch.after)
      /\ receipts'[Here][batch.after].status = Current.status
      /\ receipts'[Here][batch.after].through = Current.through
  <2>1. CASE ReplySent
    BY <1>1, <1>2, <2>1, ReplyEffect
  <2>2. CASE Conclude(batch) \/ Fail(batch) \/ (Save(batch) /\ UNCHANGED receipts)
    BY <1>1, <1>2, <2>2, ConcludeEffect DEF Current
  <2> QED BY <2>1, <2>2
<1>5. \/ at' = "replying" /\ UNCHANGED pending
      \/ at' = "final" /\ pending' = <<batch.conversation, batch.through>>
  BY DEF Conclude, Fail, Save
<1>6. CASE at' = "final" /\ pending' = <<batch.conversation, batch.through>>
  <2>1. pending' # NoPending /\ pending'[2] = batch.through /\ Target' = Here
    BY <1>2, <1>6, NoBatchIsNone DEF Target, Scope, Here, Batches
  <2> QED BY <1>2, <1>3, <1>4, <1>6, <2>1 DEF Saved, Current
<1> QED BY <1>5, <1>6 DEF KeepsPending

\* A position to be written is dropped, kept, or the end of a batch just saved.
LEMMA PendingEffect ==
    TalkInv /\ [Next]_vars => KeepsPending \/ \E s \in Scopes, a \in Positions : Saved(s, a)
<1> SUFFICES ASSUME TalkInv, [Next]_vars
             PROVE  KeepsPending \/ \E s \in Scopes, a \in Positions : Saved(s, a)
  OBVIOUS
<1>0. TypeInv /\ PhaseInv /\ BatchInv /\ ReceiptsInv
  BY DEF TalkInv
<1> USE DEF hubSide, progress
<1>1. CASE \/ Poll \/ Confirm \/ ReadFails \/ Refuse \/ WriteConfirmed \/ WriteDenied \/ Admit
           \/ WriteUnanswered \/ WriteRefused \/ Quit \/ (\E h \in Hubs : Switch(h)) \/ UNCHANGED vars
           \/ Hub \/ Restart
           \/ \E s \in Scopes, a \in Positions, status \in Ended : RunEnds(s, a, status)
  BY <1>1 DEF KeepsPending, Poll, Kept, Confirm, ReadFails, Refuse, WriteConfirmed, WriteDenied, Admit,
     WriteUnanswered, WriteRefused, Quit, Leave, Switch, Hub, Restart, RunEnds, vars
<1>2. ASSUME NEW c \in Conversations, ReadCursor(c)
      PROVE  KeepsPending \/ \E s \in Scopes, a \in Positions : Saved(s, a)
  <2>1. /\ at = "cursor" /\ identity' = identity /\ UNCHANGED <<entries, cursor, late, strayed>>
        /\ Scope(c) \in Scopes /\ cursor[Scope(c)] \in Positions
    BY <1>0, <1>2 DEF ReadCursor, PhaseInv, Scope, Scopes, TypeInv, Positions
  <2> DEFINE a == cursor[Scope(c)]
             t == receipts[Scope(c)][a].through
             b == [conversation |-> c, after |-> a, through |-> t]
  <2>2. CASE UNCHANGED pending
    BY <2>1, <2>2 DEF KeepsPending
  <2>3. CASE receipts[Scope(c)][a].status \in Ended /\ Conclude(b)
    <3>1. t \in Positions /\ t <= Len(entries[Scope(c)])
      BY <1>0, <2>1, <2>3 DEF TypeInv, Receipt, ReceiptsInv, ReceiptInv, Ended
    <3>2. b \in Batches /\ b.conversation = c /\ b.after = a /\ b.through = t
      BY <2>1, <3>1 DEF Batches
    <3> HIDE DEF b
    <3>3. /\ Others(Scope(c), a)
          /\ receipts'[Scope(c)][a].status = receipts[Scope(c)][a].status
          /\ receipts'[Scope(c)][a].through = t
      BY <1>0, <2>1, <2>3, <3>2, ConcludeEffect
    <3>4. CASE at' = "final" /\ pending' = <<c, t>>
      <4>1. pending' # NoPending /\ pending'[2] = t /\ Target' = Scope(c)
        BY <2>1, <3>1, <3>4, NoBatchIsNone DEF Target, Scope
      <4>2. a <= cursor[Scope(c)] /\ a \in Positions
        BY <1>0, <2>1 DEF TypeInv, Positions
      <4>3. Saved(Scope(c), a)
        BY <2>1, <2>3, <3>1, <3>3, <3>4, <4>1, <4>2 DEF Saved
      <4> QED BY <2>1, <4>2, <4>3
    <3> QED BY <2>2, <2>3, <3>2, <3>4 DEF Conclude, Fail, Save
  <2> QED BY <1>2, <2>2, <2>3 DEF ReadCursor, Recovered
<1>3. CASE ReadEntries
  <2>1. /\ at = "reading" /\ identity' = identity /\ UNCHANGED <<entries, cursor, late, strayed, receipts>>
        /\ Here \in Scopes /\ batch \in Batches /\ batch.after \in Positions
        /\ batch.after <= cursor[Here] /\ (Here \notin strayed => cursor[Here] = batch.after)
        /\ Current.status = "none"
    BY <1>0, <1>3, InHandFacts DEF ReadEntries, InHand, Reading, BatchInv
  <2>2. CASE UNCHANGED pending
    BY <2>1, <2>2 DEF KeepsPending
  <2>3. CASE /\ batch' = [batch EXCEPT !.through = Through(Here, batch.after)] /\ Save(batch')
             /\ ~Incoming(Here, batch.after, Through(Here, batch.after))
    <3> DEFINE t == Through(Here, batch.after)
    <3>1. t \in Nat /\ t <= Len(entries[Here]) /\ t \in Positions
      BY <1>0, <2>1 DEF Through, TypeInv, Positions
    <3>2. batch'.conversation = batch.conversation /\ batch'.through = t
      BY <2>1, <2>3 DEF Batches
    <3> HIDE DEF t
    <3>3. at' = "final" /\ pending' = <<batch.conversation, t>>
      BY <2>3, <3>2 DEF Save
    <3>4. pending' # NoPending /\ pending'[2] = t /\ Target' = Here
      BY <2>1, <3>1, <3>3, NoBatchIsNone DEF Target, Scope, Here, Batches
    <3>5. ~Incoming(Here, batch.after, t)
      BY <2>3 DEF t
    <3>6. Others(Here, batch.after)
      BY <1>0, <2>1 DEF Others, TypeInv
    <3>7. Saved(Here, batch.after)
      BY <2>1, <3>1, <3>3, <3>4, <3>5, <3>6 DEF Saved, Current
    <3> QED BY <2>1, <3>7
  <2> QED BY <1>3, <2>2, <2>3 DEF ReadEntries
<1>4. ASSUME at \in {"handling", "replying"}, Current.status \in Ended,
             UNCHANGED <<identity, cursor, late, strayed>>,
             \/ Conclude(batch) \/ Fail(batch) \/ (Save(batch) /\ UNCHANGED receipts)
             \/ ReplySent /\ Save(batch)
      PROVE  KeepsPending \/ \E s \in Scopes, a \in Positions : Saved(s, a)
  <2>1. Here \in Scopes /\ batch.after \in Positions
    BY <1>0, <1>4, InHandFacts DEF InHand
  <2> QED BY <1>4, <2>1, EndsBatch
<1>5. CASE HandlerReturns
  BY <1>4, <1>5 DEF HandlerReturns
<1>6. ASSUME at = "replying", ReplySent PROVE Current.status \in Ended /\ UNCHANGED <<cursor, late, strayed>>
  BY <1>0, <1>6, ReplyEffect DEF BatchInv, InHand
<1>7. CASE Reply
  BY <1>4, <1>6, <1>7 DEF Reply
<1>8. CASE Stop
  <2>1. CASE UNCHANGED pending
    BY <1>8, <2>1 DEF Stop, KeepsPending
  <2>2. CASE at = "handling" /\ Current.status \in Ended /\ Fail(batch) /\ UNCHANGED hubSide
    BY <1>4, <1>8, <2>2 DEF Stop
  <2>3. CASE at = "replying" /\ ReplySent /\ Save(batch)
    BY <1>4, <1>6, <1>8, <2>3 DEF Stop
  <2> QED BY <1>8, <2>1, <2>2, <2>3 DEF Stop, Leave, CancelHandler
<1> QED
  BY ONLY [Next]_vars, <1>1, <1>2, <1>3, <1>5, <1>7, <1>8 DEF Next, Consume

----------------------------------------------------------------------------

\* What a step does to the cursors: nothing, a write of the loop, a late one.
Writes ==
    /\ at \in {"writing", "final"} /\ at' \in {"wait", "done"}
    /\ UNCHANGED <<entries, receipts, strayed, identity>>
    /\ \/ UNCHANGED cursor
       \/ Accepts(Target, pending[2]) /\ cursor' = [cursor EXCEPT ![Target] = pending[2]]
    /\ late' \subseteq late \cup {<<Target, pending[2]>>}
    /\ pending' \in {pending, NoPending}
Strays == \E s \in Scopes, x \in Positions :
    LateWrite(s, x) /\ UNCHANGED <<receipts, at, identity, pending, batch>>

\* Only the loop's own writes, in time or late, move a cursor.
LEMMA CursorEffect ==
    TalkInv /\ [Next]_vars => UNCHANGED <<cursor, late, strayed>> \/ Writes \/ Strays
<1> SUFFICES ASSUME TalkInv, [Next]_vars
             PROVE  UNCHANGED <<cursor, late, strayed>> \/ Writes \/ Strays
  OBVIOUS
<1>0. TypeInv /\ PhaseInv
  BY DEF TalkInv
<1> USE DEF hubSide, progress
<1>1. CASE \/ Poll \/ Confirm \/ ReadEntries \/ ReadFails \/ Refuse \/ WriteDenied \/ Admit
           \/ WriteRefused \/ Quit \/ (\E h \in Hubs : Switch(h)) \/ UNCHANGED vars
           \/ Restart \/ HandlerReturns
           \/ \E s \in Scopes, a \in Positions, status \in Ended : RunEnds(s, a, status)
  BY <1>1 DEF Poll, Confirm, ReadEntries, ReadFails, Refuse, WriteDenied, Admit, HandlerReturns,
     WriteRefused, Quit, Leave, Switch, Restart, RunEnds, vars
<1>2. CASE \E c \in Conversations : ReadCursor(c)
  BY <1>2 DEF ReadCursor
<1>3. CASE WriteConfirmed \/ WriteUnanswered
  BY <1>3 DEF WriteConfirmed, WriteUnanswered, Unanswered, Return, Writes
<1>4. ASSUME at \in InHand, ReplySent PROVE UNCHANGED <<cursor, late, strayed>>
  BY <1>0, <1>4, ReplyEffect
<1>5. CASE Reply
  BY <1>4, <1>5 DEF Reply, InHand
<1>6. CASE Stop
  BY <1>4, <1>6 DEF Stop, InHand
<1>7. CASE Hub
  BY <1>7 DEF Hub, Post, Membership, Strays
<1> QED BY ONLY [Next]_vars, <1>1, <1>2, <1>3, <1>5, <1>6, <1>7 DEF Next, Consume

----------------------------------------------------------------------------

\* Apart from an admission, no receipt comes, goes, or gets another range; one
\* whose failure a step reports was marked before.
ReceiptKept(s, a) ==
    /\ receipts'[s][a].through = receipts[s][a].through
    /\ receipts'[s][a].status = "none" => receipts[s][a].status = "none"
    /\ receipts[s][a].status = "none" => receipts'[s][a].status = "none"
    /\ receipts'[s][a].status = "active" => receipts[s][a].status = "active"
    /\ \/ receipts'[s][a].sent = receipts[s][a].sent
       \/ receipts'[s][a].sent = 1 /\ receipts'[s][a].notice
    /\ receipts[s][a].notice => receipts'[s][a].notice
ReceiptsKept == \A s \in Scopes, a \in Positions : ReceiptKept(s, a)

\* Every step admits a run, or keeps the receipts.
LEMMA ReceiptsEffect == TalkInv /\ [Next]_vars => Admit \/ ReceiptsKept
<1> SUFFICES ASSUME TalkInv, [Next]_vars PROVE Admit \/ ReceiptsKept
  OBVIOUS
<1>0. TypeInv /\ PhaseInv /\ BatchInv /\ receipts \in [Scopes -> [Positions -> Receipt]]
  BY DEF TalkInv, TypeInv
<1> USE DEF hubSide, progress
<1>a. ASSUME receipts' = receipts PROVE ReceiptsKept
  BY <1>a DEF ReceiptsKept, ReceiptKept
<1>b. ASSUME NEW s \in Scopes, NEW a \in Positions, Others(s, a), ReceiptKept(s, a)
      PROVE  ReceiptsKept
  <2>1. ASSUME NEW t \in Scopes, NEW b \in Positions, t # s \/ b # a PROVE ReceiptKept(t, b)
    <3>1. receipts'[t][b] = receipts[t][b]
      BY <1>b, <2>1 DEF Others
    <3> QED BY <3>1 DEF ReceiptKept
  <2> QED BY <1>b, <2>1 DEF ReceiptsKept
<1>c. ASSUME NEW b \in Batches, Scope(b.conversation) \in Scopes,
             Conclude(b) \/ Fail(b) \/ (Save(b) /\ UNCHANGED receipts)
      PROVE  ReceiptsKept
  <2>1. b.after \in Positions
    BY DEF Batches
  <2>2. /\ Others(Scope(b.conversation), b.after)
        /\ ReceiptKept(Scope(b.conversation), b.after)
    BY <1>0, <1>c, ConcludeEffect DEF ReceiptKept
  <2> QED BY <1>b, <1>c, <2>1, <2>2
<1>1. CASE \/ Poll \/ Confirm \/ ReadEntries \/ ReadFails \/ Refuse \/ WriteConfirmed \/ WriteDenied
           \/ WriteUnanswered \/ WriteRefused \/ Quit \/ (\E h \in Hubs : Switch(h)) \/ UNCHANGED vars
           \/ Hub
  BY <1>1, <1>a DEF Poll, Confirm, ReadEntries, ReadFails, Refuse, WriteConfirmed, WriteDenied,
     WriteUnanswered, WriteRefused, Quit, Switch, Hub, vars
<1>2. ASSUME NEW c \in Conversations, ReadCursor(c) PROVE ReceiptsKept
  <2>1. Scope(c) \in Scopes /\ cursor[Scope(c)] \in Positions
    BY <1>0, <1>2 DEF ReadCursor, PhaseInv, Scope, Scopes, TypeInv, Positions
  <2> DEFINE b == [conversation |-> c, after |-> cursor[Scope(c)],
                   through |-> Recovered(c, cursor[Scope(c)])]
  <2>2. CASE Conclude(b)
    <3>1. b \in Batches /\ b.conversation = c
      BY <1>0, <2>1 DEF Batches, Recovered, Receipt
    <3> HIDE DEF b
    <3> QED BY <1>c, <2>1, <2>2, <3>1
  <2> QED BY <1>2, <1>a, <2>2 DEF ReadCursor
<1>3. CASE HandlerReturns
  <2>1. batch \in Batches /\ Scope(batch.conversation) \in Scopes
    BY <1>0, <1>3, InHandFacts DEF HandlerReturns, InHand, Here
  <2> QED BY <1>3, <1>c, <2>1 DEF HandlerReturns
<1>4. ASSUME at = "replying", ReplySent PROVE ReceiptsKept
  <2>1. Here \in Scopes /\ batch.after \in Positions /\ at \in InHand
    BY <1>0, <1>4, InHandFacts DEF InHand
  <2>2. Current.sent = 0 /\ Current.notice
    BY <1>0, <1>4, <2>1 DEF BatchInv
  <2>3. /\ Others(Here, batch.after)
        /\ receipts'[Here][batch.after].sent = Current.sent + 1
        /\ receipts'[Here][batch.after].status = Current.status
        /\ receipts'[Here][batch.after].through = Current.through
        /\ receipts'[Here][batch.after].notice = Current.notice
    BY <1>0, <1>4, <2>1, ReplyEffect
  <2>4. ReceiptKept(Here, batch.after)
    BY <2>2, <2>3 DEF ReceiptKept, Current
  <2> QED BY <1>b, <2>1, <2>3, <2>4
<1>5. CASE Reply
  BY <1>4, <1>5 DEF Reply
<1>6. CASE Stop
  <2>1. CASE UNCHANGED receipts
    BY <1>a, <2>1
  <2>2. CASE at = "handling" /\ Fail(batch)
    <3>1. batch \in Batches /\ Scope(batch.conversation) \in Scopes
      BY <1>0, <2>2, InHandFacts DEF InHand, Here
    <3> QED BY <1>c, <2>2, <3>1
  <2> QED BY <1>4, <1>6, <2>1, <2>2 DEF Stop
<1>7. CASE Restart
  BY <1>0, <1>7, RestartEffect DEF Restart, ReceiptsKept, ReceiptKept
<1>8. ASSUME NEW s \in Scopes, NEW a \in Positions, NEW status \in Ended, RunEnds(s, a, status)
      PROVE  ReceiptsKept
  <2>1. /\ receipts[s][a].status = "active"
        /\ receipts' = [receipts EXCEPT ![s][a].status = status]
    BY <1>8 DEF RunEnds
  <2>2. /\ Others(s, a) /\ receipts'[s][a].status = status
        /\ receipts'[s][a].through = receipts[s][a].through
        /\ receipts'[s][a].notice = receipts[s][a].notice
        /\ receipts'[s][a].sent = receipts[s][a].sent
    BY <1>0, <2>1, EndEffect
  <2>3. ReceiptKept(s, a)
    BY <2>1, <2>2 DEF ReceiptKept, Ended
  <2> QED BY <1>b, <2>2, <2>3
<1> QED BY ONLY [Next]_vars, <1>1, <1>2, <1>3, <1>5, <1>6, <1>7, <1>8 DEF Next, Consume

\* What is known of the state a run is admitted in, and of the one after.
LEMMA AdmitFacts ==
    ASSUME TalkInv, Admit
    PROVE  /\ at = "rules" /\ at' = "handling" /\ pending = NoPending
           /\ Here \in Scopes /\ batch.after \in Positions /\ batch.through \in Positions
           /\ UNCHANGED <<entries, cursor, late, strayed, batch, identity, pending>>
           /\ batch.after < batch.through /\ batch.through <= Len(entries[Here])
           /\ batch.after <= cursor[Here]
           /\ Here \notin strayed => cursor[Here] = batch.after
           /\ Others(Here, batch.after)
           /\ receipts'[Here][batch.after].status = "active"
           /\ receipts'[Here][batch.after].through = batch.through
           /\ ~receipts'[Here][batch.after].notice /\ receipts'[Here][batch.after].sent = 0
<1>1. /\ TypeInv /\ PhaseInv /\ BatchInv /\ at = "rules" /\ at \in InHand
  BY DEF TalkInv, Admit, InHand, Reading
<1>2. Here \in Scopes /\ batch.after \in Positions /\ batch.through \in Positions /\ pending = NoPending
  BY <1>1, InHandFacts
<1>3. receipts' = [receipts EXCEPT ![Here][batch.after] =
                       [NoReceipt EXCEPT !.through = batch.through, !.status = "active"]]
  BY DEF Admit
<1>4. /\ Others(Here, batch.after)
      /\ receipts'[Here][batch.after].status = "active"
      /\ receipts'[Here][batch.after].through = batch.through
      /\ ~receipts'[Here][batch.after].notice /\ receipts'[Here][batch.after].sent = 0
  <2>1. PICK s \in Scopes, a \in Positions, t \in Positions :
            s = Here /\ a = batch.after /\ t = batch.through
    BY <1>2
  <2>2. receipts' = [receipts EXCEPT ![s][a] =
                         [NoReceipt EXCEPT !.through = t, !.status = "active"]]
    BY <1>3, <2>1
  <2>3. /\ Others(s, a)
        /\ receipts'[s][a].status = "active" /\ receipts'[s][a].through = t
        /\ ~receipts'[s][a].notice /\ receipts'[s][a].sent = 0
    BY <1>1, <2>2, AdmitEffect
  <2> QED BY <2>1, <2>3
<1> QED BY <1>1, <1>2, <1>4 DEF Admit, BatchInv, hubSide, progress

----------------------------------------------------------------------------

\* No write to a hub, in time or late, passes a message by.
LEMMA CoverStep == TalkInv /\ TypeInv' /\ [Next]_vars => CoverInv'
<1> SUFFICES ASSUME TalkInv, TypeInv', [Next]_vars PROVE CoverInv'
  OBVIOUS
<1>0. TypeInv /\ PhaseInv /\ CoverInv /\ Grows /\ EndedKept
  BY HistoryKept DEF TalkInv
<1>1. ASSUME NEW s \in Scopes, NEW x \in Nat, Covered(s, x) PROVE Covered(s, x)'
  BY <1>0, <1>1, CoverKept
<1>2. ASSUME pending # NoPending
      PROVE  Target \in Scopes /\ pending[2] \in Positions /\ Covered(Target, pending[2])
  BY <1>0, <1>2, TargetFacts DEF CoverInv
<1>3. \A s \in Scopes : cursor[s] \in Nat /\ Covered(s, cursor[s])
  BY <1>0 DEF CoverInv, TypeInv
<1>4. Positions \subseteq Nat /\ cursor \in [Scopes -> Nat] /\ cursor' \in [Scopes -> Nat]
  BY <1>0 DEF Positions, TypeInv
<1>5. UNCHANGED <<cursor, late, strayed>> \/ Writes \/ Strays
  BY CursorEffect
<1>6. Writes => pending # NoPending
  BY <1>0 DEF Writes, PhaseInv
<1>7. \A s \in Scopes : Covered(s, cursor[s])'
  <2>1. SUFFICES ASSUME NEW s \in Scopes, NEW x \in Nat, x = cursor'[s] PROVE Covered(s, x)'
    BY <1>4 DEF Covered, Handed
  <2>2. CASE cursor'[s] = cursor[s]
    BY <1>1, <1>3, <2>1, <2>2
  <2>3. CASE Writes /\ cursor'[s] # cursor[s]
    <3>1. s = Target /\ x = pending[2]
      BY <1>2, <1>4, <1>6, <2>1, <2>3 DEF Writes
    <3> QED BY <1>1, <1>2, <1>6, <2>3, <3>1
  <2>4. CASE Strays /\ cursor'[s] # cursor[s]
    <3>1. <<s, x>> \in late /\ x \in Positions
      BY <1>4, <2>1, <2>4 DEF Strays, LateWrite
    <3> QED BY <1>0, <1>1, <3>1 DEF CoverInv
  <2> QED BY <1>5, <2>2, <2>3, <2>4
<1>8. \A s \in Scopes, x \in Positions : <<s, x>> \in late' => Covered(s, x)'
  <2>1. SUFFICES ASSUME NEW s \in Scopes, NEW x \in Positions, <<s, x>> \in late' PROVE Covered(s, x)'
    BY DEF Covered, Handed
  <2>2. CASE <<s, x>> \in late
    BY <1>0, <1>1, <1>4, <2>2 DEF CoverInv
  <2>3. CASE <<s, x>> \notin late
    <3>1. Writes
      BY <1>5, <2>1, <2>3 DEF Strays, LateWrite
    <3>2. s = Target /\ x = pending[2]
      BY <2>1, <2>3, <3>1 DEF Writes
    <3> QED BY <1>1, <1>2, <1>4, <1>6, <3>1, <3>2
  <2> QED BY <2>2, <2>3
<1>9. pending' # NoPending => Covered(Target, pending[2])'
  <2>1. SUFFICES ASSUME pending' # NoPending PROVE Covered(Target, pending[2])'
    OBVIOUS
  <2>2. CASE pending' = pending /\ identity' = identity
    <3>1. PICK s \in Scopes, x \in Positions : s = Target /\ x = pending[2]
      BY <1>2, <2>1, <2>2
    <3>2. Covered(s, x)'
      BY <1>1, <1>2, <1>4, <2>1, <2>2, <3>1
    <3>3. s = Target' /\ x = pending'[2]
      BY <2>2, <3>1 DEF Target, Scope
    <3> QED BY <3>2, <3>3 DEF Covered, Handed
  <2>3. ASSUME NEW s \in Scopes, NEW a \in Positions, Saved(s, a) PROVE Covered(Target, pending[2])'
    <3>1. PICK x \in Positions : x = pending'[2]
      BY <2>3 DEF Saved
    <3>2. /\ Target' = s /\ a <= cursor[s] /\ x <= Len(entries[s])
          /\ \/ receipts[s][a].status \in Ended /\ receipts[s][a].through = x
             \/ ~Incoming(s, a, x)
      BY <2>3, <3>1 DEF Saved
    <3>3. Covered(s, x)
      BY <1>0, <1>3, <3>2, BatchCovered
    <3>4. Covered(s, x)'
      BY <1>1, <1>4, <3>3
    <3> QED BY <3>1, <3>2, <3>4 DEF Covered, Handed
  <2> QED BY <2>1, <2>2, <2>3, PendingEffect DEF KeepsPending
<1> QED BY <1>7, <1>8, <1>9 DEF CoverInv

\* A position to be written stays at the end of a range: a run is admitted
\* only when none is pending, and no range changes.
LEMMA PendingStep == TalkInv /\ TypeInv' /\ [Next]_vars => PendingInv'
<1> SUFFICES ASSUME TalkInv, TypeInv', [Next]_vars, pending' # NoPending, Target' \notin strayed',
                    cursor'[Target'] < pending'[2]
             PROVE  receipts'[Target'][cursor'[Target']].status # "none" =>
                        receipts'[Target'][cursor'[Target']].through <= pending'[2]
  BY DEF PendingInv
<1>0. TypeInv /\ PhaseInv /\ PendingInv /\ cursor \in [Scopes -> Nat] /\ cursor' \in [Scopes -> Nat]
  BY DEF TalkInv, TypeInv
<1>1. ASSUME NEW s \in Scopes, NEW a \in Positions, Saved(s, a)
      PROVE  receipts'[Target'][cursor'[Target']].status # "none" =>
                receipts'[Target'][cursor'[Target']].through <= pending'[2]
  <2>1. /\ Target' = s /\ pending'[2] \in Positions /\ cursor'[s] = a
        /\ receipts'[s][a].status = receipts[s][a].status
        /\ receipts'[s][a].through = receipts[s][a].through
        /\ receipts[s][a].status = "none" \/ receipts[s][a].through = pending'[2]
    BY <1>1 DEF Saved
  <2> QED BY <2>1 DEF Positions
<1>2. CASE pending' = pending /\ identity' = identity
  <2>1. PICK s \in Scopes, x \in Positions : s = Target /\ x = pending[2]
    BY <1>0, <1>2, TargetFacts
  <2>2. s = Target' /\ x = pending'[2]
    BY <1>2, <2>1 DEF Target, Scope
  <2>3. s \notin strayed /\ cursor'[s] = cursor[s]
    <3>1. CASE UNCHANGED <<cursor, late, strayed>>
      BY <2>2, <3>1
    <3>2. CASE Writes
      BY <1>0, <2>1, <2>2, <3>2 DEF Writes, Positions
    <3>3. CASE Strays
      BY <1>0, <2>2, <3>3 DEF Strays, LateWrite
    <3> QED BY <3>1, <3>2, <3>3, CursorEffect
  <2>4. ReceiptsKept
    BY <1>0, <1>2, ReceiptsEffect, AdmitFacts
  <2>5. cursor[s] \in Positions
    BY <1>0, <2>1, <2>2, <2>3 DEF TypeInv, Positions
  <2>6. receipts[s][cursor[s]].status # "none" => receipts[s][cursor[s]].through <= x
    BY <1>0, <1>2, <2>1, <2>2, <2>3 DEF PendingInv
  <2> QED BY <2>2, <2>3, <2>4, <2>5, <2>6 DEF ReceiptsKept, ReceiptKept
<1> QED BY <1>1, <1>2, PendingEffect DEF KeepsPending

\* A receipt keeps its range within the stream, its failure is reported once,
\* and the cursor goes past the whole of its range.
LEMMA ReceiptsStep == TalkInv /\ TypeInv' /\ [Next]_vars => ReceiptsInv'
<1> SUFFICES ASSUME TalkInv, TypeInv', [Next]_vars, NEW s \in Scopes, NEW a \in Positions
             PROVE  ReceiptInv(s, a)'
  BY DEF ReceiptsInv
<1>0. TypeInv /\ PhaseInv /\ PendingInv /\ ReceiptInv(s, a) /\ Grows
  BY HistoryKept DEF TalkInv, ReceiptsInv
<1>1. /\ cursor \in [Scopes -> Nat] /\ cursor' \in [Scopes -> Nat]
      /\ Len(entries[s]) \in Nat /\ Len(entries'[s]) \in Nat
      /\ receipts[s][a].through \in Nat /\ receipts[s][a].sent \in Nat /\ a \in Nat
  <2>1. receipts[s][a] \in Receipt
    BY <1>0 DEF TypeInv
  <2>2. receipts[s][a].through \in Nat /\ receipts[s][a].sent \in Nat /\ a \in Nat
    BY <2>1 DEF Receipt, Positions
  <2> QED BY <1>0, <2>2 DEF TypeInv
<1>2. CASE Admit
  <2>1. CASE s = Here /\ a = batch.after
    BY <1>2, <2>1, AdmitFacts DEF ReceiptInv
  <2>2. CASE s # Here \/ a # batch.after
    BY <1>0, <1>2, <2>2, AdmitFacts DEF ReceiptInv, Others
  <2> QED BY <2>1, <2>2
<1>3. CASE ReceiptsKept
  <2>1. /\ receipts'[s][a].through = receipts[s][a].through
        /\ receipts'[s][a].status = "none" <=> receipts[s][a].status = "none"
        /\ \/ receipts'[s][a].sent = receipts[s][a].sent
           \/ receipts'[s][a].sent = 1 /\ receipts'[s][a].notice
        /\ receipts[s][a].notice => receipts'[s][a].notice
    BY <1>3 DEF ReceiptsKept, ReceiptKept
  <2>2. receipts'[s][a].status # "none" =>
            a < receipts'[s][a].through /\ receipts'[s][a].through <= Len(entries'[s])
    BY <1>0, <1>1, <2>1 DEF ReceiptInv, Grows
  <2>3. receipts'[s][a].sent <= 1 /\ (~receipts'[s][a].notice => receipts'[s][a].sent = 0)
    BY <1>0, <1>1, <2>1 DEF ReceiptInv
  <2>4. ASSUME receipts[s][a].status # "none", s \notin strayed'
        PROVE  a = cursor'[s] \/ receipts[s][a].through <= cursor'[s]
    <3>1. CASE cursor'[s] = cursor[s] /\ strayed' = strayed
      BY <1>0, <2>4, <3>1 DEF ReceiptInv
    <3>2. CASE Writes /\ cursor'[s] # cursor[s]
      <4>1. /\ pending # NoPending /\ pending[2] \in Nat /\ strayed' = strayed
            /\ s = Target /\ cursor'[s] = pending[2] /\ cursor[s] < pending[2]
        BY <1>0, <1>1, <3>2, TargetFacts DEF Writes, Accepts, PhaseInv, Positions
      <4>2. a = cursor[s] => receipts[s][a].through <= pending[2]
        BY <1>0, <2>4, <4>1 DEF PendingInv
      <4> QED BY <1>0, <1>1, <2>4, <4>1, <4>2 DEF ReceiptInv
    <3>3. CASE Strays
      <4>1. cursor'[s] = cursor[s] /\ s \notin strayed
        BY <1>1, <2>4, <3>3 DEF Strays, LateWrite
      <4> QED BY <1>0, <2>4, <4>1 DEF ReceiptInv
    <3> QED BY <3>1, <3>2, <3>3, CursorEffect DEF Writes
  <2> QED BY <2>1, <2>2, <2>3, <2>4 DEF ReceiptInv
<1> QED BY <1>2, <1>3, ReceiptsEffect

----------------------------------------------------------------------------

\* While the loop waits for something, at most a run ends.
RunsEnd == \A s \in Scopes, a \in Positions :
    /\ receipts'[s][a].through = receipts[s][a].through
    /\ receipts'[s][a].notice = receipts[s][a].notice
    /\ receipts'[s][a].sent = receipts[s][a].sent
    /\ \/ receipts'[s][a].status = receipts[s][a].status
       \/ receipts[s][a].status = "active" /\ receipts'[s][a].status \in Ended

\* What is known of the batch in hand survives every await.
LEMMA BatchStep == TalkInv /\ TypeInv' /\ PhaseInv' /\ [Next]_vars => BatchInv'
<1> SUFFICES ASSUME TalkInv, TypeInv', PhaseInv', [Next]_vars, at' \in InHand PROVE BatchInv'
  BY DEF BatchInv
<1>0. TypeInv /\ PhaseInv /\ BatchInv /\ ReceiptsInv /\ Grows
  BY HistoryKept DEF TalkInv
<1>1. cursor \in [Scopes -> Nat] /\ cursor' \in [Scopes -> Nat]
  BY <1>0 DEF TypeInv
<1> USE DEF hubSide, progress
\* The loop stays where it is.
<1>2. ASSUME UNCHANGED <<at, batch, identity>>, RunsEnd PROVE BatchInv'
  <2>0. Here \in Scopes /\ batch.after \in Positions
    <3>1. at \in InHand /\ at # "final"
      BY <1>2 DEF InHand, Reading
    <3> QED BY <1>0, <3>1, InHandFacts
  <2>1. PICK s \in Scopes, a \in Positions : s = Here /\ a = batch.after
    BY <2>0
  <2>2. s = Here' /\ batch' = batch /\ at' = at /\ at \in InHand
    BY <1>2, <2>1 DEF Here, Scope
  <2>3. /\ receipts'[s][a].through = receipts[s][a].through
        /\ receipts'[s][a].notice = receipts[s][a].notice
        /\ receipts'[s][a].sent = receipts[s][a].sent
        /\ \/ receipts'[s][a].status = receipts[s][a].status
           \/ receipts[s][a].status = "active" /\ receipts'[s][a].status \in Ended
    BY <1>2 DEF RunsEnd
  <2>9. /\ a \in Nat /\ batch.through \in Nat /\ Len(entries[s]) \in Nat /\ Len(entries'[s]) \in Nat
        /\ Len(entries[s]) <= Len(entries'[s])
    <3>1. a \in Positions /\ batch.through \in Positions
      BY <1>0, <2>1, <2>2, InHandFacts
    <3>2. entries[s] \in Seq({"incoming", "own"}) /\ entries'[s] \in Seq({"incoming", "own"})
      BY <1>0, <2>1 DEF TypeInv
    <3>3. Len(entries[s]) <= Len(entries'[s])
      BY <1>0 DEF Grows
    <3> QED BY <3>1, <3>2, <3>3 DEF Positions
  <2>4. /\ cursor[s] <= cursor'[s]
        /\ s \notin strayed' => cursor'[s] = cursor[s] /\ s \notin strayed
    <3>1. CASE UNCHANGED <<cursor, late, strayed>>
      BY <1>1, <3>1
    <3>2. CASE Writes
      BY <2>2, <3>2 DEF Writes, InHand, Reading
    <3>3. CASE Strays
      BY <1>1, <3>3 DEF Strays, LateWrite, Accepts
    <3> QED BY <3>1, <3>2, <3>3, CursorEffect
  <2>5. /\ batch.after <= cursor[s]
        /\ s \notin strayed => cursor[s] = batch.after
        /\ at \in Reading => receipts[s][a].status = "none"
        /\ at = "rules" => batch.after < batch.through /\ batch.through <= Len(entries[s])
        /\ at \in {"handling", "replying"} => receipts[s][a].through = batch.through
        /\ at = "handling" => receipts[s][a].status \in {"active"} \cup Ended
        /\ at = "replying" => receipts[s][a].status \in Ended /\ receipts[s][a].notice
                                /\ receipts[s][a].sent = 0
    BY <1>0, <2>1, <2>2 DEF BatchInv, Current
  <2>6. /\ batch.after <= cursor'[s]
        /\ s \notin strayed' => cursor'[s] = batch.after
        /\ at = "rules" => batch.after < batch.through /\ batch.through <= Len(entries'[s])
    BY <1>1, <2>1, <2>9, <2>4, <2>5
  <2>7. /\ at \in Reading => receipts'[s][a].status = "none"
        /\ at \in {"handling", "replying"} => receipts'[s][a].through = batch.through
        /\ at = "handling" => receipts'[s][a].status \in {"active"} \cup Ended
        /\ at = "replying" => receipts'[s][a].status \in Ended /\ receipts'[s][a].notice
                                /\ receipts'[s][a].sent = 0
    BY <2>3, <2>5 DEF Ended
  <2>8. Current' = receipts'[s][a]
    BY <2>1, <2>2 DEF Current
  <2> QED BY <2>1, <2>2, <2>6, <2>7, <2>8 DEF BatchInv
\* The failure of the batch is to be reported.
<1>3. ASSUME NEW b \in Batches, NEW s \in Scopes, s = Scope(b.conversation), batch' = b, identity' = identity,
             UNCHANGED <<cursor, strayed>>, Conclude(b) \/ Fail(b), pending = NoPending,
             b.after <= cursor[s], s \notin strayed => cursor[s] = b.after,
             receipts[s][b.after].status \in Ended, receipts[s][b.after].through = b.through
      PROVE  BatchInv'
  <2>1. at' = "replying" /\ s = Here' /\ Current' = receipts'[s][b.after] /\ b.after \in Positions
    <3>1. at' # "final"
      BY DEF InHand, Reading
    <3>2. at' = "replying"
      BY <1>3, <3>1 DEF Conclude, Fail, Save
    <3> QED BY <1>3, <3>2 DEF Here, Scope, Current, Batches
  <2>2. /\ receipts'[s][b.after].status \in Ended /\ receipts'[s][b.after].through = b.through
        /\ ~receipts[s][b.after].notice /\ receipts'[s][b.after].notice
        /\ receipts'[s][b.after].sent = receipts[s][b.after].sent
    BY <1>0, <1>3, <2>1, ConcludeEffect
  <2>3. receipts[s][b.after].sent = 0
    BY <1>0, <1>3, <2>1, <2>2 DEF ReceiptsInv, ReceiptInv
  <2> QED BY <1>3, <2>1, <2>2, <2>3 DEF BatchInv, Reading
<1>4. ASSUME NEW c \in Conversations, ReadCursor(c) PROVE BatchInv'
  <2>1. /\ at = "cursor" /\ identity' = identity /\ UNCHANGED <<cursor, strayed>> /\ pending = NoPending
        /\ Scope(c) \in Scopes /\ cursor[Scope(c)] \in Positions /\ cursor[Scope(c)] \in Nat
    BY <1>0, <1>4 DEF ReadCursor, PhaseInv, Scope, Scopes, TypeInv, Positions
  <2> DEFINE a == cursor[Scope(c)]
             b == [conversation |-> c, after |-> a, through |-> receipts[Scope(c)][a].through]
  <2>2. b \in Batches /\ b.conversation = c /\ b.after = a /\ b.through = receipts[Scope(c)][a].through
    BY <1>0, <2>1 DEF Batches, TypeInv, Receipt
  <2>3. CASE at' = "reading" /\ receipts[Scope(c)][a].status = "none" /\ UNCHANGED receipts
             /\ batch' = [b EXCEPT !.through = a]
    <3>1. batch'.conversation = c /\ batch'.after = a
      BY <2>3
    <3>2. Here' = Scope(c) /\ Current' = receipts[Scope(c)][a]
      BY <2>1, <2>3, <3>1 DEF Here, Scope, Current
    <3> QED BY <2>1, <2>3, <3>1, <3>2 DEF BatchInv, Reading
  <2>4. CASE receipts[Scope(c)][a].status \in Ended /\ Conclude(b) /\ batch' = b
    <3> HIDE DEF b
    <3> QED BY <1>3, <2>1, <2>2, <2>4
  <2>5. at' \notin {"wait", "cursor", "done"}
    BY DEF InHand, Reading
  <2> QED BY <1>4, <2>3, <2>4, <2>5 DEF ReadCursor, Recovered, Skip, Return
<1>5. CASE ReadEntries
  <2>1. /\ at = "reading" /\ identity' = identity /\ UNCHANGED <<entries, cursor, strayed, receipts>>
        /\ Here \in Scopes /\ batch \in Batches /\ batch.after \in Positions
        /\ batch.after <= cursor[Here] /\ (Here \notin strayed => cursor[Here] = batch.after)
        /\ Current.status = "none"
    BY <1>0, <1>5, InHandFacts DEF ReadEntries, InHand, Reading, BatchInv
  <2>2. at' \notin {"wait", "cursor", "final"}
    BY DEF InHand, Reading
  <2> DEFINE t == Through(Here, batch.after)
  <2>3. /\ at' = "rules" /\ batch' = [batch EXCEPT !.through = t] /\ t > batch.after
    BY <1>5, <2>2 DEF ReadEntries, Skip, Save
  <2>4. t \in Nat /\ t <= Len(entries[Here])
    BY <1>0, <2>1 DEF Through, TypeInv, Positions
  <2> HIDE DEF t
  <2>5. batch'.conversation = batch.conversation /\ batch'.after = batch.after /\ batch'.through = t
    BY <2>1, <2>3 DEF Batches
  <2>6. Here' = Here /\ Current' = Current
    BY <2>1, <2>5 DEF Here, Scope, Current
  <2> QED BY <2>1, <2>3, <2>4, <2>5, <2>6 DEF BatchInv, Reading, Positions
<1>6. CASE Admit
  <2>1. Here' = Here /\ Current' = receipts'[Here][batch.after]
    BY <1>6, AdmitFacts DEF Here, Scope, Current
  <2> QED BY <1>6, <2>1, AdmitFacts DEF BatchInv, Reading
<1>7. ASSUME at = "handling", Current.status \in Ended, UNCHANGED <<identity, batch, cursor, strayed>>,
             Conclude(batch) \/ Fail(batch)
      PROVE  BatchInv'
  <2>1. /\ batch \in Batches /\ Here \in Scopes /\ Here = Scope(batch.conversation)
        /\ pending = NoPending /\ at \in InHand
    BY <1>0, <1>7, InHandFacts DEF InHand, Here
  <2>2. /\ batch.after <= cursor[Here] /\ (Here \notin strayed => cursor[Here] = batch.after)
        /\ Current.through = batch.through
    BY <1>0, <1>7, <2>1 DEF BatchInv
  <2> QED BY <1>3, <1>7, <2>1, <2>2 DEF Current
<1>8. CASE HandlerReturns
  <2>1. ~(Save(batch) /\ UNCHANGED receipts)
    BY DEF Save, InHand, Reading
  <2> QED BY <1>7, <1>8, <2>1 DEF HandlerReturns
<1>9. CASE Stop
  <2>1. at' \notin {"final", "done"}
    BY DEF InHand, Reading
  <2>2. CASE UNCHANGED <<at, batch>> /\ UNCHANGED receipts
    BY <1>2, <1>9, <2>2 DEF Stop, RunsEnd
  <2>3. CASE at = "handling" /\ Current.status \in Ended /\ Fail(batch) /\ UNCHANGED <<hubSide, batch>>
    BY <1>7, <1>9, <2>3 DEF Stop
  <2> QED BY <1>9, <2>1, <2>2, <2>3 DEF Stop, Leave, CancelHandler, Save
<1>10. ASSUME NEW s \in Scopes, NEW a \in Positions, NEW status \in Ended, RunEnds(s, a, status)
       PROVE  BatchInv'
  <2>1. /\ receipts[s][a].status = "active" /\ Others(s, a) /\ receipts'[s][a].status = status
        /\ receipts'[s][a].through = receipts[s][a].through
        /\ receipts'[s][a].notice = receipts[s][a].notice
        /\ receipts'[s][a].sent = receipts[s][a].sent
    BY <1>0, <1>10, EndEffect DEF RunEnds
  <2>2. RunsEnd
    BY <2>1 DEF RunsEnd, Others
  <2> QED BY <1>2, <1>10, <2>2 DEF RunEnds
<1>11. CASE Hub \/ (\E h \in Hubs : Switch(h)) \/ UNCHANGED vars
  BY <1>2, <1>11 DEF Hub, Switch, vars, RunsEnd
<1>12. CASE \/ Poll \/ Confirm \/ ReadFails \/ Refuse \/ WriteConfirmed \/ WriteDenied
            \/ WriteUnanswered \/ WriteRefused \/ Quit \/ Restart \/ Reply
  <2>1. at' \notin {"wait", "checking", "writing", "cursor", "final", "done"}
    BY DEF InHand, Reading
  <2> QED BY <1>12, <2>1 DEF Poll, Confirm, ReadFails, Refuse, WriteConfirmed, WriteDenied, WriteUnanswered,
          WriteRefused, Return, Quit, Leave, Restart, Reply, Save
<1> QED
  BY ONLY [Next]_vars, <1>4, <1>5, <1>6, <1>8, <1>9, <1>10, <1>11, <1>12 DEF Next, Consume

----------------------------------------------------------------------------

\* A run is admitted where the cursor is, and every other range of its
\* conversation lies before the cursor.
LEMMA HandledStep == TalkInv /\ TypeInv' /\ [Next]_vars => HandledOnce'
<1> SUFFICES ASSUME TalkInv, TypeInv', [Next]_vars,
                    NEW s \in Scopes, s \notin strayed', NEW a \in Positions, NEW b \in Positions, a # b,
                    receipts'[s][a].status # "none", receipts'[s][b].status # "none"
             PROVE  (Handed(s, a) \cap Handed(s, b))' = {}
  BY DEF HandledOnce
<1>0. TypeInv /\ HandledOnce /\ ReceiptsInv /\ cursor \in [Scopes -> Nat] /\ cursor' \in [Scopes -> Nat]
  BY DEF TalkInv, TypeInv
<1>1. s \notin strayed
  BY CursorEffect DEF Writes, Strays, LateWrite
<1>2. CASE ReceiptsKept
  BY <1>0, <1>1, <1>2 DEF ReceiptsKept, ReceiptKept, HandledOnce, Handed
<1>3. CASE Admit
  <2>1. ASSUME s = Here, NEW x \in Positions, x # batch.after, receipts'[s][x].status # "none"
        PROVE  receipts'[s][x].through <= batch.after
    <3>1. receipts'[s][x] = receipts[s][x]
      BY <1>3, <2>1, AdmitFacts DEF Others
    <3> QED BY <1>0, <1>1, <1>3, <2>1, <3>1, AdmitFacts DEF ReceiptsInv, ReceiptInv
  <2>2. CASE s = Here /\ a = batch.after
    <3>1. receipts'[s][b].through <= a /\ receipts'[s][b].through \in Nat /\ a \in Nat
      <4>1. receipts'[s][b] \in Receipt
        BY DEF TypeInv
      <4> QED BY <2>1, <2>2, <4>1 DEF Receipt, Positions
    <3> QED BY <3>1 DEF Handed, Positions
  <2>3. CASE s = Here /\ b = batch.after
    <3>1. receipts'[s][a].through <= b /\ receipts'[s][a].through \in Nat /\ b \in Nat
      <4>1. receipts'[s][a] \in Receipt
        BY DEF TypeInv
      <4> QED BY <2>1, <2>3, <4>1 DEF Receipt, Positions
    <3> QED BY <3>1 DEF Handed, Positions
  <2>4. CASE s # Here \/ (a # batch.after /\ b # batch.after)
    <3>1. receipts'[s][a] = receipts[s][a] /\ receipts'[s][b] = receipts[s][b]
      BY <1>3, <2>4, AdmitFacts DEF Others
    <3> QED BY <1>0, <1>1, <3>1 DEF HandledOnce, Handed
  <2> QED BY <2>2, <2>3, <2>4
<1> QED BY <1>2, <1>3, ReceiptsEffect

\* The loop leaves the await of a handler only when the run has ended.
LEMMA AwaitedStep == TalkInv /\ TypeInv' /\ [Next]_vars => HandlersAreAwaited'
<1> SUFFICES ASSUME TalkInv, TypeInv', [Next]_vars,
                    NEW s \in Scopes, NEW a \in Positions, receipts'[s][a].status = "active"
             PROVE  at' = "handling" /\ s = Here' /\ a = batch'.after
  BY DEF HandlersAreAwaited
<1>0. TypeInv /\ HandlersAreAwaited
  BY DEF TalkInv
<1>1. CASE Admit
  <2>1. CASE s = Here /\ a = batch.after
    BY <1>1, <2>1, AdmitFacts DEF Here, Scope
  <2>2. CASE s # Here \/ a # batch.after
    <3>1. receipts[s][a].status = "active"
      BY <1>1, <2>2, AdmitFacts DEF Others
    <3> QED BY <1>0, <1>1, <3>1, AdmitFacts DEF HandlersAreAwaited
  <2> QED BY <2>1, <2>2
<1>2. CASE ReceiptsKept
  <2>1. receipts[s][a].status = "active"
    BY <1>2 DEF ReceiptsKept, ReceiptKept
  <2>2. at = "handling" /\ s = Here /\ a = batch.after /\ Current.status = "active"
    BY <1>0, <2>1 DEF HandlersAreAwaited, Current
  <2>3. CASE UNCHANGED <<at, batch, identity>>
    BY <2>2, <2>3 DEF Here, Scope
  <2>4. CASE Stop
    BY <2>2, <2>3, <2>4 DEF Stop, CancelHandler, Ended
  <2>5. CASE \/ Hub \/ (\E h \in Hubs : Switch(h)) \/ UNCHANGED vars
             \/ \E t \in Scopes, b \in Positions, status \in Ended : RunEnds(t, b, status)
    BY <2>3, <2>5 DEF Hub, Switch, RunEnds, vars, progress
  <2>6. ~Restart
    BY <1>0, RestartEffect DEF Restart
  <2>7. ~Consume
    BY <2>2 DEF Consume, Poll, Confirm, ReadEntries, ReadFails, ReadCursor, Admit, Refuse, HandlerReturns,
       Reply, WriteConfirmed, WriteDenied, WriteUnanswered, WriteRefused, Quit, Ended
  <2> QED BY ONLY [Next]_vars, <2>4, <2>5, <2>6, <2>7 DEF Next
<1> QED BY <1>1, <1>2, ReceiptsEffect

\* The invariant of the loop holds of every reachable state.
THEOREM TalkHolds == Spec => []TalkInv
<1>1. TalkInv /\ [Next]_vars => TalkInv'
  <2> SUFFICES ASSUME TalkInv, [Next]_vars PROVE TalkInv'
    OBVIOUS
  <2>1. TypeInv' /\ PhaseInv'
    BY TypeStep, PhaseStep DEF TalkInv
  <2>2. BatchInv' /\ ReceiptsInv' /\ CoverInv' /\ PendingInv'
    BY <2>1, BatchStep, ReceiptsStep, CoverStep, PendingStep
  <2>3. HandledOnce' /\ HandlersAreAwaited'
    BY <2>1, HandledStep, AwaitedStep
  <2> QED BY <2>1, <2>2, <2>3 DEF TalkInv
<1> QED BY InitTalk, <1>1, PTL DEF Spec

\* A message is the business of one run, and of one that the loop awaits
\* (_poll and accept_run).
THEOREM OneHandlerHolds == Spec => []OneHandler
<1>1. TalkInv => OneHandler
  BY DEF TalkInv, OneHandler
<1> QED BY TalkHolds, <1>1, PTL

\* The cursor passes no message that is not in the range of a run that has
\* ended (the finally clause of _poll, and _save_cursor).
THEOREM NothingSkippedHolds == Spec => []NothingSkipped
<1>1. TalkInv => NothingSkipped
  BY DEF TalkInv, NothingSkipped, CoverInv, Covered
<1> QED BY TalkHolds, <1>1, PTL

\* A failure is reported to the hub in at most one request (_report_failure
\* and mark_failure_sent).
THEOREM NoticeHolds == Spec => []NoticeAtMostOnce
<1>1. TalkInv => NoticeAtMostOnce
  BY DEF TalkInv, NoticeAtMostOnce, ReceiptsInv, ReceiptInv
<1> QED BY TalkHolds, <1>1, PTL

\* The cursor writes on their way are finitely many, and within their bound.
LateInv == IsFiniteSet(late) /\ Cardinality(late) <= MaxLate

\* A write the loop gives up on joins the others only below their bound.
LEMMA LateStep == LateInv /\ TalkInv /\ [Next]_vars => LateInv'
<1> SUFFICES ASSUME LateInv, TalkInv, [Next]_vars PROVE LateInv'
  OBVIOUS
<1>0. TypeInv /\ PhaseInv /\ Cardinality(late) \in Nat
  BY FS_CardinalityType DEF TalkInv, LateInv
<1>a. ASSUME late' = late PROVE LateInv'
  BY <1>a DEF LateInv
<1>b. ASSUME NEW x, Cardinality(late) < MaxLate, late' = late \cup {x} PROVE LateInv'
  <2>0. IsFiniteSet(late)
    BY DEF LateInv
  <2>1. IsFiniteSet(late \cup {x}) /\ Cardinality(late \cup {x}) <= Cardinality(late) + 1
    <3>1. /\ IsFiniteSet(late \cup {x})
          /\ Cardinality(late \cup {x}) = IF x \in late THEN Cardinality(late) ELSE Cardinality(late) + 1
      BY <2>0, FS_AddElement
    <3> QED BY <1>0, <3>1
  <2>2. Cardinality(late \cup {x}) \in Nat
    BY <2>1, FS_CardinalityType
  <2> QED BY <1>0, <1>b, <2>1, <2>2 DEF LateInv
<1>c. ASSUME NEW x, late' = late \ {x} PROVE LateInv'
  <2>1. IsFiniteSet(late \ {x}) /\ Cardinality(late \ {x}) <= Cardinality(late)
    BY <1>0, FS_RemoveElement DEF LateInv
  <2>2. Cardinality(late \ {x}) \in Nat
    BY <2>1, FS_CardinalityType
  <2> QED BY <1>0, <1>c, <2>1, <2>2 DEF LateInv
<1>1. CASE WriteUnanswered
  BY <1>1, <1>a, <1>b DEF WriteUnanswered, Unanswered
<1>2. CASE Strays
  BY <1>2, <1>c DEF Strays, LateWrite
<1>3. CASE late' = late
  BY <1>3, <1>a
<1>4. WriteConfirmed => late' = late
  BY DEF WriteConfirmed
<1>5. ASSUME at \in InHand, ReplySent PROVE late' = late
  BY <1>0, <1>5, ReplyEffect
<1>6. Stop => late' = late
  BY <1>5 DEF Stop, hubSide, InHand
<1>7. Reply => late' = late
  BY <1>5 DEF Reply, InHand
<1>8. Hub => late' = late \/ Strays
  BY DEF Hub, Post, Membership, Strays, progress
<1>9. CASE \/ Poll \/ Confirm \/ ReadEntries \/ ReadFails \/ (\E c \in Conversations : ReadCursor(c))
           \/ Admit \/ Refuse \/ HandlerReturns \/ WriteDenied \/ WriteRefused \/ Quit \/ Restart
           \/ (\E h \in Hubs : Switch(h)) \/ UNCHANGED vars
           \/ \E s \in Scopes, a \in Positions, status \in Ended : RunEnds(s, a, status)
  <2>1. late' = late
    BY <1>9 DEF Poll, Confirm, ReadEntries, ReadFails, ReadCursor, Admit, Refuse, HandlerReturns,
       WriteDenied, WriteRefused, Quit, Restart, Switch, RunEnds, hubSide, vars
  <2> QED BY <1>a, <2>1
<1> QED
  BY ONLY [Next]_vars, <1>1, <1>2, <1>3, <1>4, <1>6, <1>7, <1>8, <1>9 DEF Next, Consume

\* Every variable has its type, and the loop has a batch exactly where the
\* code has one in hand.
THEOREM TalkTypes == Spec => []TypeOK
<1>1. Init => LateInv
  BY FS_EmptySet DEF Init, LateInv
<1>2. TalkInv /\ LateInv => TypeOK
  BY DEF TalkInv, LateInv, TypeOK, TypeInv, PhaseInv, Locations, InHand, Reading, Batches
<1> QED BY TalkHolds, LateStep, <1>1, <1>2, PTL DEF Spec

====
