------------------------ MODULE SubscriptionsProofs -------------------------
(***************************************************************************)
(* Proofs about a subscriber of an agent's events, for any number of runs, *)
(* parts, frames, processes and lost connections.                          *)
(*                                                                         *)
(* The invariant speaks of what is on its way.  At any moment the client   *)
(* has a view and a cursor; the prefix and the batch hold what it will be  *)
(* told before it is at the reader's position.  ReachInv says that with    *)
(* them it will know every fact recorded up to that position (Known), and  *)
(* nothing before what it is nested in: only then may a checkpoint move    *)
(* its cursor there.  PartsInv says the same of the parts of a step.       *)
(* The rest says why an attachment establishes this: the ring has every    *)
(* recorded fact above its floor (FramesInv), and the records hold the     *)
(* facts of a run in the order of its life (OrderInv).                     *)
(***************************************************************************)
EXTENDS Subscriptions, FiniteSetTheorems, FunctionTheorems, SequenceTheorems,
        NaturalsInduction, WellFoundedInduction, TLAPS

\* The kinds of a durable fact, and the facts of a run.
Kinds == {"run_begin", "step_begin", "step_end", "run_end"}
Begin(r) == <<"run_begin", r>>
StepBegin(r) == <<"step_begin", r>>
StepEnd(r) == <<"step_end", r>>
End(r) == <<"run_end", r>>

\* Types, with numbers where TypeOK has bounds.
CursorSet == [e : Nat, n : Nat]
FrameSet == [n : Nat, what : Kinds \cup {"part"}, of : Runs, part : Nat]
Views == UNION {[D -> CursorSet] : D \in SUBSET Facts}
ContextSet == [type : {"context"}, key : Facts, at : CursorSet]
SourceSet == [type : {"source"}, frame : FrameSet, at : CursorSet]
ItemSet ==
    [type : {"prefill"}, at : CursorSet, roots : SUBSET (Runs \cup {Agent})]
      \cup ContextSet \cup SourceSet \cup [type : {"checkpoint"}, at : CursorSet]

\* Every variable has its type.
TypeInv ==
    /\ epoch \in Nat /\ tail \in Nat /\ floor \in Nat /\ ring \subseteq FrameSet
    /\ accepted \subseteq Runs /\ IsFiniteSet(accepted) /\ alive \subseteq accepted
    /\ at \in [Facts -> CursorSet] /\ parts \in [Runs -> Nat]
    /\ link \in {"off", "reserved", "open", "over"}
    /\ reader \in Nat /\ lost \in BOOLEAN /\ mark \in Nat
    /\ prefix \in Seq(ItemSet) /\ batch \in Seq(FrameSet)
    /\ active \subseteq Runs /\ suppressed \subseteq Runs
    /\ cursor \in CursorSet /\ view \in Views /\ staged \in Seq(Views)
    /\ heard \in [Runs -> Nat] /\ missed \subseteq Runs
    /\ followed \in Runs \cup {Agent}

\* c is an earlier position of the same process than d.
Before(c, d) == c.e = d.e /\ c.n < d.n

(* What is recorded has a cursor of its own, not after the tail; a run     *)
(* this process executes was recorded by it, and has not ended.            *)
RecordsInv ==
    /\ epoch >= 1 /\ floor <= tail
    /\ \A k \in Facts : at[k] # NoCursor =>
          /\ at[k].e \in 1 .. epoch /\ at[k].n >= 1
          /\ at[k].e = epoch => at[k].n <= tail
          /\ k[2] \in accepted
          /\ k[2] \in alive => at[k].e = epoch /\ k[1] # "run_end"
          /\ \A j \in Facts : at[j] = at[k] => j = k
    /\ \A r \in Runs : parts[r] # 0 => at[StepBegin(r)] # NoCursor

\* The facts of a run are recorded in the order of its life.
OrderInv ==
    \A r \in Runs :
       /\ at[StepBegin(r)] # NoCursor =>
             at[Begin(r)] # NoCursor /\ Before(at[Begin(r)], at[StepBegin(r)])
       /\ at[StepEnd(r)] # NoCursor =>
             at[StepBegin(r)] # NoCursor /\ Before(at[StepBegin(r)], at[StepEnd(r)])
       /\ at[End(r)] # NoCursor =>
             /\ at[StepBegin(r)] # NoCursor => at[StepEnd(r)] # NoCursor
             /\ \A what \in Kinds \ {"run_end"} :
                  at[<<what, r>>] # NoCursor => Before(at[<<what, r>>], at[End(r)])

(* A frame is what is recorded at its cursor; a part is between the begin  *)
(* and the end of its step.                                                *)
FrameFits(f) ==
    /\ f.n \in 1 .. tail /\ f.of \in accepted
    /\ f.what # "part" => f.part = 0 /\ at[<<f.what, f.of>>] = Cursor(epoch, f.n)
    /\ f.what = "part" =>
          /\ f.part \in 1 .. parts[f.of]
          /\ Before(at[StepBegin(f.of)], Cursor(epoch, f.n))
          /\ at[StepEnd(f.of)] # NoCursor => Before(Cursor(epoch, f.n), at[StepEnd(f.of)])

\* The frames of the stream in the prefix, in the batch, and anywhere.
Sources == {prefix[i].frame : i \in {j \in DOMAIN prefix : prefix[j].type = "source"}}
InBatch == {batch[i] : i \in DOMAIN batch}
Frames == ring \cup Sources \cup InBatch

(* Above its floor the ring has every recorded fact, and every part of an  *)
(* open step.                                                              *)
FramesInv ==
    /\ IsFiniteSet(ring)
    /\ \A f \in ring : floor < f.n
    /\ \A f \in Frames : FrameFits(f)
    /\ \A f, g \in Frames :
          /\ f.n = g.n => f = g
          /\ f.what = "part" /\ g.what = "part" /\ f.of = g.of /\ f.part <= g.part => f.n <= g.n
    /\ \A k \in Facts : at[k].e = epoch /\ at[k].n > floor => Frame(at[k].n, k[1], k[2], 0) \in ring
    /\ \A r \in OpenSteps : at[StepBegin(r)].e = epoch /\ at[StepBegin(r)].n > floor =>
          \A p \in 1 .. parts[r] : \E f \in ring : f.what = "part" /\ f.of = r /\ f.part = p

\* v holds what c says.
Shows(v, c, m) ==
    /\ \A k \in DOMAIN v :
          /\ v[k] \in {NoCursor, c[k]}
          /\ k[1] # "run_begin" => c[k] # NoCursor /\ v[k] = c[k]
    /\ \A r \in Runs \ m : End(r) \in DOMAIN v /\ Begin(r) \in DOMAIN v => v[Begin(r)] = c[Begin(r)]

\* What the client shows is recorded; what its cursor has passed it shows.
ViewInv ==
    /\ cursor # NoCursor => cursor.e \in 1 .. epoch
    /\ cursor.e = epoch => cursor.n <= tail
    /\ Shows(view, at, missed)
    /\ ViewIsNested
    /\ CursorIsReflected
    /\ followed # Agent => missed = {}
    /\ missed \subseteq Ended
    /\ \A r \in Runs : heard[r] <= parts[r]

\* Without a connection nothing is on its way to the client.
LinkInv ==
    /\ link # "open" => prefix = <<>> /\ batch = <<>> /\ staged = <<>>
    /\ link \in {"off", "reserved"} => heard = [r \in Runs |-> 0]
    /\ EndIsComplete
    /\ reader <= tail /\ mark <= reader

\* What is known at the reader's position.
Known == [k \in Facts |-> IF at[k].e = epoch /\ at[k].n > reader THEN NoCursor ELSE at[k]]

(* The client is receiving a replacement, or is about to; what it will     *)
(* then show, before what it is still told.                                *)
Replacing == staged # <<>> \/ (prefix # <<>> /\ prefix[1].type = "prefill")
Coming == IF staged # <<>> THEN staged[1]
          ELSE IF Replacing THEN Replaced(prefix[1].roots) ELSE view

(* The fact a frame tells; the places of the frames that tell one; what a  *)
(* fact is nested in.                                                      *)
Key(item) == IF item.type = "context" THEN item.key ELSE <<item.frame.what, item.frame.of>>
Told == {i \in DOMAIN prefix : prefix[i].type \in {"context", "source"}}
Above(k) == IF k[1] = "step_begin" THEN {Begin(k[2])}
            ELSE IF k[1] = "step_end" THEN {Begin(k[2]), StepBegin(k[2])} ELSE {}

\* What a context and a source frame of the prefix say.
ContextFits(x) ==
    /\ x = [type |-> "context", key |-> x.key, at |-> Known[x.key]]
    /\ x.key \in Facts /\ x.key[2] \in InScope
    /\ x.key[1] # "run_begin" => Known[x.key] # NoCursor
SourceFits(x) ==
    /\ x = Source(x.frame)
    /\ x.frame.of \in InScope /\ x.frame.n <= reader
    /\ cursor.e = epoch /\ cursor.n < x.frame.n
    /\ x.frame.what = "part" => x.frame.of \notin suppressed

(* A prefix ends in the checkpoint of the reader's position, has the       *)
(* stream's frames in order, and tells no fact before what it is nested    *)
(* in.                                                                     *)
PrefixInv ==
    prefix # <<>> =>
    /\ batch = <<>> /\ mark = 0
    /\ prefix[Len(prefix)] = Checkpoint(reader)
    /\ \A i \in DOMAIN prefix : i # Len(prefix) =>
          \/ i = 1 /\ staged = <<>> /\ prefix[i].type = "prefill"
          \/ prefix[i].type = "context" /\ ContextFits(prefix[i])
          \/ prefix[i].type = "source" /\ ~Replacing /\ SourceFits(prefix[i])
    /\ \A i, j \in DOMAIN prefix :
          i < j /\ prefix[i].type = "source" /\ prefix[j].type = "source"
             => prefix[i].frame.n < prefix[j].frame.n
    /\ \A i \in Told : \A k \in Above(Key(prefix[i])) :
          k \in DOMAIN Coming \/ \E j \in Told : j < i /\ Key(prefix[j]) = k
    /\ \A i, j \in Told : \A r \in Runs :
          Key(prefix[i]) = End(r) /\ Key(prefix[j]) = Begin(r) => j < i
    /\ ~Replacing => cursor.e = epoch

\* A batch is in order, in the scope, read, and after the cursor.
BatchInv ==
    /\ \A i \in DOMAIN batch :
          /\ batch[i].of \in InScope /\ batch[i].n <= reader
          /\ cursor.e = epoch => cursor.n < batch[i].n
    /\ \A i, j \in DOMAIN batch : i < j => batch[i].n < batch[j].n

(* The reader is at or after the floor, unless it is overflowed, and the   *)
(* cursor at or before the reader.                                         *)
ReaderInv ==
    /\ ~lost => floor <= reader
    /\ mark \in {0, reader}
    /\ cursor.e = epoch => cursor.n <= reader
    /\ followed # Agent => followed \in accepted
    /\ staged # <<>> => prefix # <<>> /\ Len(staged) = 1

(* A fact that is, or will be, in the client's view when it has received   *)
(* what is on its way.                                                     *)
Reaches(k) ==
    \/ k \in DOMAIN Coming /\ Coming[k] = at[k]
    \/ \E i \in Told : Key(prefix[i]) = k /\ (prefix[i].type = "context" => Replacing)
    \/ \E f \in InBatch : <<f.what, f.of>> = k

\* Facts the reader has not come to; facts the client shows or will be told.
Ahead == {k \in Facts : k[2] \in InScope /\ at[k].e = epoch /\ at[k].n > reader}
Due2 == {k \in Facts : \/ k \in DOMAIN Coming
                       \/ \E i \in Told : Key(prefix[i]) = k
                       \/ \E f \in InBatch : <<f.what, f.of>> = k
                       \/ k \in Ahead}

(* Every fact known at the reader's position reaches the client, and none  *)
(* before what it is nested in.                                            *)
ReachInv ==
    /\ Shows(view, Known, missed)
    /\ Shows(Coming, Known, missed)
    /\ \A k \in Facts : k[2] \in InScope \ missed /\ Known[k] # NoCursor => Reaches(k)
    /\ \A k \in Due2 : Above(k) \subseteq Due2
    /\ \A r \in alive \cap InScope : \A k \in {Begin(r), StepBegin(r)} :
          at[k] # NoCursor => k \in Due2
    /\ followed # Agent /\ followed \notin active => Known[End(followed)] # NoCursor

\* The parts of a step that the client may still be shown.
Awaited(r) == {f \in Sources \cup InBatch \cup Unread : f.what = "part" /\ f.of = r}

(* Of a step that is not suppressed the client may still be shown exactly  *)
(* the parts after those it heard.                                         *)
PartsInv ==
    /\ \A r \in suppressed : Known[StepBegin(r)] # NoCursor /\ \A f \in InBatch : <<f.what, f.of>> # StepBegin(r)
    /\ ~lost => \A r \in InScope \ suppressed :
          /\ \A f \in Awaited(r) : f.part > heard[r]
          /\ r \in OpenSteps \/ Awaited(r) # {} =>
                \A p \in heard[r] + 1 .. parts[r] : \E f \in Awaited(r) : f.part = p

\* The invariant of an open connection.
OpenInv == link = "open" => ReaderInv /\ PrefixInv /\ BatchInv /\ ReachInv /\ PartsInv

\* The inductive invariant.
Inv == TypeInv /\ RecordsInv /\ OrderInv /\ FramesInv /\ ViewInv /\ LinkInv /\ OpenInv

(* The place of a member in the order is the number of those before it. *)
LEMMA InOrderFacts ==
    ASSUME NEW S, IsFiniteSet(S), NEW place \in [S -> Nat],
           \A x, y \in S : place[x] = place[y] => x = y
    PROVE  /\ InOrder(S, place) \in Seq(S)
           /\ Len(InOrder(S, place)) = Cardinality(S)
           /\ \A x \in S : \E i \in DOMAIN InOrder(S, place) : InOrder(S, place)[i] = x
           /\ \A i, j \in DOMAIN InOrder(S, place) :
                 i < j <=> place[InOrder(S, place)[i]] < place[InOrder(S, place)[j]]
<1> DEFINE N == Cardinality(S)
           Below(x) == {y \in S : place[y] < place[x]}
           rank == [x \in S |-> Cardinality(Below(x)) + 1]
<1>1. N \in Nat
  BY FS_CardinalityType
<1>2. ASSUME NEW x \in S PROVE IsFiniteSet(Below(x)) /\ Cardinality(Below(x)) \in Nat /\ Cardinality(Below(x)) < N
  <2>1. Below(x) \subseteq S /\ x \notin Below(x)
    OBVIOUS
  <2> QED
    BY <2>1, FS_Subset, FS_CardinalityType
<1>3. ASSUME NEW x \in S, NEW y \in S, place[x] < place[y]
      PROVE  Cardinality(Below(x)) < Cardinality(Below(y))
  <2>0. \A z \in S : place[z] \in Nat
    OBVIOUS
  <2>1. Below(x) \subseteq Below(y)
    BY <1>3, <2>0
  <2>2. x \in Below(y) /\ x \notin Below(x)
    BY <1>3, <2>0
  <2>3. IsFiniteSet(Below(x)) /\ IsFiniteSet(Below(y))
    BY <1>2
  <2>4. Below(x) # Below(y)
    BY <2>2
  <2> HIDE DEF Below
  <2>5. Cardinality(Below(x)) \in Nat /\ Cardinality(Below(y)) \in Nat
    BY <2>3, FS_CardinalityType
  <2>6. Cardinality(Below(x)) <= Cardinality(Below(y)) /\ Cardinality(Below(x)) # Cardinality(Below(y))
    BY <2>1, <2>3, <2>4, FS_Subset
  <2> QED
    BY <2>5, <2>6
<1> HIDE DEF Below
<1>4. rank \in [S -> 1 .. N]
  BY <1>1, <1>2
<1>5. \A x, y \in S : rank[x] = rank[y] => x = y
  <2> SUFFICES ASSUME NEW x \in S, NEW y \in S, rank[x] = rank[y] PROVE x = y
    OBVIOUS
  <2>1. Cardinality(Below(x)) = Cardinality(Below(y))
    BY <1>2
  <2>2. ~(place[x] < place[y]) /\ ~(place[y] < place[x])
    BY <2>1, <1>2, <1>3
  <2>3. place[x] \in Nat /\ place[y] \in Nat
    OBVIOUS
  <2> QED
    BY <2>2, <2>3
<1>6. ASSUME NEW i \in 1 .. N PROVE \E x \in S : rank[x] = i
  <2> DEFINE I == {rank[x] : x \in S}
  <2>1. rank \in Bijection(S, I)
    BY <1>5 DEF Bijection, Injection, Surjection, IsInjective
  <2>2. IsFiniteSet(I) /\ Cardinality(I) = N
    BY <2>1, FS_Bijection, FS_SameCardinalityBij DEF ExistsBijection
  <2>3. IsFiniteSet(1 .. N) /\ Cardinality(1 .. N) = N
    BY <1>1, FS_Interval
  <2>4. I \subseteq 1 .. N
    BY <1>4
  <2>5. I = 1 .. N
    BY <2>2, <2>3, <2>4, FS_Subset
  <2> QED
    BY <2>5
<1> DEFINE s == InOrder(S, place)
<1>7. s = [i \in 1 .. N |-> CHOOSE x \in S : Cardinality(Below(x)) = i - 1]
  BY DEF InOrder, Below
<1>8. ASSUME NEW i \in 1 .. N PROVE s[i] \in S /\ rank[s[i]] = i
  <2>0. PICK x \in S : Cardinality(Below(x)) + 1 = i
    BY <1>6
  <2>1. \E z \in S : Cardinality(Below(z)) = i - 1
    <3>1. Cardinality(Below(x)) \in Nat
      BY <1>2
    <3> QED
      BY <3>1, <2>0
  <2>2. s[i] \in S /\ Cardinality(Below(s[i])) = i - 1
    BY <1>7, <2>1
  <2> QED
    BY <2>2, <1>1
<1>9. s \in [1 .. N -> S]
  BY <1>7, <1>8
<1>10. s \in Seq(S) /\ Len(s) = N /\ DOMAIN s = 1 .. N
  BY <1>9, <1>1, IsASeq, ElementOfSeq
<1>11. ASSUME NEW x \in S PROVE \E i \in DOMAIN s : s[i] = x
  <2>1. rank[x] \in 1 .. N
    BY <1>4
  <2>2. s[rank[x]] \in S /\ rank[s[rank[x]]] = rank[x]
    BY <2>1, <1>8
  <2>3. s[rank[x]] = x
    BY <2>2, <1>5
  <2> QED
    BY <2>1, <2>3, <1>10
<1>12. \A i, j \in DOMAIN s : i < j <=> place[s[i]] < place[s[j]]
  <2> SUFFICES ASSUME NEW i \in DOMAIN s, NEW j \in DOMAIN s PROVE i < j <=> place[s[i]] < place[s[j]]
    OBVIOUS
  <2>1. s[i] \in S /\ s[j] \in S /\ rank[s[i]] = i /\ rank[s[j]] = j
    BY <1>8, <1>10
  <2>6. /\ Cardinality(Below(s[i])) \in Nat /\ Cardinality(Below(s[j])) \in Nat
        /\ i = Cardinality(Below(s[i])) + 1 /\ j = Cardinality(Below(s[j])) + 1
    BY <2>1, <1>2
  <2>2. place[s[i]] < place[s[j]] => i < j
    BY <2>1, <2>6, <1>3
  <2>3. place[s[j]] < place[s[i]] => j < i
    BY <2>1, <2>6, <1>3
  <2>4. place[s[i]] = place[s[j]] => i = j
    BY <2>1
  <2>5. i \in Nat /\ j \in Nat /\ place[s[i]] \in Nat /\ place[s[j]] \in Nat
    BY <2>1, <1>10, <1>1
  <2> QED
    BY <2>2, <2>3, <2>4, <2>5
<1> HIDE DEF s
<1> QED
  BY <1>10, <1>11, <1>12 DEF s

\* SetToSeq lists each member of a finite set once.
LEMMA SetToSeqFacts ==
    ASSUME NEW S, IsFiniteSet(S)
    PROVE  /\ SetToSeq(S) \in Seq(S)
           /\ \A x \in S : \E i \in DOMAIN SetToSeq(S) : SetToSeq(S)[i] = x
           /\ \A i, j \in DOMAIN SetToSeq(S) : SetToSeq(S)[i] = SetToSeq(S)[j] => i = j
<1> DEFINE N == Cardinality(S)
<1>1. N \in Nat
  BY FS_CardinalityType
<1>2. \E f \in [1 .. N -> S] : IsInjective(f)
  <2>1. PICK f : f \in Bijection(1 .. N, S)
    BY FS_CardinalityType DEF ExistsBijection
  <2> QED
    BY <2>1 DEF Bijection, Injection, IsInjective
<1> DEFINE s == SetToSeq(S)
<1>3. s \in [1 .. N -> S] /\ IsInjective(s)
  BY <1>2 DEF SetToSeq
<1>4. s \in Seq(S) /\ DOMAIN s = 1 .. N
  BY <1>3, <1>1, IsASeq
<1>5. \A i, j \in DOMAIN s : s[i] = s[j] => i = j
  BY <1>3, <1>4 DEF IsInjective
<1>6. \A x \in S : \E i \in DOMAIN s : s[i] = x
  <2> DEFINE I == {s[i] : i \in 1 .. N}
  <2>1. s \in Bijection(1 .. N, I)
    BY <1>3, <1>5 DEF Bijection, Injection, Surjection, IsInjective
  <2>2. IsFiniteSet(1 .. N) /\ Cardinality(1 .. N) = N
    BY <1>1, FS_Interval
  <2>3. IsFiniteSet(I) /\ Cardinality(I) = N
    BY <2>1, <2>2, FS_Bijection, FS_SameCardinalityBij DEF ExistsBijection
  <2>4. I \subseteq S
    BY <1>3
  <2>5. I = S
    BY <2>3, <2>4, FS_Subset
  <2> QED
    BY <2>5, <1>4
<1> HIDE DEF s
<1> QED
  BY <1>4, <1>5, <1>6 DEF s

(***************************************************************************)
(* Least numbers, images and sequences.                                    *)
(***************************************************************************)

\* A set of numbers that is not empty has a least one.
LEMMA Least ==
    ASSUME NEW T \in SUBSET Nat, T # {}
    PROVE  \E x \in T : \A y \in T : x <= y
<1> DEFINE R == OpToRel(<, Nat)
<1>1. IsWellFoundedOn(R, Nat)
  BY NatLessThanWellFounded
<1>2. \A x, y \in Nat : x < y => <<x, y>> \in R
  BY DEF OpToRel
<1> HIDE DEF R
<1>3. PICK x \in T : \A y \in T : ~(<<y, x>> \in R)
  BY <1>1, WFMin
<1>4. \A y \in T : ~(y < x)
  BY <1>2, <1>3
<1> QED
  BY <1>4

\* The image of a finite set is finite.
LEMMA ImageIsFinite ==
    ASSUME NEW S, IsFiniteSet(S), NEW f
    PROVE  IsFiniteSet({f[x] : x \in S})
<1> DEFINE g == [x \in S |-> f[x]]
           T == {f[x] : x \in S}
<1>1. g \in Surjection(S, T)
  BY DEF Surjection
<1> QED
  BY <1>1, FS_Surjection

\* Where the members of two sequences are in their concatenation.
LEMMA ConcatFacts ==
    ASSUME NEW S, NEW s \in Seq(S), NEW t \in Seq(S)
    PROVE  /\ s \o t \in Seq(S) /\ Len(s) \in Nat /\ Len(s \o t) = Len(s) + Len(t)
           /\ DOMAIN s = 1 .. Len(s) /\ DOMAIN t = 1 .. Len(t)
           /\ DOMAIN (s \o t) = 1 .. Len(s) + Len(t)
           /\ \A i \in DOMAIN s : i \in DOMAIN (s \o t) /\ (s \o t)[i] = s[i]
           /\ \A j \in DOMAIN t : Len(s) + j \in DOMAIN (s \o t) /\ (s \o t)[Len(s) + j] = t[j]
           /\ \A i \in DOMAIN (s \o t) : i \in DOMAIN s \/ \E j \in DOMAIN t : i = Len(s) + j
<1>1. Len(s) \in Nat /\ Len(t) \in Nat /\ DOMAIN s = 1 .. Len(s) /\ DOMAIN t = 1 .. Len(t)
  BY LenProperties
<1>2. /\ s \o t \in Seq(S) /\ Len(s \o t) = Len(s) + Len(t)
      /\ \A i \in 1 .. Len(s) + Len(t) :
            (s \o t)[i] = IF i <= Len(s) THEN s[i] ELSE t[i - Len(s)]
  BY ConcatProperties
<1>3. DOMAIN (s \o t) = 1 .. Len(s) + Len(t)
  BY <1>2, LenProperties
<1>4. \A i \in DOMAIN s : i \in DOMAIN (s \o t) /\ (s \o t)[i] = s[i]
  BY <1>1, <1>2, <1>3
<1>5. ASSUME NEW j \in DOMAIN t
      PROVE  Len(s) + j \in DOMAIN (s \o t) /\ (s \o t)[Len(s) + j] = t[j]
  <2>1. j \in 1 .. Len(t) /\ Len(s) + j \in 1 .. Len(s) + Len(t) /\ ~(Len(s) + j <= Len(s))
        /\ (Len(s) + j) - Len(s) = j
    BY <1>1
  <2> QED
    BY <2>1, <1>2, <1>3
<1>6. ASSUME NEW i \in DOMAIN (s \o t)
      PROVE  i \in DOMAIN s \/ \E j \in DOMAIN t : i = Len(s) + j
  <2>1. CASE i <= Len(s)
    BY <2>1, <1>1, <1>3
  <2>2. CASE ~(i <= Len(s))
    <3>1. i - Len(s) \in 1 .. Len(t) /\ i = Len(s) + (i - Len(s))
      BY <2>2, <1>1, <1>3
    <3> QED
      BY <3>1, <1>1
  <2> QED
    BY <2>1, <2>2
<1> QED
  BY <1>1, <1>2, <1>3, <1>4, <1>5, <1>6

\* A fact is a pair of a kind and a run.
LEMMA FactsAre == \A k : k \in Facts <=> k = <<k[1], k[2]>> /\ k[1] \in Kinds /\ k[2] \in Runs
  BY DEF Facts, Kinds

\* The four facts of a run.
LEMMA FactsOf ==
    ASSUME NEW r \in Runs
    PROVE  /\ Begin(r) \in Facts /\ StepBegin(r) \in Facts /\ StepEnd(r) \in Facts /\ End(r) \in Facts
           /\ Begin(r)[1] = "run_begin" /\ Begin(r)[2] = r
           /\ StepBegin(r)[1] = "step_begin" /\ StepBegin(r)[2] = r
           /\ StepEnd(r)[1] = "step_end" /\ StepEnd(r)[2] = r
           /\ End(r)[1] = "run_end" /\ End(r)[2] = r
  BY DEF Facts, Begin, StepBegin, StepEnd, End

(***************************************************************************)
(* The parts of a prefix.                                                  *)
(***************************************************************************)

\* A context frame of a fact carries the cursor the records have of it.
LEMMA ContextIs ==
    ASSUME TypeInv, NEW k \in Facts
    PROVE  Context(k) = [type |-> "context", key |-> k, at |-> at[k]] /\ Context(k) \in ContextSet
           /\ Context(k).type = "context" /\ Context(k).key = k /\ Key(Context(k)) = k
  BY DEF Context, ContextSet, TypeInv, Key

\* A source frame carries its own cursor.
LEMMA SourceIs ==
    ASSUME TypeInv, NEW f \in FrameSet
    PROVE  /\ Source(f) = [type |-> "source", frame |-> f, at |-> [e |-> epoch, n |-> f.n]]
           /\ Source(f) \in SourceSet
           /\ Source(f).type = "source" /\ Source(f).frame = f /\ Key(Source(f)) = <<f.what, f.of>>
  BY DEF Source, SourceSet, TypeInv, Key, Cursor, CursorSet, FrameSet

\* Contexts keeps the order of the facts.
LEMMA ContextsAre ==
    ASSUME TypeInv, NEW s \in Seq(Facts)
    PROVE  /\ Contexts(s) \in Seq(ContextSet) /\ DOMAIN Contexts(s) = DOMAIN s
           /\ \A i \in DOMAIN s : Contexts(s)[i] = Context(s[i]) /\ s[i] \in Facts
<1>1. DOMAIN s = 1 .. Len(s) /\ Len(s) \in Nat /\ \A i \in 1 .. Len(s) : s[i] \in Facts
  BY LenProperties, ElementOfSeq
<1>2. \A i \in 1 .. Len(s) : Context(s[i]) \in ContextSet
  BY <1>1, ContextIs
<1>3. Contexts(s) = [i \in 1 .. Len(s) |-> Context(s[i])]
  BY <1>1 DEF Contexts
<1>4. Contexts(s) \in Seq(ContextSet)
  BY <1>1, <1>2, <1>3, IsASeq
<1> QED
  BY <1>1, <1>3, <1>4

(* What is recorded of finitely many runs is finite. *)
LEMMA RecordedIsFinite ==
    ASSUME NEW R \in SUBSET Runs, IsFiniteSet(R), NEW K \in SUBSET Facts, \A k \in K : k[2] \in R
    PROVE  IsFiniteSet(K)
<1>1. IsFiniteSet(Kinds)
  <2>1. Kinds = {"run_begin"} \cup ({"step_begin"} \cup ({"step_end"} \cup {"run_end"}))
    BY DEF Kinds
  <2> QED
    BY <2>1, FS_Singleton, FS_Union
<1>2. IsFiniteSet(Kinds \X R)
  BY <1>1, FS_Product
<1>3. K \subseteq Kinds \X R
  BY FactsAre
<1> QED
  BY <1>2, <1>3, FS_Subset

(* structural(): every record of the trees, parents first. *)
LEMMA StructureFacts ==
    ASSUME TypeInv, RecordsInv, OrderInv, NEW R \in SUBSET accepted
    PROVE  LET s == Structure(R) IN
           /\ s \in Seq(ContextSet)
           /\ \A i \in DOMAIN s : s[i].key \in Recorded(R) /\ s[i] = Context(s[i].key)
           /\ \A k \in Recorded(R) : \E i \in DOMAIN s : s[i].key = k
           /\ \A i \in DOMAIN s : \A k \in Above(s[i].key) : \E j \in DOMAIN s : j < i /\ s[j].key = k
           /\ \A i, j \in DOMAIN s : \A r \in Runs : s[i].key = End(r) /\ s[j].key = Begin(r) => j < i
<1> DEFINE K == Recorded(R)
           t == TreeOrder(R)
           place == [k \in K |-> 4 * t[k[2]] + Rank(k)]
           keys == InOrder(K, place)
<1>1. IsFiniteSet(R) /\ R \subseteq Runs
  BY FS_Subset DEF TypeInv
<1>2. K \subseteq Facts /\ \A k \in K : k[2] \in R
  BY DEF Recorded
<1>3. IsFiniteSet(K)
  BY <1>1, <1>2, RecordedIsFinite
<1>4. t \in [R -> 1 .. Cardinality(R)] /\ \A r, q \in R : t[r] = t[q] => r = q
  <2>1. Cardinality(R) \in Nat /\ ExistsBijection(1 .. Cardinality(R), R)
    BY <1>1, FS_CardinalityType
  <2>2. ExistsBijection(R, 1 .. Cardinality(R))
    BY <2>1, Fun_ExistsBijSymmetric
  <2>3. \E f \in [R -> 1 .. Cardinality(R)] : IsInjective(f)
    BY <2>2 DEF ExistsBijection, Bijection, Injection, IsInjective
  <2>4. t \in [R -> 1 .. Cardinality(R)] /\ IsInjective(t)
    BY <2>3 DEF TreeOrder
  <2> QED
    BY <2>4 DEF IsInjective
<1>5. Cardinality(R) \in Nat /\ \A r \in R : t[r] \in Nat
  <2>1. Cardinality(R) \in Nat
    BY <1>1, FS_CardinalityType
  <2> QED
    BY <2>1, <1>4
<1> HIDE DEF t
<1>6. \A k \in K : Rank(k) \in 0 .. 3
  BY DEF Rank
<1>7. place \in [K -> Nat]
  BY <1>2, <1>5, <1>6
<1>8. ASSUME NEW x \in K, NEW y \in K, place[x] = place[y] PROVE x = y
  <2>1. t[x[2]] \in Nat /\ t[y[2]] \in Nat /\ Rank(x) \in 0 .. 3 /\ Rank(y) \in 0 .. 3
    BY <1>2, <1>5, <1>6
  <2>2. 4 * t[x[2]] + Rank(x) = 4 * t[y[2]] + Rank(y)
    BY <1>8
  <2>3. t[x[2]] = t[y[2]] /\ Rank(x) = Rank(y)
    BY <2>1, <2>2
  <2>4. x[2] = y[2]
    BY <2>3, <1>2, <1>4
  <2>5. x[1] \in Kinds /\ y[1] \in Kinds /\ x = <<x[1], x[2]>> /\ y = <<y[1], y[2]>>
    BY <1>2, FactsAre
  <2>6. x[1] = y[1]
    BY <2>3, <2>5 DEF Rank, Kinds
  <2> QED
    BY <2>4, <2>5, <2>6
<1>9. /\ keys \in Seq(K)
      /\ \A x \in K : \E i \in DOMAIN keys : keys[i] = x
      /\ \A i, j \in DOMAIN keys : i < j <=> place[keys[i]] < place[keys[j]]
  <2> HIDE DEF place, K
  <2> QED
    BY <1>3, <1>7, <1>8, InOrderFacts
<1>10. \A i \in DOMAIN keys : keys[i] \in K
  BY <1>9, ElementOfSeq, LenProperties
<1>11. keys \in Seq(Facts)
  BY <1>9, <1>2, SeqMonotonic
<1> DEFINE s == Structure(R)
<1>12. s = Contexts(keys)
  BY DEF Structure, t
<1> HIDE DEF keys, place, s, K
<1>13. /\ s \in Seq(ContextSet) /\ DOMAIN s = DOMAIN keys
       /\ \A i \in DOMAIN keys : s[i] = Context(keys[i]) /\ keys[i] \in Facts
  BY <1>11, <1>12, ContextsAre
<1>14. \A i \in DOMAIN s : s[i].key = keys[i]
  BY <1>13, ContextIs
<1>15. ASSUME NEW i \in DOMAIN s, NEW k \in Above(s[i].key)
       PROVE  \E j \in DOMAIN s : j < i /\ s[j].key = k
  <2> DEFINE x == keys[i]
  <2>1. x \in K /\ s[i].key = x /\ i \in DOMAIN keys
    BY <1>10, <1>13, <1>14
  <2>2. x \in Facts /\ x[2] \in R /\ x[2] \in Runs /\ (Happened(x[1], x[2]) \/ x[1] = "run_begin")
    BY <2>1, <1>1, <1>2 DEF Recorded, K
  <2>3. /\ x = <<x[1], x[2]>> /\ x[2] \in R /\ x[2] \in Runs
    BY <2>1, <1>1, <1>2, FactsAre
  <2>4. k \in K /\ k[2] = x[2] /\ Rank(k) < Rank(x)
    <3>1. CASE x[1] = "step_begin"
      <4>1. k = Begin(x[2])
        BY <3>1, <2>1, <1>15 DEF Above
      <4>2. k \in Facts /\ k[1] = "run_begin" /\ k[2] = x[2]
        BY <4>1, <2>3, FactsOf
      <4> QED
        BY <4>2, <3>1, <2>3 DEF K, Recorded, Rank
    <3>2. CASE x[1] = "step_end"
      <4>1. k \in {Begin(x[2]), StepBegin(x[2])}
        BY <3>2, <2>1, <1>15 DEF Above
      <4>2. x = StepEnd(x[2]) /\ at[x] # NoCursor
        BY <3>2, <2>2, <2>3 DEF StepEnd, Happened
      <4>3. at[StepBegin(x[2])] # NoCursor
        BY <4>2, <2>3 DEF OrderInv
      <4>4. CASE k = Begin(x[2])
        <5>1. k \in Facts /\ k[1] = "run_begin" /\ k[2] = x[2]
          BY <4>4, <2>3, FactsOf
        <5> QED
          BY <5>1, <3>2, <2>3 DEF K, Recorded, Rank
      <4>5. CASE k = StepBegin(x[2])
        <5>1. k \in Facts /\ k[1] = "step_begin" /\ k[2] = x[2]
          BY <4>5, <2>3, FactsOf
        <5>2. Happened(k[1], k[2])
          BY <5>1, <4>3 DEF Happened, StepBegin
        <5> QED
          BY <5>1, <5>2, <3>2, <2>3 DEF K, Recorded, Rank
      <4> QED
        BY <4>1, <4>4, <4>5
    <3>3. CASE x[1] \notin {"step_begin", "step_end"}
      BY <3>3, <2>1, <1>15 DEF Above
    <3> QED
      BY <3>1, <3>2, <3>3
  <2>5. PICK j \in DOMAIN keys : keys[j] = k
    BY <2>4, <1>9
  <2>6. place[k] < place[x]
    <3>1. place[k] = 4 * t[k[2]] + Rank(k) /\ place[x] = 4 * t[x[2]] + Rank(x)
      BY <2>1, <2>4 DEF place
    <3>2. t[x[2]] \in Nat /\ Rank(k) \in 0 .. 3 /\ Rank(x) \in 0 .. 3
      BY <2>1, <2>3, <2>4, <1>5, <1>6
    <3> QED
      BY <3>1, <3>2, <2>4
  <2>7. j < i
    BY <2>1, <2>5, <2>6, <1>9
  <2> QED
    BY <2>5, <2>7, <1>13, <1>14
<1>16. \A i \in DOMAIN s : s[i].key \in K /\ s[i] = Context(s[i].key)
  BY <1>10, <1>13, <1>14
<1>17. \A k \in K : \E i \in DOMAIN s : s[i].key = k
  BY <1>9, <1>13, <1>14
<1>18. ASSUME NEW i \in DOMAIN s, NEW j \in DOMAIN s, NEW r \in Runs, s[i].key = End(r), s[j].key = Begin(r)
       PROVE  j < i
  <2>1. i \in DOMAIN keys /\ j \in DOMAIN keys /\ keys[i] = End(r) /\ keys[j] = Begin(r) /\ End(r) \in K /\ Begin(r) \in K
    BY <1>10, <1>13, <1>14, <1>18
  <2>2. /\ End(r)[1] = "run_end" /\ End(r)[2] = r /\ Begin(r)[1] = "run_begin" /\ Begin(r)[2] = r /\ r \in R
    BY <2>1, <1>2, FactsOf
  <2>3. Rank(End(r)) = 3 /\ Rank(Begin(r)) = 0
    BY <2>2 DEF Rank
  <2>4. place[End(r)] = 4 * t[r] + 3 /\ place[Begin(r)] = 4 * t[r] + 0
    BY <2>1, <2>2, <2>3 DEF place
  <2>5. t[r] \in Nat
    BY <2>2, <1>5
  <2>6. place[keys[j]] < place[keys[i]]
    BY <2>1, <2>4, <2>5
  <2> QED
    BY <2>1, <2>6, <1>9
<1> QED
  BY <1>13, <1>15, <1>16, <1>17, <1>18 DEF s, K

(***************************************************************************)
(* What is shown, when more is known.                                      *)
(***************************************************************************)

(* A view that is right about what was known is right about more. *)
LEMMA ShowsMore ==
    ASSUME NEW v \in Views, NEW c \in [Facts -> CursorSet], NEW d \in [Facts -> CursorSet], NEW m, NEW n,
           Shows(v, c, m), m \subseteq n,
           \A k \in Facts : c[k] # NoCursor => d[k] = c[k],
           \A r \in Runs : c[End(r)] # NoCursor => d[Begin(r)] = c[Begin(r)]
    PROVE  Shows(v, d, n)
<1>1. DOMAIN v \subseteq Facts
  BY DEF Views
<1>2. ASSUME NEW k \in DOMAIN v
      PROVE  /\ v[k] \in {NoCursor, d[k]}
             /\ k[1] # "run_begin" => d[k] # NoCursor /\ v[k] = d[k]
  BY <1>1 DEF Shows
<1>3. ASSUME NEW r \in Runs \ n, End(r) \in DOMAIN v, Begin(r) \in DOMAIN v
      PROVE  v[Begin(r)] = d[Begin(r)]
  <2>1. c[End(r)] # NoCursor
    <3>1. End(r)[1] # "run_begin"
      BY FactsOf
    <3> QED
      BY <3>1, <1>3 DEF Shows
  <2>2. v[Begin(r)] = c[Begin(r)]
    BY <1>3 DEF Shows
  <2> QED
    BY <2>1, <2>2
<1> QED
  BY <1>2, <1>3 DEF Shows

\* What is known at the reader's position is part of what is recorded.
LEMMA KnownTypes ==
    ASSUME TypeInv
    PROVE  /\ Known \in [Facts -> CursorSet] /\ NoCursor \in CursorSet /\ NoCursor.e = 0 /\ NoCursor.n = 0
           /\ \A k \in Facts : /\ at[k] \in CursorSet /\ at[k].e \in Nat /\ at[k].n \in Nat
                               /\ Known[k] # NoCursor => at[k] = Known[k]
                               /\ Known[k] # NoCursor /\ at[k].e = epoch => at[k].n <= reader
                               /\ at[k] # NoCursor /\ at[k].e # epoch => Known[k] = at[k]
                               /\ at[k].n <= reader => Known[k] = at[k]
                               /\ at[k] = NoCursor => Known[k] = NoCursor
<1>1. at \in [Facts -> CursorSet] /\ reader \in Nat
  BY DEF TypeInv
<1>2. NoCursor \in CursorSet /\ NoCursor.e = 0 /\ NoCursor.n = 0
  BY DEF NoCursor, Cursor, CursorSet
<1>3. \A k \in Facts : at[k] \in CursorSet /\ at[k].e \in Nat /\ at[k].n \in Nat
  BY <1>1 DEF CursorSet
<1>4. \A k \in Facts : Known[k] = IF at[k].e = epoch /\ at[k].n > reader THEN NoCursor ELSE at[k]
  BY DEF Known
<1>5. Known \in [Facts -> CursorSet]
  BY <1>2, <1>3 DEF Known
<1> QED
  BY <1>1, <1>2, <1>3, <1>4, <1>5

(* If the end of a run is known, what came before it is. *)
LEMMA KnownBefore ==
    ASSUME TypeInv, OrderInv, NEW r \in Runs
    PROVE  /\ Known[End(r)] # NoCursor =>
                 /\ Known[Begin(r)] = at[Begin(r)] /\ Known[StepBegin(r)] = at[StepBegin(r)]
                 /\ Known[StepEnd(r)] = at[StepEnd(r)]
           /\ Known[StepBegin(r)] # NoCursor => Known[Begin(r)] = at[Begin(r)]
           /\ Known[StepEnd(r)] # NoCursor =>
                 Known[StepBegin(r)] = at[StepBegin(r)] /\ Known[Begin(r)] = at[Begin(r)]
<1>0. /\ Begin(r) \in Facts /\ StepBegin(r) \in Facts /\ StepEnd(r) \in Facts /\ End(r) \in Facts
      /\ Begin(r) = <<"run_begin", r>> /\ StepBegin(r) = <<"step_begin", r>>
      /\ StepEnd(r) = <<"step_end", r>> /\ End(r) = <<"run_end", r>>
  BY FactsOf DEF Begin, StepBegin, StepEnd, End
<1>r. reader \in Nat
  BY DEF TypeInv
<1>1. ASSUME NEW j \in Facts, NEW k \in Facts, Known[k] # NoCursor,
             at[j] # NoCursor => Before(at[j], at[k])
      PROVE  Known[j] = at[j]
  <2>1. CASE at[j] = NoCursor
    BY <2>1, KnownTypes
  <2>2. CASE at[j] # NoCursor
    <3>1. at[j].e = at[k].e /\ at[j].n < at[k].n
      BY <2>2, <1>1 DEF Before
    <3>2. CASE at[k].e = epoch
      BY <3>1, <3>2, <1>1, <1>r, KnownTypes
    <3>3. CASE at[k].e # epoch
      BY <3>1, <3>3, <2>2, KnownTypes
    <3> QED
      BY <3>2, <3>3
  <2> QED
    BY <2>1, <2>2
<1>2. \A k \in Facts : Known[k] # NoCursor => at[k] # NoCursor
  BY KnownTypes
<1>3. /\ at[StepBegin(r)] # NoCursor => at[Begin(r)] # NoCursor /\ Before(at[Begin(r)], at[StepBegin(r)])
      /\ at[StepEnd(r)] # NoCursor => at[StepBegin(r)] # NoCursor /\ Before(at[StepBegin(r)], at[StepEnd(r)])
  BY DEF OrderInv
<1>4. at[End(r)] # NoCursor =>
         /\ at[Begin(r)] # NoCursor => Before(at[Begin(r)], at[End(r)])
         /\ at[StepBegin(r)] # NoCursor => Before(at[StepBegin(r)], at[End(r)])
         /\ at[StepEnd(r)] # NoCursor => Before(at[StepEnd(r)], at[End(r)])
  <2>1. at[End(r)] # NoCursor =>
          \A what \in Kinds \ {"run_end"} : at[<<what, r>>] # NoCursor => Before(at[<<what, r>>], at[End(r)])
    BY DEF OrderInv
  <2>2. {"run_begin", "step_begin", "step_end"} \subseteq Kinds \ {"run_end"}
    BY DEF Kinds
  <2> QED
    BY <2>1, <2>2, <1>0
<1>5. at[StepEnd(r)] # NoCursor => Before(at[Begin(r)], at[StepEnd(r)])
  <2>1. at[Begin(r)].n \in Nat /\ at[StepBegin(r)].n \in Nat /\ at[StepEnd(r)].n \in Nat
    BY <1>0, KnownTypes
  <2> QED
    BY <2>1, <1>3 DEF Before
<1>6. /\ Known[End(r)] # NoCursor => Known[Begin(r)] = at[Begin(r)]
      /\ Known[End(r)] # NoCursor => Known[StepBegin(r)] = at[StepBegin(r)]
      /\ Known[End(r)] # NoCursor => Known[StepEnd(r)] = at[StepEnd(r)]
  BY <1>0, <1>1, <1>2, <1>4
<1>7. Known[StepBegin(r)] # NoCursor => Known[Begin(r)] = at[Begin(r)]
  BY <1>0, <1>1, <1>2, <1>3
<1>8. /\ Known[StepEnd(r)] # NoCursor => Known[StepBegin(r)] = at[StepBegin(r)]
      /\ Known[StepEnd(r)] # NoCursor => Known[Begin(r)] = at[Begin(r)]
  BY <1>0, <1>1, <1>2, <1>3, <1>5
<1> QED
  BY <1>6, <1>7, <1>8

\* A view that agrees with what is known agrees with what is recorded.
LEMMA KnownShows ==
    ASSUME TypeInv, OrderInv, NEW v \in Views, Shows(v, Known, missed)
    PROVE  Shows(v, at, missed)
<1>1. Known \in [Facts -> CursorSet] /\ at \in [Facts -> CursorSet]
  BY KnownTypes DEF TypeInv
<1>2. \A k \in Facts : Known[k] # NoCursor => at[k] = Known[k]
  BY KnownTypes
<1>3. \A r \in Runs : Known[End(r)] # NoCursor => at[Begin(r)] = Known[Begin(r)]
  BY KnownBefore
<1> QED
  BY <1>1, <1>2, <1>3, ShowsMore

(* _apply, when what is shown is right about what is known: the fact is    *)
(* added, and nothing is started over but a run that is left out.          *)
LEMMA AppliedFacts ==
    ASSUME NEW v \in Views, NEW c \in [Facts -> CursorSet], NEW m, NEW k \in Facts,
           Shows(v, c, m),
           k[1] # "run_begin" => c[k] # NoCursor,
           k[1] = "run_end" /\ k[2] \notin m /\ Begin(k[2]) \in DOMAIN v => v[Begin(k[2])] = c[Begin(k[2])]
    PROVE  /\ Applied(v, k, c[k]) \in Views
           /\ k \in DOMAIN Applied(v, k, c[k]) /\ Applied(v, k, c[k])[k] = c[k]
           /\ DOMAIN Applied(v, k, c[k]) \subseteq DOMAIN v \cup {k}
           /\ \A j \in DOMAIN v : j # k /\ (j[1] = "run_end" => j[2] \notin m) =>
                 j \in DOMAIN Applied(v, k, c[k]) /\ Applied(v, k, c[k])[j] = v[j]
           /\ Shows(Applied(v, k, c[k]), c, m)
<1> DEFINE w == Applied(v, k, c[k])
           over == /\ k \in DOMAIN v /\ k[1] \in {"run_begin", "step_begin"}
                   /\ c[k] # NoCursor /\ c[k] # v[k]
           D == {k} \cup (DOMAIN v \ (IF over THEN {EndOf(k)} ELSE {}))
<1>0. k[1] \in Kinds /\ k[2] \in Runs /\ k = <<k[1], k[2]>>
  BY FactsAre
<1>1. DOMAIN v \subseteq Facts /\ \A j \in DOMAIN v : v[j] \in CursorSet
  BY DEF Views
<1>2. c[k] \in CursorSet /\ c[k].e \in Nat /\ c[k].n \in Nat
  BY DEF CursorSet
<1>3. ~(k \in DOMAIN v /\ c[k].e = v[k].e /\ c[k].n < v[k].n)
  <2>1. k \in DOMAIN v => v[k] \in {NoCursor, c[k]}
    BY DEF Shows
  <2>2. NoCursor.n = 0
    BY DEF NoCursor, Cursor
  <2> QED
    BY <2>1, <2>2, <1>2
<1>4. w = [j \in D |-> IF j = k THEN c[k] ELSE v[j]]
  BY <1>3 DEF Applied
<1>5. DOMAIN w = D /\ k \in D /\ w[k] = c[k] /\ \A j \in D : j # k => j \in DOMAIN v /\ w[j] = v[j]
  BY <1>4
<1>6. ASSUME over PROVE k[1] = "run_begin" /\ EndOf(k) = End(k[2]) /\ v[k] = NoCursor
  <2>1. v[k] = NoCursor
    BY <1>6 DEF Shows
  <2>2. k[1] # "run_begin" => v[k] = c[k]
    BY <1>6 DEF Shows
  <2> QED
    BY <2>1, <2>2, <1>6 DEF EndOf, End
<1>7. ASSUME over, EndOf(k) \in DOMAIN v PROVE k[2] \in m
  <2>1. k = Begin(k[2])
    BY <1>0, <1>6, <1>7 DEF Begin
  <2>2. k[2] \notin m => v[k] = c[k]
    BY <2>1, <1>0, <1>6, <1>7 DEF Shows
  <2> QED
    BY <2>2, <1>7
<1>8. ASSUME NEW j \in DOMAIN v, j # k, j[1] = "run_end" => j[2] \notin m PROVE j \in D
  <2>1. over => j # EndOf(k)
    <3>1. End(k[2])[1] = "run_end" /\ End(k[2])[2] = k[2]
      BY DEF End
    <3> QED
      BY <3>1, <1>6, <1>7, <1>8
  <2> QED
    BY <2>1, <1>8
<1> HIDE DEF D, w, over
<1>9. D \subseteq DOMAIN v \cup {k}
  BY DEF D
<1>10. w \in Views
  <2>1. D \in SUBSET Facts
    BY <1>9, <1>1
  <2>2. w = [j \in D |-> w[j]]
    BY <1>4, <1>5
  <2>3. \A j \in D : w[j] \in CursorSet
    BY <1>5, <1>1, <1>2
  <2>4. w \in [D -> CursorSet]
    BY <2>2, <2>3
  <2> QED
    BY <2>1, <2>4 DEF Views
<1>11. Shows(w, c, m)
  <2>1. ASSUME NEW j \in DOMAIN w
        PROVE  /\ w[j] \in {NoCursor, c[j]}
               /\ j[1] # "run_begin" => c[j] # NoCursor /\ w[j] = c[j]
    <3>1. CASE j = k
      BY <3>1, <1>5
    <3>2. CASE j # k
      <4>1. j \in DOMAIN v /\ w[j] = v[j]
        BY <3>2, <1>5, <2>1
      <4> QED
        BY <4>1 DEF Shows
    <3> QED
      BY <3>1, <3>2
  <2>2. ASSUME NEW r \in Runs \ m, End(r) \in DOMAIN w, Begin(r) \in DOMAIN w
        PROVE  w[Begin(r)] = c[Begin(r)]
    <3>1. CASE k = Begin(r)
      BY <3>1, <1>5
    <3>2. CASE k # Begin(r)
      <4>1. Begin(r) \in DOMAIN v /\ w[Begin(r)] = v[Begin(r)]
        BY <3>2, <1>5, <2>2
      <4>2. CASE k = End(r)
        <5>1. k[1] = "run_end" /\ k[2] = r
          BY <4>2 DEF End
        <5> QED
          BY <5>1, <4>1, <2>2
      <4>3. CASE k # End(r)
        <5>1. End(r) \in DOMAIN v
          BY <4>3, <1>5, <2>2
        <5> QED
          BY <4>1, <5>1, <2>2 DEF Shows
      <4> QED
        BY <4>2, <4>3
    <3> QED
      BY <3>1, <3>2
  <2> QED
    BY <2>1, <2>2 DEF Shows
<1> QED
  BY <1>5, <1>8, <1>9, <1>10, <1>11 DEF w

(***************************************************************************)
(* The process goes on: what it publishes, and what the ring drops.        *)
(***************************************************************************)

Same == UNCHANGED <<epoch, link, reader, prefix, batch, mark, active, suppressed, client, missed, followed>>

\* What is recorded stays, and what is added comes after everything.
Later ==
    /\ at' \in [Facts -> CursorSet] /\ tail' \in Nat /\ tail <= tail' /\ accepted \subseteq accepted'
    /\ \A k \in Facts : \/ at'[k] = at[k]
                        \/ at[k] = NoCursor /\ at'[k] = Cursor(epoch, tail + 1) /\ k[2] \in alive
    /\ parts' \in [Runs -> Nat] /\ \A r \in Runs : parts[r] <= parts'[r]

\* What is published now is not yet known at the reader's position.
LEMMA LaterKnown ==
    ASSUME TypeInv, Same, Later, reader <= tail
    PROVE  /\ Known' = Known
           /\ \A k \in Facts : Known[k] # NoCursor => at'[k] = at[k]
<1> DEFINE new(k) == at[k] = NoCursor /\ at'[k] = Cursor(epoch, tail + 1)
<1>1. ASSUME NEW k \in Facts
      PROVE  /\ (IF at'[k].e = epoch /\ at'[k].n > reader THEN NoCursor ELSE at'[k])
                  = (IF at[k].e = epoch /\ at[k].n > reader THEN NoCursor ELSE at[k])
             /\ Known[k] # NoCursor => at'[k] = at[k]
  <2>1. CASE at'[k] = at[k]
    BY <2>1
  <2>2. CASE at[k] = NoCursor /\ at'[k] = Cursor(epoch, tail + 1)
    <3>1. at'[k].e = epoch /\ at'[k].n = tail + 1
      BY <2>2 DEF Cursor
    <3>2. tail + 1 > reader
      BY DEF TypeInv
    <3>3. Known[k] = NoCursor
      BY <2>2, KnownTypes
    <3> QED
      BY <3>1, <3>2, <3>3, <2>2
  <2> QED
    BY <2>1, <2>2 DEF Later
<1>2. Known' = [k \in Facts |-> IF at'[k].e = epoch /\ at'[k].n > reader THEN NoCursor ELSE at'[k]]
  BY DEF Known, Same
<1>3. Known = [k \in Facts |-> IF at[k].e = epoch /\ at[k].n > reader THEN NoCursor ELSE at[k]]
  BY DEF Known
<1> QED
  BY <1>1, <1>2, <1>3

\* What the connection holds depends on nothing else.
LEMMA SameConnection ==
    ASSUME Same, Known' = Known
    PROVE  /\ Told' = Told /\ Coming' = Coming /\ (Replacing <=> Replacing') /\ InBatch' = InBatch
           /\ Sources' = Sources /\ InScope' = InScope
           /\ PrefixInv => PrefixInv'
           /\ BatchInv => BatchInv'
<1> USE DEF Same, client
<1>1. Told' = Told /\ InBatch' = InBatch /\ Sources' = Sources /\ InScope' = InScope
  BY DEF Told, InBatch, Sources, InScope
<1>2. Replacing <=> Replacing'
  BY DEF Replacing
<1>3. Coming' = Coming
  BY DEF Coming, Replaced, Replacing
<1>4. BatchInv => BatchInv'
  BY <1>1 DEF BatchInv
<1>5. \A x : (ContextFits(x) => ContextFits(x)') /\ (SourceFits(x) => SourceFits(x)')
  BY <1>1 DEF ContextFits, SourceFits, Source, Cursor
<1>6. PrefixInv => PrefixInv'
  BY <1>1, <1>2, <1>3, <1>5 DEF PrefixInv, Checkpoint, Cursor
<1> QED
  BY <1>1, <1>2, <1>3, <1>4, <1>6

\* Of what is known, what is shown and what is still to be sent.
LEMMA SameReach ==
    ASSUME Inv, link = "open", Same, Later,
           \A r \in alive' \ alive : \A k \in Facts : k[2] = r => at'[k] = NoCursor,
           \A k \in Facts : at'[k] # at[k] => \A j \in Above(k) : j \in Facts /\ j[2] = k[2] /\ at[j] # NoCursor /\ j \in {Begin(k[2]), StepBegin(k[2])}
    PROVE  ReachInv'
<1>0. TypeInv /\ ReachInv /\ reader <= tail
  BY DEF Inv, OpenInv, LinkInv
<1>1. Known' = Known /\ \A k \in Facts : Known[k] # NoCursor => at'[k] = at[k]
  BY <1>0, LaterKnown
<1>2. /\ Told' = Told /\ Coming' = Coming /\ (Replacing <=> Replacing') /\ InBatch' = InBatch /\ InScope' = InScope
  BY <1>1, SameConnection
<1>3. Shows(view, Known, missed)' /\ Shows(Coming, Known, missed)'
  BY <1>0, <1>1, <1>2 DEF ReachInv, Shows, Same, client
<1>4. ASSUME NEW k \in Facts, k[2] \in InScope \ missed, Known[k] # NoCursor
      PROVE  Reaches(k)'
  <2>1. Reaches(k)
    BY <1>0, <1>4 DEF ReachInv
  <2>2. at'[k] = at[k] /\ prefix' = prefix
    BY <1>1, <1>4 DEF Same
  <2> QED
    BY <2>1, <2>2, <1>2 DEF Reaches, Key
<1>5. ASSUME NEW k \in Due2 PROVE k \in Due2'
  <2>1. k \in Ahead => k \in Ahead'
    <3>1. ASSUME k \in Ahead PROVE k \in Ahead'
      <4>1. k \in Facts /\ k[2] \in InScope /\ at[k].e = epoch /\ at[k].n > reader
        BY <3>1 DEF Ahead
      <4>2. at[k] # NoCursor
        BY <4>1, <1>0, KnownTypes DEF TypeInv
      <4>3. at'[k] = at[k]
        BY <4>1, <4>2 DEF Later
      <4> QED
        BY <4>1, <4>3, <1>2 DEF Ahead, Same
    <3> QED
      BY <3>1
  <2>2. prefix' = prefix
    BY DEF Same
  <2> QED
    BY <2>1, <2>2, <1>2 DEF Due2, Key
<1>6. ASSUME NEW k \in Facts, at'[k] # at[k], k[2] \in InScope PROVE k \in Due2'
  <2>1. at'[k] = Cursor(epoch, tail + 1)
    BY <1>6 DEF Later
  <2>2. at'[k].e = epoch /\ at'[k].n > reader
    BY <2>1, <1>0 DEF Cursor, TypeInv
  <2> QED
    BY <2>2, <1>2, <1>6 DEF Due2, Ahead, Same
<1>7. ASSUME NEW k \in Due2' PROVE k \in Due2 \/ (k \in Facts /\ at'[k] # at[k] /\ k[2] \in InScope)
  <2>1. prefix' = prefix /\ reader' = reader /\ epoch' = epoch
    BY DEF Same
  <2>2. k \in Ahead' => k \in Ahead \/ (k \in Facts /\ at'[k] # at[k] /\ k[2] \in InScope)
    BY <2>1, <1>2 DEF Ahead
  <2> QED
    BY <2>1, <2>2, <1>2 DEF Due2, Key
<1>8. ASSUME NEW k \in Facts, at'[k] # at[k] PROVE k[2] \in alive
  BY <1>8 DEF Later
<1>9. ASSUME NEW k \in Due2' PROVE Above(k) \subseteq Due2'
  <2>1. CASE k \in Due2
    <3>1. Above(k) \subseteq Due2
      BY <2>1, <1>0 DEF ReachInv
    <3> QED
      BY <3>1, <1>5
  <2>2. CASE k \in Facts /\ at'[k] # at[k] /\ k[2] \in InScope
    <3>1. ASSUME NEW j \in Above(k) PROVE j \in Due2
      <4>1. j \in {Begin(k[2]), StepBegin(k[2])} /\ at[j] # NoCursor
        BY <2>2
      <4>2. k[2] \in alive \cap InScope
        BY <2>2, <1>8
      <4> QED
        BY <4>1, <4>2, <1>0 DEF ReachInv
    <3> QED
      BY <3>1, <1>5
  <2> QED
    BY <2>1, <2>2, <1>7
<1>10. ASSUME NEW r \in alive' \cap InScope, NEW k \in {Begin(r), StepBegin(r)}, at'[k] # NoCursor PROVE k \in Due2'
  <2>0. r \in Runs
    BY <1>0, <1>10 DEF InScope, TypeInv
  <2>1. k \in Facts /\ k[2] = r
    BY <2>0, FactsOf
  <2>2. CASE at'[k] # at[k]
    BY <2>1, <2>2, <1>6
  <2>3. CASE at'[k] = at[k] /\ r \in alive
    <3>1. k \in Due2
      BY <2>3, <1>10, <1>0 DEF ReachInv
    <3> QED
      BY <3>1, <1>5
  <2>4. CASE r \notin alive
    BY <2>1, <2>4, <1>10
  <2> QED
    BY <2>2, <2>3, <2>4
<1>11. followed' # Agent /\ followed' \notin active' => Known'[End(followed')] # NoCursor
  BY <1>0, <1>1 DEF ReachInv, Same
<1>12. missed' = missed
  BY DEF Same
<1> QED
  BY <1>1, <1>2, <1>3, <1>4, <1>9, <1>10, <1>11, <1>12 DEF ReachInv

\* A fact is published.
FactStep(k) ==
    /\ k \in Facts /\ k[2] \in alive /\ at[k] = NoCursor
    /\ k[1] = "step_begin" => at[Begin(k[2])] # NoCursor
    /\ k[1] = "step_end" => at[StepBegin(k[2])] # NoCursor
    /\ k[1] = "run_end" => (at[StepBegin(k[2])] # NoCursor => at[StepEnd(k[2])] # NoCursor)
    /\ tail' = tail + 1
    /\ ring' = ring \cup {Frame(tail + 1, k[1], k[2], 0)}
    /\ at' = [at EXCEPT ![k] = Cursor(epoch, tail + 1)]
    /\ alive' = IF k[1] = "run_end" THEN alive \ {k[2]} ELSE alive
    /\ UNCHANGED <<epoch, floor, accepted, parts, server, client, missed, followed>>

(* The four actions that publish a fact are one step of a fact that had    *)
(* not happened.                                                           *)
LEMMA FactStepIs ==
    ASSUME Inv, NEW r \in Runs, BeginRun(r) \/ BeginStep(r) \/ FinishStep(r) \/ FinishRun(r)
    PROVE  \E k \in Facts : FactStep(k)
<1> USE DEF Begin, StepBegin, StepEnd, End
<1>0. TypeInv /\ RecordsInv /\ OrderInv
  BY DEF Inv
<1>f. /\ Begin(r) \in Facts /\ StepBegin(r) \in Facts /\ StepEnd(r) \in Facts /\ End(r) \in Facts
  BY FactsOf
<1>1. CASE BeginRun(r)
  <2>1. at[Begin(r)] = NoCursor
    BY <1>1 DEF BeginRun, Happened
  <2>2. FactStep(Begin(r))
    BY <2>1, <1>1, <1>f DEF BeginRun, Publish, FactStep
  <2> QED
    BY <2>2, <1>f
<1>2. CASE BeginStep(r)
  <2>1. at[StepBegin(r)] = NoCursor /\ at[Begin(r)] # NoCursor
    BY <1>2 DEF BeginStep, Happened
  <2>2. FactStep(StepBegin(r))
    BY <2>1, <1>2, <1>f DEF BeginStep, Publish, FactStep
  <2> QED
    BY <2>2, <1>f
<1>3. CASE FinishStep(r)
  <2>1. at[StepEnd(r)] = NoCursor /\ at[StepBegin(r)] # NoCursor
    BY <1>3 DEF FinishStep, OpenSteps, Happened
  <2>2. FactStep(StepEnd(r))
    BY <2>1, <1>3, <1>f DEF FinishStep, Publish, FactStep
  <2> QED
    BY <2>2, <1>f
<1>4. CASE FinishRun(r)
  <2>0. r \in alive /\ r \in accepted /\ r \notin OpenSteps
    BY <1>0, <1>4 DEF FinishRun, Publish, TypeInv
  <2>1. at[StepBegin(r)] # NoCursor => at[StepEnd(r)] # NoCursor
    BY <2>0 DEF OpenSteps, Happened
  <2>3. at[End(r)] = NoCursor
    <3>1. End(r)[1] = "run_end" /\ End(r)[2] = r
      OBVIOUS
    <3> QED
      BY <3>1, <2>0, <1>0, <1>f DEF RecordsInv
  <2>2. FactStep(End(r))
    BY <2>1, <2>3, <1>4, <1>f DEF FinishRun, Publish, FactStep
  <2> QED
    BY <2>2, <1>f
<1> QED
  BY <1>1, <1>2, <1>3, <1>4

\* The fields of a frame.
LEMMA FrameIs ==
    ASSUME NEW n \in Nat, NEW what \in Kinds \cup {"part"}, NEW r \in Runs, NEW p \in Nat
    PROVE  /\ Frame(n, what, r, p) \in FrameSet /\ Frame(n, what, r, p).n = n
           /\ Frame(n, what, r, p).what = what /\ Frame(n, what, r, p).of = r /\ Frame(n, what, r, p).part = p
  BY DEF Frame, FrameSet

\* A published fact comes after everything that is recorded.
LEMMA FactStepLater ==
    ASSUME Inv, NEW k \in Facts, FactStep(k)
    PROVE  /\ Later /\ Same
           /\ at'[k] = Cursor(epoch, tail + 1) /\ at'[k] # NoCursor
           /\ at'[k].e = epoch /\ at'[k].n = tail + 1
           /\ \A j \in Facts : j # k => at'[j] = at[j]
<1>1. at \in [Facts -> CursorSet] /\ epoch \in Nat /\ tail \in Nat /\ parts \in [Runs -> Nat]
  BY DEF Inv, TypeInv
<1>2. Cursor(epoch, tail + 1) \in CursorSet /\ Cursor(epoch, tail + 1) # NoCursor
      /\ Cursor(epoch, tail + 1).e = epoch /\ Cursor(epoch, tail + 1).n = tail + 1
  BY <1>1 DEF Cursor, NoCursor, CursorSet
<1>3. at' \in [Facts -> CursorSet] /\ at'[k] = Cursor(epoch, tail + 1) /\ \A j \in Facts : j # k => at'[j] = at[j]
  BY <1>1, <1>2 DEF FactStep
<1>4. Same
  BY DEF FactStep, Same, server, client
<1>5. Later
  BY <1>1, <1>2, <1>3 DEF FactStep, Later
<1> QED
  BY <1>2, <1>3, <1>4, <1>5

\* A published fact keeps the types.
LEMMA FactStepTypes ==
    ASSUME Inv, NEW k \in Facts, FactStep(k)
    PROVE  TypeInv'
<1>1. k[1] \in Kinds /\ k[2] \in Runs
  BY FactsAre
<1>2. TypeInv
  BY DEF Inv
<1>3. Frame(tail + 1, k[1], k[2], 0) \in FrameSet
  BY <1>1, <1>2, FrameIs DEF TypeInv
<1>4. at' \in [Facts -> CursorSet]
  BY FactStepLater DEF Later
<1> QED
  BY <1>1, <1>2, <1>3, <1>4 DEF FactStep, TypeInv, server, client

\* A published fact keeps the records in order.
LEMMA FactStepRecords ==
    ASSUME Inv, NEW k \in Facts, FactStep(k)
    PROVE  RecordsInv' /\ OrderInv'
<1>0. TypeInv /\ RecordsInv /\ OrderInv
  BY DEF Inv
<1>1. /\ at'[k].e = epoch /\ at'[k].n = tail + 1 /\ at'[k] # NoCursor
      /\ \A j \in Facts : j # k => at'[j] = at[j]
  BY FactStepLater
<1>2. epoch \in Nat /\ tail \in Nat /\ floor \in Nat /\ epoch >= 1 /\ floor <= tail /\ alive \subseteq accepted
  BY <1>0 DEF TypeInv, RecordsInv
<1>3. /\ tail' = tail + 1 /\ epoch' = epoch /\ floor' = floor /\ accepted' = accepted /\ parts' = parts
      /\ alive' = IF k[1] = "run_end" THEN alive \ {k[2]} ELSE alive
      /\ k[2] \in alive /\ at[k] = NoCursor
  BY DEF FactStep
<1>4. \A j \in Facts : at[j].e \in Nat /\ at[j].n \in Nat
  BY <1>0, KnownTypes
<1>5. ASSUME NEW j \in Facts, at'[j] # NoCursor
      PROVE  /\ at'[j].e \in 1 .. epoch /\ at'[j].n >= 1
             /\ at'[j].e = epoch => at'[j].n <= tail'
             /\ j[2] \in accepted
             /\ j[2] \in alive' => at'[j].e = epoch /\ j[1] # "run_end"
             /\ \A i \in Facts : at'[i] = at'[j] => i = j
  <2>1. CASE j = k
    <3>1. \A i \in Facts : at'[i] = at'[j] => i = j
      <4> SUFFICES ASSUME NEW i \in Facts, i # j PROVE at'[i] # at'[j]
        OBVIOUS
      <4>1. at'[i] = at[i]
        BY <2>1, <1>1
      <4>2. at[i] = NoCursor \/ (at[i].e = epoch => at[i].n <= tail)
        BY <1>0 DEF RecordsInv
      <4>3. at[i].n \in Nat
        BY <1>4
      <4> QED
        BY <4>1, <4>2, <4>3, <2>1, <1>1, <1>2
    <3> QED
      BY <3>1, <2>1, <1>1, <1>2, <1>3
  <2>2. CASE j # k
    <3>1. at'[j] = at[j]
      BY <2>2, <1>1
    <3>2. /\ at[j].e \in 1 .. epoch /\ at[j].n >= 1
          /\ at[j].e = epoch => at[j].n <= tail
          /\ j[2] \in accepted
          /\ j[2] \in alive => at[j].e = epoch /\ j[1] # "run_end"
          /\ \A i \in Facts : at[i] = at[j] => i = j
      BY <3>1, <1>5, <1>0 DEF RecordsInv
    <3>3. \A i \in Facts : at'[i] = at'[j] => i = j
      <4> SUFFICES ASSUME NEW i \in Facts, at'[i] = at'[j] PROVE i = j
        OBVIOUS
      <4>1. CASE i = k
        BY <4>1, <3>1, <3>2, <1>1, <1>2, <1>4
      <4>2. CASE i # k
        BY <4>2, <3>1, <3>2, <1>1
      <4> QED
        BY <4>1, <4>2
    <3>4. at[j].n <= tail => at[j].n <= tail'
      BY <1>2, <1>3, <1>4
    <3> QED
      BY <3>1, <3>2, <3>3, <3>4, <1>3
  <2> QED
    BY <2>1, <2>2
<1>6. ASSUME NEW r \in Runs, parts'[r] # 0 PROVE at'[StepBegin(r)] # NoCursor
  <2>1. at[StepBegin(r)] # NoCursor
    BY <1>6, <1>3, <1>0 DEF RecordsInv
  <2> QED
    BY <2>1, <1>1, FactsOf
<1>7. RecordsInv'
  BY <1>2, <1>3, <1>5, <1>6 DEF RecordsInv
<1>8. ASSUME NEW r \in Runs
      PROVE  /\ at'[StepBegin(r)] # NoCursor =>
                   at'[Begin(r)] # NoCursor /\ Before(at'[Begin(r)], at'[StepBegin(r)])
             /\ at'[StepEnd(r)] # NoCursor =>
                   at'[StepBegin(r)] # NoCursor /\ Before(at'[StepBegin(r)], at'[StepEnd(r)])
             /\ at'[End(r)] # NoCursor =>
                   /\ at'[StepBegin(r)] # NoCursor => at'[StepEnd(r)] # NoCursor
                   /\ \A what \in Kinds \ {"run_end"} :
                        at'[<<what, r>>] # NoCursor => Before(at'[<<what, r>>], at'[End(r)])
  <2>0. /\ Begin(r) \in Facts /\ StepBegin(r) \in Facts /\ StepEnd(r) \in Facts /\ End(r) \in Facts
        /\ Begin(r) # StepBegin(r) /\ Begin(r) # StepEnd(r) /\ Begin(r) # End(r)
        /\ StepBegin(r) # StepEnd(r) /\ StepBegin(r) # End(r) /\ StepEnd(r) # End(r)
    BY FactsOf
  <2>1. \A j \in Facts : j # k /\ j[2] = k[2] /\ at[j] # NoCursor => Before(at'[j], at'[k])
    <3> SUFFICES ASSUME NEW j \in Facts, j # k, j[2] = k[2], at[j] # NoCursor PROVE Before(at'[j], at'[k])
      OBVIOUS
    <3>1. at'[j] = at[j] /\ at[j].e = epoch /\ at[j].n <= tail
      BY <1>0, <1>1, <1>3 DEF RecordsInv
    <3> QED
      BY <3>1, <1>1, <1>2, <1>4 DEF Before
  <2>2. /\ at[StepBegin(r)] # NoCursor =>
              at[Begin(r)] # NoCursor /\ Before(at[Begin(r)], at[StepBegin(r)])
        /\ at[StepEnd(r)] # NoCursor =>
              at[StepBegin(r)] # NoCursor /\ Before(at[StepBegin(r)], at[StepEnd(r)])
    BY <1>0 DEF OrderInv
  <2>3. at[End(r)] # NoCursor =>
           /\ at[StepBegin(r)] # NoCursor => at[StepEnd(r)] # NoCursor
           /\ \A what \in Kinds \ {"run_end"} :
                at[<<what, r>>] # NoCursor => Before(at[<<what, r>>], at[End(r)])
    BY <1>0 DEF OrderInv
  <2>4. at[End(r)] # NoCursor => r \notin alive
    BY <2>0, <1>0, FactsOf DEF RecordsInv
  <2>5. ASSUME at'[StepBegin(r)] # NoCursor
        PROVE  at'[Begin(r)] # NoCursor /\ Before(at'[Begin(r)], at'[StepBegin(r)])
    <3>1. CASE k = StepBegin(r)
      <4>1. at[Begin(r)] # NoCursor
        BY <3>1, FactsOf DEF FactStep
      <4> QED
        BY <4>1, <3>1, <2>0, <2>1, <1>1, FactsOf
    <3>2. CASE k # StepBegin(r)
      <4>1. at[StepBegin(r)] # NoCursor /\ at'[StepBegin(r)] = at[StepBegin(r)]
        BY <3>2, <2>0, <2>5, <1>1
      <4>2. at[Begin(r)] # NoCursor
        BY <4>1, <2>2
      <4>3. at'[Begin(r)] = at[Begin(r)]
        BY <4>2, <2>0, <1>1, <1>3
      <4> QED
        BY <4>1, <4>2, <4>3, <2>2
    <3> QED
      BY <3>1, <3>2
  <2>6. ASSUME at'[StepEnd(r)] # NoCursor
        PROVE  at'[StepBegin(r)] # NoCursor /\ Before(at'[StepBegin(r)], at'[StepEnd(r)])
    <3>1. CASE k = StepEnd(r)
      <4>1. at[StepBegin(r)] # NoCursor
        BY <3>1, FactsOf DEF FactStep
      <4> QED
        BY <4>1, <3>1, <2>0, <2>1, <1>1, FactsOf
    <3>2. CASE k # StepEnd(r)
      <4>1. at[StepEnd(r)] # NoCursor /\ at'[StepEnd(r)] = at[StepEnd(r)]
        BY <3>2, <2>0, <2>6, <1>1
      <4>2. at[StepBegin(r)] # NoCursor
        BY <4>1, <2>2
      <4>3. at'[StepBegin(r)] = at[StepBegin(r)]
        BY <4>2, <2>0, <1>1, <1>3
      <4> QED
        BY <4>1, <4>2, <4>3, <2>2
    <3> QED
      BY <3>1, <3>2
  <2>7. ASSUME at'[End(r)] # NoCursor
        PROVE  /\ at'[StepBegin(r)] # NoCursor => at'[StepEnd(r)] # NoCursor
               /\ \A what \in Kinds \ {"run_end"} :
                    at'[<<what, r>>] # NoCursor => Before(at'[<<what, r>>], at'[End(r)])
    <3>0. ASSUME NEW what \in Kinds \ {"run_end"}
          PROVE  <<what, r>> \in Facts /\ <<what, r>>[2] = r /\ <<what, r>> # End(r)
      BY DEF Facts, Kinds, End
    <3>1. CASE k = End(r)
      <4>1. at[StepBegin(r)] # NoCursor => at[StepEnd(r)] # NoCursor
        BY <3>1, FactsOf DEF FactStep
      <4>2. at'[StepBegin(r)] = at[StepBegin(r)] /\ at'[StepEnd(r)] = at[StepEnd(r)]
        BY <3>1, <2>0, <1>1
      <4>3. ASSUME NEW what \in Kinds \ {"run_end"}, at'[<<what, r>>] # NoCursor
            PROVE  Before(at'[<<what, r>>], at'[End(r)])
        <5>1. at[<<what, r>>] # NoCursor
          BY <3>0, <3>1, <4>3, <1>1
        <5>2. k[2] = r
          BY <3>1, FactsOf
        <5> QED
          BY <5>1, <5>2, <3>0, <3>1, <2>1
      <4> QED
        BY <4>1, <4>2, <4>3
    <3>2. CASE k # End(r)
      <4>1. at[End(r)] # NoCursor /\ at'[End(r)] = at[End(r)]
        BY <3>2, <2>0, <2>7, <1>1
      <4>2. k[2] # r
        BY <4>1, <2>4, <1>3
      <4>3. \A what \in Kinds \ {"run_end"} : at'[<<what, r>>] = at[<<what, r>>]
        BY <4>2, <3>0, <1>1
      <4>4. at'[StepBegin(r)] = at[StepBegin(r)] /\ at'[StepEnd(r)] = at[StepEnd(r)]
        BY <4>2, <2>0, <1>1, FactsOf
      <4> QED
        BY <4>1, <4>3, <4>4, <2>3
    <3> QED
      BY <3>1, <3>2
  <2> QED
    BY <2>5, <2>6, <2>7
<1>9. OrderInv'
  BY <1>8 DEF OrderInv
<1> QED
  BY <1>7, <1>9

\* The types of the frames on the way.
LEMMA FramesTypes ==
    ASSUME TypeInv
    PROVE  /\ Frames \subseteq FrameSet /\ Sources \subseteq FrameSet /\ InBatch \subseteq FrameSet
           /\ \A f \in FrameSet : f.n \in Nat /\ f.what \in Kinds \cup {"part"} /\ f.of \in Runs /\ f.part \in Nat
<1>1. ASSUME NEW i \in DOMAIN prefix, prefix[i].type = "source" PROVE prefix[i].frame \in FrameSet
  <2>1. prefix[i] \in ItemSet
    BY ElementOfSeq, LenProperties DEF TypeInv
  <2> QED
    BY <2>1, <1>1 DEF ItemSet, ContextSet, SourceSet
<1>2. Sources \subseteq FrameSet
  BY <1>1 DEF Sources
<1>3. InBatch \subseteq FrameSet
  BY ElementOfSeq, LenProperties DEF TypeInv, InBatch
<1>4. \A f \in FrameSet : f.n \in Nat /\ f.what \in Kinds \cup {"part"} /\ f.of \in Runs /\ f.part \in Nat
  BY DEF FrameSet
<1> QED
  BY <1>2, <1>3, <1>4 DEF Frames, TypeInv

\* A frame that fits is of a run that is known.
LEMMA FitsIs ==
    ASSUME TypeInv, RecordsInv, OrderInv, NEW f \in FrameSet, FrameFits(f)
    PROVE  /\ f.what # "part" => /\ <<f.what, f.of>> \in Facts /\ at[<<f.what, f.of>>].e = epoch
                                 /\ at[<<f.what, f.of>>].n = f.n /\ at[<<f.what, f.of>>] # NoCursor
           /\ f.what = "part" => /\ at[StepBegin(f.of)] # NoCursor /\ at[StepBegin(f.of)].e = epoch
                                 /\ at[StepBegin(f.of)].n < f.n
                                 /\ at[StepEnd(f.of)] # NoCursor =>
                                       at[StepEnd(f.of)].e = epoch /\ f.n < at[StepEnd(f.of)].n
<1>1. epoch >= 1 /\ epoch \in Nat
  BY DEF TypeInv, RecordsInv
<1>2. f.n \in Nat /\ f.what \in Kinds \cup {"part"} /\ f.of \in Runs
  BY DEF FrameSet
<1>3. Cursor(epoch, f.n).e = epoch /\ Cursor(epoch, f.n).n = f.n /\ Cursor(epoch, f.n) # NoCursor /\ NoCursor.e = 0
  BY <1>1 DEF Cursor, NoCursor
<1>4. CASE f.what # "part"
  BY <1>2, <1>3, <1>4 DEF FrameFits, Facts, Kinds
<1>5. CASE f.what = "part"
  <2>1. Before(at[StepBegin(f.of)], Cursor(epoch, f.n))
        /\ (at[StepEnd(f.of)] # NoCursor => Before(Cursor(epoch, f.n), at[StepEnd(f.of)]))
    BY <1>5 DEF FrameFits
  <2> QED
    BY <2>1, <1>1, <1>3, <1>5 DEF Before
<1> QED
  BY <1>4, <1>5

\* A published fact keeps the ring complete above its floor.
LEMMA FactStepFrames ==
    ASSUME Inv, NEW k \in Facts, FactStep(k)
    PROVE  FramesInv'
<1>0. TypeInv /\ RecordsInv /\ OrderInv /\ FramesInv
  BY DEF Inv
<1>1. /\ at'[k] = Cursor(epoch, tail + 1) /\ at'[k].e = epoch /\ at'[k].n = tail + 1 /\ at'[k] # NoCursor
      /\ \A j \in Facts : j # k => at'[j] = at[j]
  BY FactStepLater
<1>2. epoch \in Nat /\ tail \in Nat /\ floor \in Nat /\ epoch >= 1 /\ floor <= tail /\ alive \subseteq accepted
      /\ accepted \subseteq Runs /\ IsFiniteSet(ring)
  BY <1>0 DEF TypeInv, RecordsInv, FramesInv
<1>3. /\ tail' = tail + 1 /\ epoch' = epoch /\ floor' = floor /\ accepted' = accepted /\ parts' = parts
      /\ k[2] \in alive /\ at[k] = NoCursor /\ ring' = ring \cup {Frame(tail + 1, k[1], k[2], 0)}
      /\ prefix' = prefix /\ batch' = batch
  BY DEF FactStep, server
<1>4. k[1] \in Kinds /\ k[2] \in Runs /\ k = <<k[1], k[2]>> /\ k[1] # "part"
  BY FactsAre DEF Kinds
<1>5. PICK new \in FrameSet :
         /\ new = Frame(tail + 1, k[1], k[2], 0)
         /\ new.n = tail + 1 /\ new.what = k[1] /\ new.of = k[2] /\ new.part = 0
  BY <1>2, <1>4, FrameIs
<1>6. Frames' = Frames \cup {new}
  BY <1>3, <1>5 DEF Frames, Sources, InBatch
<1>7. Frames \subseteq FrameSet /\ \A f \in FrameSet : f.n \in Nat /\ f.what \in Kinds \cup {"part"} /\ f.of \in Runs /\ f.part \in Nat
  BY <1>0, FramesTypes
<1>8. ASSUME NEW f \in Frames PROVE FrameFits(f)' /\ f.n < tail + 1
  <2>1. FrameFits(f) /\ f \in FrameSet
    BY <1>0, <1>7 DEF FramesInv
  <2>2. f.n \in 1 .. tail /\ f.of \in accepted
    BY <2>1 DEF FrameFits
  <2>3. CASE f.what # "part"
    <3>1. <<f.what, f.of>> \in Facts /\ at[<<f.what, f.of>>] # NoCursor
      BY <2>1, <2>3, <1>0, FitsIs
    <3>2. at'[<<f.what, f.of>>] = at[<<f.what, f.of>>]
      BY <3>1, <1>1, <1>3
    <3> QED
      BY <3>2, <2>1, <2>2, <2>3, <1>2, <1>3 DEF FrameFits
  <2>4. CASE f.what = "part"
    <3>1. f.of \in Runs /\ StepBegin(f.of) \in Facts /\ StepEnd(f.of) \in Facts
      BY <2>1, <1>7, FactsOf
    <3>2. at'[StepBegin(f.of)] = at[StepBegin(f.of)]
      BY <3>1, <2>1, <2>4, <1>0, <1>1, <1>3, FitsIs
    <3>3. at'[StepEnd(f.of)] # NoCursor => Before(Cursor(epoch, f.n), at'[StepEnd(f.of)])
      <4>1. CASE k = StepEnd(f.of)
        BY <4>1, <1>1, <2>2, <1>2 DEF Before, Cursor
      <4>2. CASE k # StepEnd(f.of)
        BY <4>2, <3>1, <1>1, <2>1, <2>4 DEF FrameFits
      <4> QED
        BY <4>1, <4>2
    <3> QED
      BY <3>2, <3>3, <2>1, <2>2, <2>4, <1>2, <1>3 DEF FrameFits
  <2> QED
    BY <2>2, <2>3, <2>4, <1>2
<1>9. FrameFits(new)'
  BY <1>1, <1>2, <1>3, <1>4, <1>5 DEF FrameFits
<1>10. ASSUME NEW f \in Frames', NEW g \in Frames'
       PROVE  /\ f.n = g.n => f = g
              /\ f.what = "part" /\ g.what = "part" /\ f.of = g.of /\ f.part <= g.part => f.n <= g.n
  <2>1. CASE f \in Frames /\ g \in Frames
    BY <2>1, <1>0 DEF FramesInv
  <2>2. CASE f = new /\ g \in Frames
    BY <2>2, <1>4, <1>5, <1>7, <1>8
  <2>3. CASE f \in Frames /\ g = new
    BY <2>3, <1>4, <1>5, <1>7, <1>8
  <2>4. CASE f = new /\ g = new
    BY <2>4, <1>5, <1>4
  <2> QED
    BY <2>1, <2>2, <2>3, <2>4, <1>6
<1>11. ASSUME NEW j \in Facts, at'[j].e = epoch, at'[j].n > floor
       PROVE  Frame(at'[j].n, j[1], j[2], 0) \in ring'
  <2>1. CASE j = k
    BY <2>1, <1>1, <1>3, <1>5
  <2>2. CASE j # k
    BY <2>2, <1>0, <1>1, <1>3, <1>11 DEF FramesInv
  <2> QED
    BY <2>1, <2>2
<1>12. ASSUME NEW r \in OpenSteps', at'[StepBegin(r)].e = epoch, at'[StepBegin(r)].n > floor, NEW p \in 1 .. parts[r]
       PROVE  \E f \in ring' : f.what = "part" /\ f.of = r /\ f.part = p
  <2>1. r \in accepted /\ r \in Runs /\ at'[StepBegin(r)] # NoCursor /\ at'[StepEnd(r)] = NoCursor
    BY <1>2, <1>3, <1>12 DEF OpenSteps, Happened, StepBegin, StepEnd
  <2>2. StepBegin(r) \in Facts /\ StepEnd(r) \in Facts
    BY <2>1, FactsOf
  <2>3. parts[r] # 0
    BY <2>1, <1>0, <1>12 DEF TypeInv
  <2>4. at[StepBegin(r)] # NoCursor
    BY <2>1, <2>3, <1>0 DEF RecordsInv
  <2>5. at'[StepBegin(r)] = at[StepBegin(r)] /\ at[StepEnd(r)] = NoCursor
    BY <2>1, <2>2, <2>4, <1>1, <1>3
  <2>6. r \in OpenSteps
    BY <2>1, <2>4, <2>5 DEF OpenSteps, Happened, StepBegin, StepEnd
  <2>7. \E f \in ring : f.what = "part" /\ f.of = r /\ f.part = p
    BY <2>5, <2>6, <1>0, <1>12 DEF FramesInv
  <2> QED
    BY <2>7, <1>3
<1>13. IsFiniteSet(ring') /\ \A f \in ring' : floor' < f.n
  <2>1. IsFiniteSet(ring')
    BY <1>2, <1>3, FS_AddElement
  <2>2. floor' < new.n
    BY <1>2, <1>3, <1>5
  <2> QED
    BY <2>1, <2>2, <1>0, <1>3, <1>5 DEF FramesInv
<1>14. \A f \in Frames' : FrameFits(f)'
  BY <1>6, <1>8, <1>9
<1> QED
  BY <1>3, <1>10, <1>11, <1>12, <1>13, <1>14 DEF FramesInv

\* What is published does not disturb the client.
LEMMA LaterView ==
    ASSUME Inv, Same, Later,
           \A k \in Facts : at'[k] # at[k] => k[2] \in alive,
           missed \subseteq Ended'
    PROVE  ViewInv' /\ LinkInv'
<1>0. TypeInv /\ RecordsInv /\ OrderInv /\ ViewInv /\ LinkInv
  BY DEF Inv
<1>1. epoch \in Nat /\ tail \in Nat /\ tail' \in Nat /\ tail <= tail' /\ at \in [Facts -> CursorSet]
      /\ at' \in [Facts -> CursorSet] /\ reader \in Nat /\ view \in Views
  BY <1>0 DEF TypeInv, Later
<1>2. \A k \in Facts : at[k] # NoCursor => at'[k] = at[k]
  BY DEF Later
<1>3. \A r \in Runs : at[End(r)] # NoCursor => at'[Begin(r)] = at[Begin(r)]
  <2> SUFFICES ASSUME NEW r \in Runs, at[End(r)] # NoCursor PROVE at'[Begin(r)] = at[Begin(r)]
    OBVIOUS
  <2>1. r \notin alive
    BY <1>0, FactsOf DEF RecordsInv
  <2> QED
    BY <2>1, FactsOf DEF Later
<1>4. Shows(view, at', missed)
  BY <1>0, <1>1, <1>2, <1>3, ShowsMore DEF ViewInv
<1>5. Shows(view, at, missed)'
  BY <1>4 DEF Shows, Same, client
<1>6. CursorIsReflected'
  <2> SUFFICES ASSUME NEW k \in Facts, k[2] \in InScope \ missed, Passed(at[k])'
               PROVE  k \in DOMAIN view /\ view[k] = at'[k]
    BY DEF CursorIsReflected, InScope, Same, client
  <2>1. CASE at'[k] = at[k]
    <3>1. Passed(at[k])
      BY <2>1 DEF Passed, Same, client
    <3> QED
      BY <2>1, <3>1, <1>0 DEF ViewInv, CursorIsReflected
  <2>2. CASE at[k] = NoCursor /\ at'[k] = Cursor(epoch, tail + 1)
    <3>1. at'[k].e = epoch /\ at'[k].n = tail + 1
      BY <2>2 DEF Cursor
    <3>2. epoch < cursor.e \/ (epoch = cursor.e /\ tail + 1 <= cursor.n)
      BY <3>1 DEF Passed, Same, client
    <3>3. cursor.e <= epoch /\ (cursor.e = epoch => cursor.n <= tail) /\ cursor.e \in Nat /\ cursor.n \in Nat
      <4>1. cursor \in CursorSet
        BY <1>0 DEF TypeInv
      <4>2. cursor # NoCursor => cursor.e \in 1 .. epoch
        BY <1>0 DEF ViewInv
      <4> QED
        BY <4>1, <4>2, <1>0, <1>1, KnownTypes DEF ViewInv, CursorSet
    <3> QED
      BY <3>2, <3>3, <1>1
  <2> QED
    BY <2>1, <2>2 DEF Later
<1>7. ViewIsNested'
  BY <1>0 DEF ViewInv, ViewIsNested, Same, client
<1>8. ASSUME NEW r \in Runs PROVE heard'[r] <= parts'[r]
  <2>1. heard[r] <= parts[r] /\ parts[r] <= parts'[r] /\ heard' = heard
    BY <1>0 DEF ViewInv, Later, Same, client
  <2>2. heard[r] \in Nat /\ parts[r] \in Nat
    BY <1>0 DEF TypeInv
  <2>3. parts'[r] \in Int
    BY DEF Later
  <2> QED
    BY <2>1, <2>2, <2>3
<1>9. cursor'.e = epoch' => cursor'.n <= tail'
  BY <1>0, <1>1 DEF ViewInv, Same, client, TypeInv, CursorSet
<1>10. ViewInv'
  BY <1>0, <1>5, <1>6, <1>7, <1>8, <1>9 DEF ViewInv, Same, client
<1>11. LinkInv'
  BY <1>0, <1>1 DEF LinkInv, EndIsComplete, Same, client
<1> QED
  BY <1>10, <1>11

\* A published fact keeps the parts that are still to come complete.
LEMMA FactStepParts ==
    ASSUME Inv, NEW k \in Facts, FactStep(k), link = "open"
    PROVE  PartsInv'
<1>0. TypeInv /\ RecordsInv /\ PartsInv /\ reader <= tail /\ Same /\ Later
  BY FactStepLater DEF Inv, OpenInv, LinkInv
<1>1. Known' = Known /\ InBatch' = InBatch /\ Sources' = Sources /\ InScope' = InScope
  BY <1>0, LaterKnown, SameConnection
<1>2. /\ ring' = ring \cup {Frame(tail + 1, k[1], k[2], 0)} /\ accepted' = accepted /\ parts' = parts
      /\ suppressed' = suppressed /\ heard' = heard /\ lost' = lost /\ reader' = reader /\ at[k] = NoCursor
  BY DEF FactStep, server, client
<1>3. k[1] \in Kinds /\ k[2] \in Runs /\ tail \in Nat /\ reader \in Nat /\ k[1] # "part"
  BY <1>0, FactsAre DEF TypeInv, Kinds
<1>4. Frame(tail + 1, k[1], k[2], 0).what # "part" /\ Frame(tail + 1, k[1], k[2], 0).n = tail + 1
  BY <1>3, FrameIs
<1>5. \A f : f \in Unread' <=> f \in Unread \/ f = Frame(tail + 1, k[1], k[2], 0)
  <2>1. Frame(tail + 1, k[1], k[2], 0).n > reader
    BY <1>0, <1>3, <1>4
  <2> QED
    BY <1>2, <2>1 DEF Unread
<1>6. \A r \in Runs : Awaited(r)' = Awaited(r)
  BY <1>1, <1>4, <1>5 DEF Awaited
<1>7. \A f \in InBatch' : TRUE
  OBVIOUS
<1>8. ASSUME NEW r \in suppressed'
      PROVE  Known'[StepBegin(r)] # NoCursor /\ \A f \in InBatch' : <<f.what, f.of>> # StepBegin(r)
  BY <1>0, <1>1, <1>2, <1>8 DEF PartsInv
<1>9. ASSUME ~lost', NEW r \in InScope' \ suppressed'
      PROVE  /\ \A f \in Awaited(r)' : f.part > heard'[r]
             /\ r \in OpenSteps' \/ Awaited(r)' # {} =>
                  \A p \in heard'[r] + 1 .. parts'[r] : \E f \in Awaited(r)' : f.part = p
  <2>1. r \in Runs /\ r \in InScope \ suppressed /\ ~lost
    BY <1>0, <1>1, <1>2, <1>9 DEF InScope, TypeInv
  <2>2. /\ \A f \in Awaited(r) : f.part > heard[r]
        /\ r \in OpenSteps \/ Awaited(r) # {} =>
              \A p \in heard[r] + 1 .. parts[r] : \E f \in Awaited(r) : f.part = p
    BY <2>1, <1>0 DEF PartsInv
  <2>3. ASSUME r \in OpenSteps', NEW p \in heard[r] + 1 .. parts[r] PROVE r \in OpenSteps
    <3>1. heard[r] \in Nat /\ parts[r] \in Nat
      BY <2>1, <1>0 DEF TypeInv
    <3>2. parts[r] # 0
      BY <3>1, <2>3
    <3>3. at[StepBegin(r)] # NoCursor
      BY <3>2, <2>1, <1>0 DEF RecordsInv
    <3>4. at'[StepEnd(r)] = NoCursor
      BY <2>3, <2>1 DEF OpenSteps, Happened, StepEnd
    <3>5. at[StepEnd(r)] = NoCursor
      BY <3>4, <2>1, <1>0, FactsOf DEF Later
    <3> QED
      BY <3>3, <3>5, <2>3, <2>1, <1>2 DEF OpenSteps, Happened, StepBegin, StepEnd
  <2>4. Awaited(r)' = Awaited(r)
    BY <2>1, <1>6
  <2> QED
    BY <2>2, <2>3, <2>4, <1>2
<1> QED
  BY <1>8, <1>9 DEF PartsInv

\* The runs that have ended have ended.
LEMMA LaterEnded ==
    ASSUME Inv, Same, Later
    PROVE  missed \subseteq Ended'
<1>1. ASSUME NEW r \in missed PROVE r \in Ended'
  <2>1. r \in Ended /\ r \in Runs
    BY <1>1 DEF Inv, ViewInv, TypeInv
  <2>2. r \in accepted /\ at[End(r)] # NoCursor
    BY <2>1 DEF Ended, Happened, End
  <2>3. at'[End(r)] # NoCursor /\ r \in accepted'
    BY <2>1, <2>2, FactsOf DEF Later
  <2> QED
    BY <2>3 DEF Ended, Happened, End
<1> QED
  BY <1>1

\* The publication of a fact keeps the invariant.
LEMMA FactStepKeeps ==
    ASSUME Inv, NEW k \in Facts, FactStep(k)
    PROVE  Inv'
<1>0. TypeInv /\ OpenInv /\ reader <= tail /\ RecordsInv /\ Same /\ Later /\ \A j \in Facts : j # k => at'[j] = at[j]
  BY FactStepLater DEF Inv, LinkInv
<1>1. TypeInv' /\ RecordsInv' /\ OrderInv' /\ FramesInv'
  BY FactStepTypes, FactStepRecords, FactStepFrames
<1>2. \A j \in Facts : at'[j] # at[j] => j[2] \in alive
  BY <1>0 DEF FactStep
<1>3. ViewInv' /\ LinkInv'
  BY <1>0, <1>2, LaterEnded, LaterView
<1>4. ASSUME link = "open" PROVE ReaderInv' /\ PrefixInv' /\ BatchInv' /\ ReachInv' /\ PartsInv'
  <2>1. ReaderInv'
    BY <1>0, <1>4 DEF OpenInv, ReaderInv, FactStep, server, client
  <2>2. PrefixInv' /\ BatchInv'
    BY <1>0, <1>4, LaterKnown, SameConnection DEF OpenInv
  <2>3. \A r \in alive' \ alive : \A j \in Facts : j[2] = r => at'[j] = NoCursor
    BY DEF FactStep
  <2>4. ASSUME NEW i \in Facts, at'[i] # at[i], NEW j \in Above(i)
        PROVE  j \in Facts /\ j[2] = i[2] /\ at[j] # NoCursor /\ j \in {Begin(i[2]), StepBegin(i[2])}
    <3>1. i = k /\ k[2] \in Runs
      BY <1>0, <2>4, FactsAre
    <3>2. CASE k[1] = "step_begin"
      <4>1. j = Begin(k[2])
        BY <3>1, <3>2, <2>4 DEF Above
      <4> QED
        BY <4>1, <3>1, <3>2, FactsOf DEF FactStep
    <3>3. CASE k[1] = "step_end"
      <4>1. at[StepBegin(k[2])] # NoCursor
        BY <3>3 DEF FactStep
      <4>2. at[Begin(k[2])] # NoCursor
        BY <4>1, <3>1 DEF Inv, OrderInv
      <4>3. j \in {Begin(k[2]), StepBegin(k[2])}
        BY <3>1, <3>3, <2>4 DEF Above
      <4> QED
        BY <4>1, <4>2, <4>3, <3>1, FactsOf
    <3>4. CASE k[1] \notin {"step_begin", "step_end"}
      BY <3>1, <3>4, <2>4 DEF Above
    <3> QED
      BY <3>2, <3>3, <3>4
  <2>5. ReachInv'
    BY <1>0, <1>4, <2>3, <2>4, SameReach
  <2> QED
    BY <1>4, <2>1, <2>2, <2>5, FactStepParts
<1>5. link' = link
  BY <1>0 DEF Same
<1> QED
  BY <1>1, <1>3, <1>4, <1>5 DEF Inv, OpenInv

\* The publication of a part keeps the invariant.
LEMMA EmitKeeps ==
    ASSUME Inv, NEW r \in Runs, Emit(r)
    PROVE  Inv'
<1>0. TypeInv /\ RecordsInv /\ OrderInv /\ FramesInv /\ OpenInv /\ reader <= tail
  BY DEF Inv, LinkInv
<1>1. /\ r \in OpenSteps /\ r \in alive /\ tail' = tail + 1 /\ at' = at /\ epoch' = epoch /\ floor' = floor
      /\ accepted' = accepted /\ alive' = alive /\ parts' = [parts EXCEPT ![r] = @ + 1]
      /\ ring' = ring \cup {Frame(tail + 1, "part", r, parts[r] + 1)}
      /\ UNCHANGED <<server, client, missed, followed>>
  BY DEF Emit, Publish
<1>2. epoch \in Nat /\ tail \in Nat /\ floor \in Nat /\ reader \in Nat /\ epoch >= 1 /\ floor <= tail /\ alive \subseteq accepted
      /\ accepted \subseteq Runs /\ IsFiniteSet(ring) /\ parts \in [Runs -> Nat] /\ at \in [Facts -> CursorSet]
  BY <1>0 DEF TypeInv, RecordsInv, FramesInv
<1>3. parts' \in [Runs -> Nat] /\ parts[r] \in Nat /\ parts'[r] = parts[r] + 1 /\ \A q \in Runs : q # r => parts'[q] = parts[q]
  BY <1>1, <1>2
<1>4. Same /\ Later
  <2>1. Same
    BY <1>1 DEF Same, server, client
  <2>2. \A q \in Runs : parts[q] <= parts'[q]
    BY <1>2, <1>3
  <2> QED
    BY <2>1, <2>2, <1>1, <1>2, <1>3 DEF Later
<1>5. PICK new \in FrameSet :
         /\ new = Frame(tail + 1, "part", r, parts[r] + 1)
         /\ new.n = tail + 1 /\ new.what = "part" /\ new.of = r /\ new.part = parts[r] + 1
  BY <1>2, <1>3, FrameIs
<1>6. at[StepBegin(r)] # NoCursor /\ at[StepEnd(r)] = NoCursor /\ at[StepBegin(r)].e = epoch /\ at[StepBegin(r)].n <= tail
  <2>1. at[StepBegin(r)] # NoCursor /\ at[StepEnd(r)] = NoCursor
    BY <1>1 DEF OpenSteps, Happened, StepBegin, StepEnd
  <2>2. StepBegin(r) \in Facts /\ StepBegin(r)[2] = r
    BY FactsOf
  <2> QED
    BY <2>1, <2>2, <1>0, <1>1 DEF RecordsInv
<1>7. TypeInv'
  BY <1>0, <1>1, <1>3, <1>5 DEF TypeInv, server, client
<1>8. RecordsInv' /\ OrderInv'
  <2>1. ASSUME NEW q \in Runs, parts'[q] # 0 PROVE at'[StepBegin(q)] # NoCursor
    BY <1>0, <1>1, <1>3, <1>6, <2>1 DEF RecordsInv
  <2>2. \A k \in Facts : at[k].n \in Nat
    BY <1>0, KnownTypes
  <2>3. ASSUME NEW k \in Facts, at[k] # NoCursor, at[k].e = epoch PROVE at[k].n <= tail'
    <3>1. at[k].n <= tail
      BY <2>3, <1>0 DEF RecordsInv
    <3> QED
      BY <3>1, <2>2, <1>1, <1>2
  <2>4. floor' <= tail'
    BY <1>1, <1>2
  <2>5. RecordsInv'
    BY <2>1, <2>3, <2>4, <1>0, <1>1 DEF RecordsInv
  <2> QED
    BY <2>5, <1>0, <1>1 DEF OrderInv
<1>9. FramesInv'
  <2>1. Frames' = Frames \cup {new}
    BY <1>1, <1>5 DEF Frames, Sources, InBatch, server
  <2>2. Frames \subseteq FrameSet /\ \A f \in FrameSet : f.n \in Nat /\ f.part \in Nat /\ f.of \in Runs
    BY <1>0, FramesTypes
  <2>3. ASSUME NEW f \in Frames PROVE FrameFits(f)' /\ f.n < tail + 1 /\ (f.what = "part" => f.part <= parts[f.of])
    <3>1. FrameFits(f) /\ f \in FrameSet
      BY <1>0, <2>2 DEF FramesInv
    <3>2. f.n \in 1 .. tail /\ f.of \in accepted /\ parts[f.of] \in Nat /\ parts[f.of] <= parts'[f.of]
      BY <3>1, <2>2, <1>2, <1>4 DEF FrameFits, Later
    <3>3. f.what = "part" => f.part \in 1 .. parts'[f.of] /\ f.part <= parts[f.of]
      BY <3>1, <3>2, <2>2, <1>3 DEF FrameFits
    <3>4. f.n \in 1 .. tail'
      BY <3>2, <1>1, <1>2
    <3> QED
      BY <3>1, <3>2, <3>3, <3>4, <1>1, <1>2 DEF FrameFits
  <2>4. FrameFits(new)'
    <3>1. new.n \in 1 .. tail' /\ new.of \in accepted' /\ new.part \in 1 .. parts'[r]
      BY <1>1, <1>2, <1>3, <1>5
    <3>2. Before(at'[StepBegin(r)], Cursor(epoch', new.n))
      BY <1>1, <1>2, <1>5, <1>6, KnownTypes, FactsOf, <1>0 DEF Before, Cursor
    <3> QED
      BY <3>1, <3>2, <1>1, <1>5, <1>6 DEF FrameFits
  <2>5. ASSUME NEW f \in Frames', NEW g \in Frames'
        PROVE  /\ f.n = g.n => f = g
               /\ f.what = "part" /\ g.what = "part" /\ f.of = g.of /\ f.part <= g.part => f.n <= g.n
    <3>1. CASE f \in Frames /\ g \in Frames
      BY <3>1, <1>0 DEF FramesInv
    <3>2. CASE f = new /\ g \in Frames
      BY <3>2, <2>2, <2>3, <1>2, <1>3, <1>5
    <3>3. CASE f \in Frames /\ g = new
      BY <3>3, <2>2, <2>3, <1>2, <1>3, <1>5
    <3>4. CASE f = new /\ g = new
      BY <3>4, <1>2, <1>5
    <3> QED
      BY <3>1, <3>2, <3>3, <3>4, <2>1
  <2>6. ASSUME NEW q \in OpenSteps', at'[StepBegin(q)].e = epoch, at'[StepBegin(q)].n > floor, NEW p \in 1 .. parts'[q]
        PROVE  \E f \in ring' : f.what = "part" /\ f.of = q /\ f.part = p
    <3>1. q \in OpenSteps /\ q \in Runs
      BY <1>1, <1>2, <2>6 DEF OpenSteps, Happened
    <3>2. CASE q = r /\ p = parts[r] + 1
      BY <3>2, <1>1, <1>5
    <3>3. CASE p \in 1 .. parts[q]
      <4>1. \E f \in ring : f.what = "part" /\ f.of = q /\ f.part = p
        BY <3>1, <3>3, <2>6, <1>0, <1>1 DEF FramesInv
      <4> QED
        BY <4>1, <1>1
    <3> QED
      BY <3>1, <3>2, <3>3, <2>6, <1>2, <1>3
  <2>7. IsFiniteSet(ring') /\ \A f \in ring' : floor' < f.n
    <3>1. IsFiniteSet(ring')
      BY <1>1, <1>2, FS_AddElement
    <3>2. floor' < new.n
      BY <1>1, <1>2, <1>5
    <3> QED
      BY <3>1, <3>2, <1>0, <1>1, <1>5 DEF FramesInv
  <2>8. \A f \in Frames' : FrameFits(f)'
    BY <2>1, <2>3, <2>4
  <2>9. \A k \in Facts : at'[k].e = epoch' /\ at'[k].n > floor' => Frame(at'[k].n, k[1], k[2], 0) \in ring'
    BY <1>0, <1>1 DEF FramesInv
  <2> QED
    BY <2>5, <2>6, <2>7, <2>8, <2>9, <1>1 DEF FramesInv
<1>10. ViewInv' /\ LinkInv'
  <2>1. \A k \in Facts : at'[k] # at[k] => k[2] \in alive
    BY <1>1
  <2> QED
    BY <2>1, <1>4, LaterEnded, LaterView
<1>11. ASSUME link = "open" PROVE ReaderInv' /\ PrefixInv' /\ BatchInv' /\ ReachInv' /\ PartsInv'
  <2>1. ReaderInv'
    BY <1>0, <1>1, <1>11 DEF OpenInv, ReaderInv, server, client
  <2>2. Known' = Known /\ InBatch' = InBatch /\ Sources' = Sources /\ InScope' = InScope /\ PrefixInv' /\ BatchInv'
    BY <1>0, <1>4, <1>11, LaterKnown, SameConnection DEF OpenInv
  <2>3. ReachInv'
    <3>1. alive' \ alive = {} /\ \A k \in Facts : at'[k] = at[k]
      BY <1>1
    <3> QED
      BY <3>1, <1>4, <1>11, SameReach
  <2>4. PartsInv'
    <3>0. PartsInv /\ new.n > reader
      BY <1>0, <1>2, <1>5, <1>11 DEF OpenInv
    <3>1. Unread' = Unread \cup {new}
      BY <3>0, <1>1, <1>5 DEF Unread, server
    <3>2. Awaited(r)' = Awaited(r) \cup {new} /\ \A q \in Runs : q # r => Awaited(q)' = Awaited(q)
      BY <3>1, <2>2, <1>5 DEF Awaited
    <3>3. OpenSteps' = OpenSteps /\ suppressed' = suppressed /\ lost' = lost /\ heard' = heard
      BY <1>1 DEF OpenSteps, Happened, server, client
    <3>4. ASSUME ~lost, NEW q \in InScope \ suppressed
          PROVE  /\ \A f \in Awaited(q)' : f.part > heard[q]
                 /\ q \in OpenSteps \/ Awaited(q)' # {} =>
                      \A p \in heard[q] + 1 .. parts'[q] : \E f \in Awaited(q)' : f.part = p
      <4>1. q \in Runs /\ heard[q] \in Nat /\ parts[q] \in Nat
        BY <3>4, <1>0 DEF InScope, TypeInv
      <4>2. /\ \A f \in Awaited(q) : f.part > heard[q]
            /\ q \in OpenSteps \/ Awaited(q) # {} =>
                  \A p \in heard[q] + 1 .. parts[q] : \E f \in Awaited(q) : f.part = p
        BY <3>0, <3>4 DEF PartsInv
      <4>3. CASE q # r
        BY <4>1, <4>2, <4>3, <3>2, <1>3
      <4>4. CASE q = r
        <5>1. heard[r] <= parts[r]
          BY <4>1, <4>4 DEF Inv, ViewInv
        <5>2. new.part > heard[r]
          BY <5>1, <4>1, <4>4, <1>5
        <5>3. ASSUME NEW p \in heard[r] + 1 .. parts'[r] PROVE \E f \in Awaited(r)' : f.part = p
          <6>1. CASE p = parts[r] + 1
            BY <6>1, <3>2, <1>5
          <6>2. CASE p \in heard[r] + 1 .. parts[r]
            BY <6>2, <4>2, <4>4, <3>2, <1>1
          <6> QED
            BY <6>1, <6>2, <5>3, <4>1, <4>4, <1>3
        <5> QED
          BY <5>2, <5>3, <4>2, <4>4, <3>2
      <4> QED
        BY <4>3, <4>4
    <3>5. \A q \in suppressed : Known'[StepBegin(q)] # NoCursor /\ \A f \in InBatch' : <<f.what, f.of>> # StepBegin(q)
      BY <3>0, <2>2 DEF PartsInv
    <3> QED
      BY <3>3, <3>4, <3>5, <2>2 DEF PartsInv
  <2> QED
    BY <2>1, <2>2, <2>3, <2>4
<1>12. link' = link
  BY <1>4 DEF Same
<1> QED
  BY <1>7, <1>8, <1>9, <1>10, <1>11, <1>12 DEF Inv, OpenInv

\* Another client's run keeps the invariant.
LEMMA AcceptRunKeeps ==
    ASSUME Inv, NEW r \in Runs, AcceptRun(r)
    PROVE  Inv'
<1>0. TypeInv /\ RecordsInv /\ OrderInv /\ FramesInv /\ OpenInv /\ reader <= tail
  BY DEF Inv, LinkInv
<1>1. /\ r \notin accepted /\ accepted' = accepted \cup {r} /\ alive' = alive \cup {r}
      /\ UNCHANGED <<source, at, parts, server, client, missed, cuts, followed>>
  BY DEF AcceptRun
<1>2. /\ epoch' = epoch /\ tail' = tail /\ floor' = floor /\ ring' = ring /\ at' = at /\ parts' = parts
      /\ prefix' = prefix /\ batch' = batch /\ link' = link
  BY <1>1 DEF source, server
<1>3. \A k \in Facts : k[2] = r => at[k] = NoCursor
  BY <1>0, <1>1 DEF RecordsInv
<1>4. Same /\ Later
  <2>1. Same
    BY <1>1 DEF Same, source, server, client
  <2>2. tail \in Nat /\ parts \in [Runs -> Nat] /\ at \in [Facts -> CursorSet]
    BY <1>0 DEF TypeInv
  <2> QED
    BY <2>1, <2>2, <1>1, <1>2 DEF Later
<1>5. TypeInv'
  <2>1. IsFiniteSet(accepted') /\ accepted' \subseteq Runs
    BY <1>0, <1>1, FS_AddElement DEF TypeInv
  <2> QED
    BY <2>1, <1>0, <1>1 DEF TypeInv, source, server, client
<1>6. RecordsInv' /\ OrderInv'
  BY <1>0, <1>1, <1>2, <1>3 DEF RecordsInv, OrderInv
<1>7. OpenSteps' = OpenSteps
  <2>1. ~Happened("step_begin", r)
    BY <1>3, FactsOf DEF Happened, StepBegin
  <2> QED
    BY <2>1, <1>1, <1>2 DEF OpenSteps, Happened
<1>8. FramesInv'
  <2>1. Frames' = Frames
    BY <1>2 DEF Frames, Sources, InBatch
  <2>2. \A f \in Frames : FrameFits(f)'
    BY <1>0, <1>1, <1>2 DEF FramesInv, FrameFits
  <2> QED
    BY <2>1, <2>2, <1>0, <1>2, <1>7 DEF FramesInv
<1>9. ViewInv' /\ LinkInv'
  BY <1>2, <1>4, LaterEnded, LaterView
<1>10. ASSUME link = "open" PROVE ReaderInv' /\ PrefixInv' /\ BatchInv' /\ ReachInv' /\ PartsInv'
  <2>1. ReaderInv'
    BY <1>0, <1>1, <1>10 DEF OpenInv, ReaderInv, source, server, client
  <2>2. Known' = Known /\ InBatch' = InBatch /\ Sources' = Sources /\ InScope' = InScope /\ PrefixInv' /\ BatchInv'
    BY <1>0, <1>4, <1>10, LaterKnown, SameConnection DEF OpenInv
  <2>3. ReachInv'
    <3>1. \A q \in alive' \ alive : \A k \in Facts : k[2] = q => at'[k] = NoCursor
      BY <1>1, <1>2, <1>3
    <3> QED
      BY <3>1, <1>2, <1>4, <1>10, SameReach
  <2>4. PartsInv'
    <3>1. \A q : Awaited(q)' = Awaited(q)
      BY <2>2, <1>1, <1>2 DEF Awaited, Unread, server
    <3> QED
      BY <3>1, <2>2, <1>0, <1>1, <1>7, <1>10 DEF OpenInv, PartsInv, server, client
  <2> QED
    BY <2>1, <2>2, <2>3, <2>4
<1> QED
  BY <1>2, <1>5, <1>6, <1>8, <1>9, <1>10 DEF Inv, OpenInv

\* Frames are dropped: the oldest, or what a reader is done with.
RingDrops ==
    /\ ring' \subseteq ring /\ floor' \in Nat /\ floor <= floor' /\ floor' <= tail /\ lost' \in BOOLEAN
    /\ \A f \in ring' : floor' < f.n
    /\ \A k \in Facts : at[k].e = epoch /\ at[k].n > floor' => Frame(at[k].n, k[1], k[2], 0) \in ring'
    /\ \A r \in OpenSteps : at[StepBegin(r)].e = epoch /\ at[StepBegin(r)].n > floor' =>
          \A p \in 1 .. parts[r] : \E f \in ring' : f.what = "part" /\ f.of = r /\ f.part = p
    /\ link = "open" /\ ~lost' => ~lost /\ floor' <= reader /\ \A f \in ring \ ring' : f.n <= reader
    /\ UNCHANGED <<epoch, tail, records, link, reader, prefix, batch, mark, active, suppressed, client,
                   missed, followed>>

(* What the ring may drop keeps the invariant: a reader that loses an      *)
(* unread frame is overflowed.                                             *)
LEMMA RingDropsKeeps ==
    ASSUME Inv, RingDrops
    PROVE  Inv'
<1>0. TypeInv /\ RecordsInv /\ OrderInv /\ FramesInv /\ OpenInv /\ reader <= tail
  BY DEF Inv, LinkInv
<1>1. /\ epoch' = epoch /\ tail' = tail /\ at' = at /\ parts' = parts /\ accepted' = accepted /\ alive' = alive
      /\ prefix' = prefix /\ batch' = batch /\ link' = link /\ reader' = reader
  BY DEF RingDrops, records
<1>4. Same /\ Later
  <2>1. Same
    BY DEF RingDrops, Same, client
  <2>2. tail \in Nat /\ parts \in [Runs -> Nat] /\ at \in [Facts -> CursorSet]
    BY <1>0 DEF TypeInv
  <2> QED
    BY <2>1, <2>2, <1>1 DEF Later
<1>5. TypeInv'
  BY <1>0 DEF TypeInv, RingDrops, records, client
<1>6. RecordsInv' /\ OrderInv'
  BY <1>0, <1>1 DEF RecordsInv, OrderInv, RingDrops
<1>7. OpenSteps' = OpenSteps
  BY <1>1 DEF OpenSteps, Happened
<1>8. FramesInv'
  <2>1. Frames' \subseteq Frames
    BY <1>1 DEF Frames, Sources, InBatch, RingDrops
  <2>2. \A f \in Frames : FrameFits(f)'
    BY <1>0, <1>1 DEF FramesInv, FrameFits
  <2>3. IsFiniteSet(ring')
    BY <1>0, FS_Subset DEF FramesInv, RingDrops
  <2>4. \A f, g \in Frames' :
          /\ f.n = g.n => f = g
          /\ f.what = "part" /\ g.what = "part" /\ f.of = g.of /\ f.part <= g.part => f.n <= g.n
    BY <2>1, <1>0 DEF FramesInv
  <2> QED
    BY <2>1, <2>2, <2>3, <2>4, <1>1, <1>7 DEF FramesInv, RingDrops
<1>9. ViewInv' /\ LinkInv'
  BY <1>1, <1>4, LaterEnded, LaterView
<1>10. ASSUME link = "open" PROVE ReaderInv' /\ PrefixInv' /\ BatchInv' /\ ReachInv' /\ PartsInv'
  <2>1. ReaderInv'
    BY <1>0, <1>10 DEF OpenInv, ReaderInv, RingDrops, records, client
  <2>2. Known' = Known /\ InBatch' = InBatch /\ Sources' = Sources /\ InScope' = InScope /\ PrefixInv' /\ BatchInv'
    BY <1>0, <1>4, <1>10, LaterKnown, SameConnection DEF OpenInv
  <2>3. ReachInv'
    BY <1>1, <1>4, <1>10, SameReach
  <2>4. PartsInv'
    <3>1. ASSUME ~lost' PROVE ~lost /\ \A q : Awaited(q)' = Awaited(q)
      <4>1. ~lost /\ \A f \in ring \ ring' : f.n <= reader
        BY <3>1, <1>10 DEF RingDrops
      <4>2. \A f \in ring : f.n \in Nat
        BY <1>0 DEF TypeInv, FrameSet
      <4>3. Unread' = Unread
        BY <4>1, <4>2, <1>0, <1>1 DEF Unread, RingDrops, TypeInv
      <4> QED
        BY <4>1, <4>3, <2>2 DEF Awaited
    <3>2. PartsInv
      BY <1>0, <1>10 DEF OpenInv
    <3>3. suppressed' = suppressed /\ heard' = heard
      BY DEF RingDrops, client
    <3>4. \A r \in suppressed' : Known'[StepBegin(r)] # NoCursor /\ \A f \in InBatch' : <<f.what, f.of>> # StepBegin(r)
      BY <3>2, <3>3, <2>2 DEF PartsInv
    <3>5. ASSUME ~lost', NEW r \in InScope' \ suppressed'
          PROVE  /\ \A f \in Awaited(r)' : f.part > heard'[r]
                 /\ r \in OpenSteps' \/ Awaited(r)' # {} =>
                       \A p \in heard'[r] + 1 .. parts'[r] : \E f \in Awaited(r)' : f.part = p
      <4>1. /\ \A f \in Awaited(r) : f.part > heard[r]
            /\ r \in OpenSteps \/ Awaited(r) # {} =>
                  \A p \in heard[r] + 1 .. parts[r] : \E f \in Awaited(r) : f.part = p
        BY <3>1, <3>2, <3>3, <3>5, <2>2 DEF PartsInv
      <4>2. Awaited(r)' = Awaited(r)
        BY <3>1, <3>5
      <4> QED
        BY <4>1, <4>2, <3>3, <1>1, <1>7
    <3> QED
      BY <3>4, <3>5 DEF PartsInv
  <2> QED
    BY <2>1, <2>2, <2>3, <2>4
<1> QED
  BY <1>1, <1>5, <1>6, <1>8, <1>9, <1>10 DEF Inv, OpenInv

\* The eviction of the oldest frame is such a drop.
LEMMA EvictDrops ==
    ASSUME Inv, Evict
    PROVE  RingDrops
<1>0. TypeInv /\ RecordsInv /\ OrderInv /\ FramesInv /\ OpenInv
  BY DEF Inv
<1>1. PICK f \in ring :
         /\ \A g \in ring : f.n <= g.n
         /\ ring' = ring \ {f}
         /\ floor' = f.n
         /\ lost' = (lost \/ (Registered /\ reader < f.n))
  BY DEF Evict
<1>2. /\ UNCHANGED <<epoch, tail, records, link, reader, prefix, batch, mark, active, suppressed, client, missed, followed>>
  BY DEF Evict
<1>3. ring \subseteq Frames /\ ring \subseteq FrameSet /\ \A g \in ring : g.n \in Nat
  BY <1>0 DEF Frames, TypeInv, FrameSet
<1>4. FrameFits(f) /\ f.n \in 1 .. tail /\ floor < f.n /\ tail \in Nat /\ floor \in Nat /\ reader \in Nat
  BY <1>0, <1>3 DEF FramesInv, FrameFits, TypeInv
<1>5. \A g \in ring : g.n = f.n => g = f
  BY <1>0, <1>3 DEF FramesInv
<1>6. \A g \in ring' : floor' < g.n
  BY <1>1, <1>3, <1>4, <1>5
<1>7. ASSUME NEW k \in Facts, at[k].e = epoch, at[k].n > floor' PROVE Frame(at[k].n, k[1], k[2], 0) \in ring'
  <2>1. at[k].n \in Nat
    BY <1>0, KnownTypes
  <2>2. at[k].n > floor
    BY <2>1, <1>1, <1>4, <1>7
  <2>3. Frame(at[k].n, k[1], k[2], 0) \in ring
    BY <2>2, <1>0, <1>7 DEF FramesInv
  <2>4. Frame(at[k].n, k[1], k[2], 0).n = at[k].n
    BY DEF Frame
  <2> QED
    BY <2>1, <2>3, <2>4, <1>1, <1>4, <1>7
<1>8. ASSUME NEW r \in OpenSteps, at[StepBegin(r)].e = epoch, at[StepBegin(r)].n > floor', NEW p \in 1 .. parts[r]
      PROVE  \E g \in ring' : g.what = "part" /\ g.of = r /\ g.part = p
  <2>0. r \in Runs /\ StepBegin(r) \in Facts
    BY <1>0, FactsOf DEF OpenSteps, TypeInv
  <2>1. at[StepBegin(r)].n \in Nat
    BY <2>0, <1>0, KnownTypes
  <2>2. at[StepBegin(r)].n > floor
    BY <2>1, <1>1, <1>4, <1>8
  <2>3. PICK g \in ring : g.what = "part" /\ g.of = r /\ g.part = p
    BY <2>2, <1>0, <1>8 DEF FramesInv
  <2>4. FrameFits(g) /\ g \in FrameSet
    BY <1>0, <1>3 DEF FramesInv
  <2>5. at[StepBegin(r)].n < g.n
    BY <2>3, <2>4, <1>0, FitsIs
  <2>6. g # f
    BY <2>1, <2>5, <1>1, <1>4, <1>8
  <2> QED
    BY <2>3, <2>6, <1>1
<1>9. ASSUME link = "open", ~lost' PROVE ~lost /\ floor' <= reader /\ \A g \in ring \ ring' : g.n <= reader
  <2>1. ~lost
    BY <1>1, <1>9
  <2>2. Registered
    BY <2>1, <1>9 DEF Registered
  <2>3. ~(reader < f.n)
    BY <2>2, <1>1, <1>9
  <2> QED
    BY <2>1, <2>3, <1>1, <1>4
<1>10. lost' \in BOOLEAN
  BY <1>1
<1>11. ring' \subseteq ring /\ floor' \in Nat /\ floor <= floor' /\ floor' <= tail
  BY <1>1, <1>4
<1> QED
  BY <1>2, <1>6, <1>7, <1>8, <1>9, <1>10, <1>11 DEF RingDrops

\* The removal of a finished step's progress is such a drop.
LEMMA CompactDrops ==
    ASSUME Inv, NEW r \in Runs, Compact(r)
    PROVE  RingDrops
<1>0. TypeInv /\ RecordsInv /\ OrderInv /\ FramesInv /\ OpenInv
  BY DEF Inv
<1>1. PICK f \in ring : f.what = "step_end" /\ f.of = r
  BY DEF Compact
<1>2. /\ ring' = ring \ Progress(r)
      /\ Registered => \A g \in Progress(r) : g.n <= reader
      /\ UNCHANGED <<epoch, tail, floor, records, server, client, missed, cuts, followed>>
  BY DEF Compact
<1>3. ring \subseteq Frames /\ ring \subseteq FrameSet
  BY <1>0 DEF Frames, TypeInv
<1>4. at[StepEnd(r)] # NoCursor
  <2>1. FrameFits(f)
    BY <1>0, <1>3 DEF FramesInv
  <2> QED
    BY <2>1, <1>0, <1>1, <1>3, FitsIs DEF StepEnd
<1>5. r \notin OpenSteps
  BY <1>4 DEF OpenSteps, Happened, StepEnd
<1>6. ASSUME NEW k \in Facts, at[k].e = epoch, at[k].n > floor' PROVE Frame(at[k].n, k[1], k[2], 0) \in ring'
  <2>1. Frame(at[k].n, k[1], k[2], 0) \in ring
    BY <1>0, <1>2, <1>6 DEF FramesInv
  <2>2. Frame(at[k].n, k[1], k[2], 0).what # "part"
    BY FactsAre DEF Frame, Kinds
  <2> QED
    BY <2>1, <2>2, <1>2 DEF Progress
<1>7. ASSUME NEW q \in OpenSteps, at[StepBegin(q)].e = epoch, at[StepBegin(q)].n > floor', NEW p \in 1 .. parts[q]
      PROVE  \E g \in ring' : g.what = "part" /\ g.of = q /\ g.part = p
  <2>1. PICK g \in ring : g.what = "part" /\ g.of = q /\ g.part = p
    BY <1>0, <1>2, <1>7 DEF FramesInv
  <2> QED
    BY <2>1, <1>2, <1>5 DEF Progress
<1>8. ASSUME link = "open", ~lost' PROVE ~lost /\ floor' <= reader /\ \A g \in ring \ ring' : g.n <= reader
  <2>1. ~lost /\ Registered
    BY <1>2, <1>8 DEF server, Registered
  <2>2. floor <= reader
    BY <2>1, <1>0, <1>8 DEF OpenInv, ReaderInv
  <2> QED
    BY <2>1, <2>2, <1>2
<1>9. /\ lost' \in BOOLEAN /\ ring' \subseteq ring /\ floor' \in Nat /\ floor <= floor' /\ floor' <= tail
  BY <1>0, <1>2 DEF TypeInv, RecordsInv, server
<1>10. \A g \in ring' : floor' < g.n
  BY <1>0, <1>2 DEF FramesInv
<1> QED
  BY <1>2, <1>6, <1>7, <1>8, <1>9, <1>10 DEF RingDrops, server

\* The overflow of a slow reader is such a drop.
LEMMA OverflowDrops ==
    ASSUME Inv, Overflow
    PROVE  RingDrops
<1>0. TypeInv /\ RecordsInv /\ FramesInv
  BY DEF Inv
<1>1. lost' = TRUE /\ UNCHANGED <<source, records, link, reader, prefix, batch, mark, active,
                                 suppressed, client, missed, cuts, followed>>
  BY DEF Overflow
<1>2. floor \in Nat /\ floor <= tail /\ floor <= floor
  BY <1>0 DEF TypeInv, RecordsInv
<1> QED
  BY <1>0, <1>1, <1>2 DEF RingDrops, FramesInv, source

(***************************************************************************)
(* The connection, where it begins and where it is lost.                   *)
(***************************************************************************)

\* What is not about the records and the stream keeps their invariants.
LEMMA SameRecords ==
    ASSUME Inv, UNCHANGED <<source, records>>, Frames' \subseteq Frames
    PROVE  RecordsInv' /\ OrderInv' /\ FramesInv' /\ OpenSteps' = OpenSteps
<1>0. TypeInv /\ RecordsInv /\ OrderInv /\ FramesInv
  BY DEF Inv
<1>1. /\ epoch' = epoch /\ tail' = tail /\ floor' = floor /\ ring' = ring
      /\ accepted' = accepted /\ alive' = alive /\ at' = at /\ parts' = parts
  BY DEF source, records
<1>2. RecordsInv' /\ OrderInv'
  BY <1>0, <1>1 DEF RecordsInv, OrderInv
<1>3. OpenSteps' = OpenSteps
  BY <1>1 DEF OpenSteps, Happened
<1>4. \A f \in Frames : FrameFits(f)'
  BY <1>0, <1>1 DEF FramesInv, FrameFits
<1>5. \A f, g \in Frames' :
        /\ f.n = g.n => f = g
        /\ f.what = "part" /\ g.what = "part" /\ f.of = g.of /\ f.part <= g.part => f.n <= g.n
  BY <1>0 DEF FramesInv
<1>6. FramesInv'
  BY <1>0, <1>1, <1>3, <1>4, <1>5 DEF FramesInv
<1> QED
  BY <1>2, <1>3, <1>6

\* The client keeps what it shows.
LEMMA SameView ==
    ASSUME Inv, UNCHANGED <<source, records, cursor, view, missed, followed>>,
           heard' \in [Runs -> Nat], \A r \in Runs : heard'[r] <= parts[r]
    PROVE  ViewInv'
<1>1. ViewInv
  BY DEF Inv
<1>2. /\ epoch' = epoch /\ tail' = tail /\ accepted' = accepted /\ at' = at /\ parts' = parts
  BY DEF source, records
<1> QED
  BY <1>1, <1>2
     DEF ViewInv, Shows, ViewIsNested, CursorIsReflected, Passed, InScope, Ended, Happened

\* reserve() keeps the invariant.
LEMMA ReserveKeeps ==
    ASSUME Inv, Reserve
    PROVE  Inv'
<1>0. TypeInv /\ LinkInv /\ ViewInv
  BY DEF Inv
<1>1. /\ link = "off" /\ link' = "reserved" /\ reader' = tail /\ lost' = FALSE
      /\ UNCHANGED <<source, records, prefix, batch, mark, active, suppressed, client, missed, cuts, followed>>
  BY DEF Reserve
<1>2. Frames' \subseteq Frames
  BY <1>1 DEF Frames, Sources, InBatch, source
<1>3. TypeInv'
  BY <1>0, <1>1 DEF TypeInv, source, records, client
<1>4. RecordsInv' /\ OrderInv' /\ FramesInv'
  BY <1>1, <1>2, SameRecords
<1>5. ViewInv'
  BY <1>0, <1>1, SameView DEF client, ViewInv, TypeInv
<1>6. LinkInv'
  BY <1>0, <1>1 DEF LinkInv, EndIsComplete, TypeInv, source, client
<1> QED
  BY <1>1, <1>3, <1>4, <1>5, <1>6 DEF Inv, OpenInv

\* Whatever was on its way is gone.
LEMMA DroppedKeeps ==
    ASSUME Inv, Dropped,
           UNCHANGED <<source, records, reader, lost, mark, active, suppressed, cursor, view, missed, followed>>
    PROVE  Inv'
<1>0. TypeInv /\ LinkInv /\ ViewInv
  BY DEF Inv
<1>1. /\ link' = "off" /\ prefix' = <<>> /\ batch' = <<>> /\ staged' = <<>> /\ heard' = [r \in Runs |-> 0]
  BY DEF Dropped
<1>2. Frames' \subseteq Frames
  BY <1>1 DEF Frames, Sources, InBatch, source
<1>3. TypeInv'
  BY <1>0, <1>1 DEF TypeInv, source, records
<1>4. RecordsInv' /\ OrderInv' /\ FramesInv'
  BY <1>2, SameRecords
<1>5. ViewInv'
  <2>1. heard' \in [Runs -> Nat] /\ \A r \in Runs : heard'[r] <= parts[r]
    BY <1>0, <1>1 DEF TypeInv
  <2> QED
    BY <2>1, SameView
<1>6. LinkInv'
  BY <1>0, <1>1 DEF LinkInv, EndIsComplete, source
<1> QED
  BY <1>1, <1>3, <1>4, <1>5, <1>6 DEF Inv, OpenInv

(* A new process keeps the invariant: every recorded cursor is now of an   *)
(* earlier epoch.                                                          *)
LEMMA RestartKeeps ==
    ASSUME Inv, Restart
    PROVE  Inv'
<1>0. TypeInv /\ RecordsInv /\ OrderInv /\ FramesInv /\ LinkInv /\ ViewInv
  BY DEF Inv
<1>1. /\ epoch' = epoch + 1 /\ tail' = 0 /\ floor' = 0 /\ ring' = {} /\ alive' = {} /\ reader' = 0 /\ mark' = 0
      /\ UNCHANGED <<accepted, at, parts, lost, active, suppressed, cursor, view, missed, cuts, followed>>
  BY DEF Restart
<1>2. prefix' = <<>> /\ batch' = <<>> /\ staged' = <<>> /\ link' \in {"off", "over"}
      /\ (heard' = heard \/ heard' = [r \in Runs |-> 0])
      /\ (link' = "over" => link = "over") /\ (link' = "off" => heard' = [r \in Runs |-> 0])
  <2>1. CASE link = "over"
    BY <2>1, <1>0 DEF Restart, LinkInv
  <2>2. CASE link # "over"
    BY <2>2 DEF Restart, Dropped
  <2> QED
    BY <2>1, <2>2
<1>3. epoch \in Nat /\ epoch >= 1 /\ heard \in [Runs -> Nat] /\ parts \in [Runs -> Nat]
  BY <1>0 DEF TypeInv, RecordsInv
<1>4. heard' \in [Runs -> Nat] /\ \A r \in Runs : heard'[r] <= parts[r]
  <2>1. \A r \in Runs : heard[r] <= parts[r]
    BY <1>0 DEF ViewInv
  <2> QED
    BY <2>1, <1>2, <1>3
<1>5. TypeInv'
  <2>1. epoch' \in Nat
    BY <1>1, <1>3
  <2>2. prefix' \in Seq(ItemSet) /\ batch' \in Seq(FrameSet) /\ staged' \in Seq(Views)
    BY <1>2
  <2> QED
    BY <2>1, <2>2, <1>0, <1>1, <1>2, <1>4 DEF TypeInv
<1>6. \A k \in Facts : at[k] # NoCursor => at[k].e \in 1 .. epoch /\ at[k].e # epoch'
  BY <1>0, <1>1, <1>3 DEF RecordsInv
<1>7. \A k \in Facts : at[k].e # epoch'
  BY <1>0, <1>1, <1>3, <1>6, KnownTypes
<1>8. RecordsInv' /\ OrderInv'
  <2>1. epoch' >= 1 /\ floor' <= tail'
    BY <1>1, <1>3
  <2>2. ASSUME NEW k \in Facts, at[k] # NoCursor PROVE at[k].e \in 1 .. epoch'
    BY <2>2, <1>1, <1>3, <1>6
  <2>3. RecordsInv'
    BY <2>1, <2>2, <1>0, <1>1, <1>7 DEF RecordsInv
  <2> QED
    BY <2>3, <1>0, <1>1 DEF OrderInv
<1>9. FramesInv'
  <2>1. Frames' = {}
    BY <1>1, <1>2 DEF Frames, Sources, InBatch
  <2>2. \A r \in OpenSteps' : StepBegin(r) \in Facts
    BY <1>0, <1>1, FactsOf DEF OpenSteps, TypeInv
  <2> QED
    BY <2>1, <2>2, <1>1, <1>7, FS_EmptySet DEF FramesInv
<1>10. ViewInv'
  <2>1. cursor # NoCursor => cursor.e \in 1 .. epoch /\ cursor.e # epoch'
    BY <1>0, <1>1, <1>3 DEF ViewInv
  <2>2. cursor.e # epoch'
    BY <2>1, <1>1, <1>3, KnownTypes, <1>0
  <2>3. cursor # NoCursor => cursor.e \in 1 .. epoch'
    BY <2>1, <1>1, <1>3
  <2>4. Shows(view, at, missed)' /\ ViewIsNested' /\ CursorIsReflected' /\ missed' \subseteq Ended'
    BY <1>0, <1>1 DEF ViewInv, Shows, ViewIsNested, CursorIsReflected, Passed, InScope, Ended, Happened
  <2> QED
    BY <2>2, <2>3, <2>4, <1>0, <1>1, <1>4 DEF ViewInv
<1>11. LinkInv'
  BY <1>0, <1>1, <1>2 DEF LinkInv, EndIsComplete
<1> QED
  BY <1>2, <1>5, <1>8, <1>9, <1>10, <1>11 DEF Inv, OpenInv

\* When the reader is at the tail, all that is recorded is known.
LEMMA AllKnown ==
    TypeInv /\ RecordsInv /\ FramesInv /\ reader = tail => Known = at /\ Ahead = {} /\ Unread = {}
<1> SUFFICES ASSUME TypeInv, RecordsInv, FramesInv, reader = tail
             PROVE  Known = at /\ Ahead = {} /\ Unread = {}
  OBVIOUS
<1>1. ASSUME NEW k \in Facts PROVE ~(at[k].e = epoch /\ at[k].n > reader)
  <2>1. CASE at[k] = NoCursor
    BY <2>1, KnownTypes DEF TypeInv
  <2>2. CASE at[k] # NoCursor
    BY <2>2, KnownTypes DEF TypeInv, RecordsInv
  <2> QED
    BY <2>1, <2>2
<1>2. Known = at
  BY <1>1 DEF Known, TypeInv
<1>3. Ahead = {}
  BY <1>1 DEF Ahead
<1>4. ASSUME NEW f \in ring PROVE ~(f.n > reader)
  <2>1. f.n \in 1 .. tail
    BY <1>4 DEF FramesInv, FrameFits, Frames
  <2> QED
    BY <2>1 DEF TypeInv
<1> QED
  BY <1>2, <1>3, <1>4 DEF Unread

(* The attachment to a new run keeps the invariant: nothing of it is       *)
(* recorded yet.                                                           *)
LEMMA AttachNewKeeps ==
    ASSUME Inv, AttachNew
    PROVE  Inv'
<1>0. TypeInv /\ RecordsInv /\ OrderInv /\ FramesInv /\ LinkInv /\ ViewInv
  BY DEF Inv
<1>1. /\ followed \in Runs /\ followed \notin accepted
      /\ accepted' = accepted \cup {followed} /\ alive' = alive \cup {followed}
      /\ link = "reserved" /\ link' = "open" /\ reader' = tail /\ prefix' = <<>> /\ active' = {followed} /\ suppressed' = {}
      /\ mark' = 0
      /\ UNCHANGED <<source, at, parts, lost, batch, client, missed, cuts, followed>>
  BY DEF AttachNew
<1>2. /\ epoch' = epoch /\ tail' = tail /\ floor' = floor /\ ring' = ring /\ at' = at /\ parts' = parts
      /\ cursor' = cursor /\ view' = view /\ staged' = staged /\ heard' = heard /\ missed' = missed
      /\ prefix' = <<>> /\ batch' = <<>> /\ staged' = <<>> /\ lost' = lost /\ followed' = followed
  BY <1>0, <1>1 DEF source, client, LinkInv
<1>3. \A k \in Facts : k[2] = followed => at[k] = NoCursor
  BY <1>0, <1>1 DEF RecordsInv
<1>4. IsFiniteSet(accepted') /\ accepted' \subseteq Runs
  BY <1>0, <1>1, FS_AddElement DEF TypeInv
<1>5. TypeInv'
  BY <1>0, <1>1, <1>2, <1>4 DEF TypeInv
<1>6. RecordsInv' /\ OrderInv'
  BY <1>0, <1>1, <1>2, <1>3 DEF RecordsInv, OrderInv
<1>7. OpenSteps' = OpenSteps /\ followed \notin OpenSteps
  <2>1. ~Happened("step_begin", followed)
    BY <1>1, <1>3, FactsOf DEF Happened, StepBegin
  <2> QED
    BY <2>1, <1>1, <1>2 DEF OpenSteps, Happened
<1>8. FramesInv'
  <2>1. Frames' \subseteq Frames /\ Sources' = {} /\ InBatch' = {}
    BY <1>2 DEF Frames, Sources, InBatch
  <2>2. \A f \in Frames : FrameFits(f)'
    BY <1>0, <1>1, <1>2 DEF FramesInv, FrameFits
  <2>3. \A f, g \in Frames' :
          /\ f.n = g.n => f = g
          /\ f.what = "part" /\ g.what = "part" /\ f.of = g.of /\ f.part <= g.part => f.n <= g.n
    BY <2>1, <1>0 DEF FramesInv
  <2> QED
    BY <2>1, <2>2, <2>3, <1>0, <1>2, <1>7 DEF FramesInv
<1>9. ViewInv'
  <2>1. Ended \subseteq Ended'
    BY <1>1, <1>2 DEF Ended, Happened
  <2> QED
    BY <2>1, <1>0, <1>2 DEF ViewInv, Shows, ViewIsNested, CursorIsReflected, Passed, InScope
<1>10. LinkInv'
  BY <1>0, <1>1, <1>2 DEF LinkInv, EndIsComplete, TypeInv
<1>11. Known' = at /\ Ahead' = {} /\ Unread' = {}
  <2>1. (TypeInv /\ RecordsInv /\ FramesInv /\ reader = tail => Known = at /\ Ahead = {} /\ Unread = {})'
    BY AllKnown, PTL
  <2> QED
    BY <2>1, <1>1, <1>2, <1>5, <1>6, <1>8
<1>12. ReaderInv'
  BY <1>0, <1>1, <1>2 DEF ReaderInv, RecordsInv, ViewInv, TypeInv
<1>13. PrefixInv' /\ BatchInv'
  BY <1>2 DEF PrefixInv, BatchInv
<1>14. InScope' = {followed} /\ Told' = {} /\ Sources' = {} /\ InBatch' = {} /\ Coming' = view
  <2>1. Agent # followed
    BY <1>1, ScopeAssumption
  <2> QED
    BY <2>1, <1>2 DEF InScope, Told, Sources, InBatch, Coming, Replacing
<1>15. ReachInv'
  <2>1. Shows(view, Known, missed)' /\ Shows(Coming, Known, missed)'
    BY <1>0, <1>2, <1>11, <1>14 DEF ViewInv, Shows
  <2>2. Due2' = Facts \cap DOMAIN view
    BY <1>11, <1>14 DEF Due2
  <2>3. ASSUME NEW k \in Due2' PROVE Above(k) \subseteq Due2'
    <3>1. k \in Facts /\ k \in DOMAIN view /\ k[2] \in Runs
      BY <2>2, <2>3, FactsAre
    <3>2. k[1] \in {"step_begin", "step_end"} => Begin(k[2]) \in DOMAIN view /\ StepBegin(k[2]) \in DOMAIN view
      BY <3>1, <1>0 DEF ViewInv, ViewIsNested, Begin, StepBegin
    <3> QED
      BY <2>2, <3>1, <3>2, FactsOf DEF Above
  <2>4. \A k \in Facts : k[2] \in InScope' => at[k] = NoCursor
    BY <1>3, <1>14
  <2>5. \A r \in InScope' : \A k \in {Begin(r), StepBegin(r)} : at[k] = NoCursor
    BY <2>4, <1>1, <1>14, FactsOf
  <2> QED
    BY <2>1, <2>3, <2>4, <2>5, <1>1, <1>2, <1>11, <1>14 DEF ReachInv
<1>16. PartsInv'
  <2>1. \A r : Awaited(r)' = {}
    BY <1>11, <1>14 DEF Awaited
  <2> QED
    BY <2>1, <1>1, <1>7, <1>14 DEF PartsInv
<1> QED
  BY <1>1, <1>5, <1>6, <1>8, <1>9, <1>10, <1>12, <1>13, <1>15, <1>16 DEF Inv, OpenInv

(***************************************************************************)
(* A frame of the prefix is given to the client.                           *)
(***************************************************************************)

\* Where the members of a sequence are in its tail.
LEMMA TailFacts ==
    ASSUME NEW S, NEW s \in Seq(S), s # <<>>
    PROVE  /\ Tail(s) \in Seq(S) /\ Len(s) \in Nat /\ Len(s) >= 1 /\ Len(Tail(s)) = Len(s) - 1
           /\ DOMAIN s = 1 .. Len(s) /\ DOMAIN Tail(s) = 1 .. Len(s) - 1
           /\ Head(s) = s[1] /\ 1 \in DOMAIN s
           /\ \A i \in DOMAIN Tail(s) : i + 1 \in DOMAIN s /\ Tail(s)[i] = s[i + 1]
           /\ \A i \in DOMAIN s : i = 1 \/ (i - 1 \in DOMAIN Tail(s) /\ Tail(s)[i - 1] = s[i])
<1>1. Len(s) \in Nat /\ Len(s) # 0 /\ DOMAIN s = 1 .. Len(s)
  BY EmptySeq, LenProperties
<1>2. Tail(s) \in Seq(S) /\ Len(Tail(s)) = Len(s) - 1 /\ Head(s) = s[1] /\ \A i \in 1 .. Len(Tail(s)) : Tail(s)[i] = s[i + 1]
  BY HeadTailProperties
<1>3. DOMAIN Tail(s) = 1 .. Len(s) - 1
  BY <1>2, LenProperties
<1>4. \A i \in 1 .. Len(s) - 1 : i + 1 \in 1 .. Len(s)
  BY <1>1
<1>5. \A i \in 1 .. Len(s) : i = 1 \/ (i - 1 \in 1 .. Len(s) - 1 /\ (i - 1) + 1 = i)
  BY <1>1
<1> QED
  BY <1>1, <1>2, <1>3, <1>4, <1>5

\* The types of the frames of a prefix.
LEMMA PrefixTypes ==
    ASSUME TypeInv
    PROVE  /\ Len(prefix) \in Nat /\ DOMAIN prefix = 1 .. Len(prefix)
           /\ \A i \in DOMAIN prefix :
                 /\ prefix[i] \in ItemSet
                 /\ prefix[i].type \in {"prefill", "context", "source", "checkpoint"}
                 /\ prefix[i].type = "context" => prefix[i] \in ContextSet /\ prefix[i].key \in Facts /\ Key(prefix[i]) = prefix[i].key
                 /\ prefix[i].type = "source" =>
                       /\ prefix[i] \in SourceSet /\ prefix[i].frame \in FrameSet /\ prefix[i].frame.n \in Nat
                       /\ Key(prefix[i]) = <<prefix[i].frame.what, prefix[i].frame.of>>
                       /\ prefix[i].frame \in Sources
                 /\ prefix[i].type = "prefill" => prefix[i].roots \in SUBSET (Runs \cup {Agent})
<1>1. prefix \in Seq(ItemSet)
  BY DEF TypeInv
<1>2. Len(prefix) \in Nat /\ DOMAIN prefix = 1 .. Len(prefix) /\ \A i \in DOMAIN prefix : prefix[i] \in ItemSet
  BY <1>1, LenProperties, ElementOfSeq
<1>3. ASSUME NEW i \in DOMAIN prefix
      PROVE  /\ prefix[i].type \in {"prefill", "context", "source", "checkpoint"}
             /\ prefix[i].type = "context" => prefix[i] \in ContextSet /\ prefix[i].key \in Facts
             /\ prefix[i].type = "source" => prefix[i] \in SourceSet /\ prefix[i].frame \in FrameSet
             /\ prefix[i].type = "prefill" => prefix[i].roots \in SUBSET (Runs \cup {Agent})
  BY <1>2 DEF ItemSet, ContextSet, SourceSet
<1>4. \A f \in FrameSet : f.n \in Nat
  BY DEF FrameSet
<1> QED
  BY <1>2, <1>3, <1>4 DEF Key, Sources

\* What the next frame of a prefix is.
LEMMA NextIs ==
    ASSUME Inv, link = "open", prefix # <<>>
    PROVE  /\ Len(prefix) > 1 =>
                 \/ prefix[1].type = "prefill" /\ staged = <<>> /\ Replacing /\ 1 \notin Told
                 \/ prefix[1].type = "context" /\ ContextFits(prefix[1]) /\ 1 \in Told
                 \/ prefix[1].type = "source" /\ ~Replacing /\ staged = <<>> /\ SourceFits(prefix[1]) /\ 1 \in Told
           /\ Len(prefix) > 1 => \A i \in DOMAIN prefix : i # 1 => prefix[i].type # "prefill"
           /\ Len(prefix) = 1 => prefix[1] = Checkpoint(reader) /\ Told = {} /\ Sources = {}
           /\ Len(prefix) = 1 \/ Len(prefix) > 1
           /\ Len(prefix) \in Nat /\ Len(prefix) >= 1 /\ 1 \in DOMAIN prefix
           /\ batch = <<>> /\ mark = 0 /\ InBatch = {}
           /\ staged # <<>> => Len(staged) = 1 /\ Head(staged) = staged[1] /\ Coming = staged[1]
<1>1. TypeInv /\ ReaderInv /\ PrefixInv
  BY DEF Inv, OpenInv
<1>2. Len(prefix) \in Nat /\ Len(prefix) >= 1 /\ DOMAIN prefix = 1 .. Len(prefix)
  BY <1>1, EmptySeq, PrefixTypes DEF TypeInv
<1>3. batch = <<>> /\ mark = 0 /\ InBatch = {}
  BY <1>1 DEF PrefixInv, InBatch
<1>4. ASSUME staged # <<>> PROVE Len(staged) = 1 /\ Head(staged) = staged[1] /\ Coming = staged[1]
  BY <1>1, <1>4 DEF ReaderInv, Coming
<1>5. ASSUME NEW i \in DOMAIN prefix, i # Len(prefix)
      PROVE  \/ i = 1 /\ staged = <<>> /\ prefix[i].type = "prefill"
             \/ prefix[i].type = "context" /\ ContextFits(prefix[i])
             \/ prefix[i].type = "source" /\ ~Replacing /\ SourceFits(prefix[i])
  BY <1>1, <1>5 DEF PrefixInv
<1>6. prefix[Len(prefix)] = Checkpoint(reader) /\ Checkpoint(reader).type = "checkpoint"
  BY <1>1 DEF PrefixInv, Checkpoint
<1>7. ASSUME Len(prefix) > 1
      PROVE  \/ prefix[1].type = "prefill" /\ staged = <<>> /\ Replacing /\ 1 \notin Told
             \/ prefix[1].type = "context" /\ ContextFits(prefix[1]) /\ 1 \in Told
             \/ prefix[1].type = "source" /\ ~Replacing /\ staged = <<>> /\ SourceFits(prefix[1]) /\ 1 \in Told
  <2>1. 1 \in DOMAIN prefix /\ 1 # Len(prefix)
    BY <1>2, <1>7
  <2> QED
    BY <2>1, <1>5 DEF Told, Replacing
<1>8. ASSUME NEW i \in DOMAIN prefix, i # 1 PROVE prefix[i].type # "prefill"
  BY <1>5, <1>6, <1>8
<1>9. ASSUME Len(prefix) = 1 PROVE prefix[1] = Checkpoint(reader) /\ Told = {} /\ Sources = {}
  BY <1>2, <1>6, <1>9 DEF Told, Sources
<1> QED
  BY <1>2, <1>3, <1>4, <1>7, <1>8, <1>9

\* What a frame of the prefix leaves alone.
Steady == UNCHANGED <<source, records, link, lost, reader, mark, active, suppressed, missed, followed>>

\* A frame given to the client leaves records and stream as they are.
LEMMA SteadyIs ==
    ASSUME Steady
    PROVE  /\ epoch' = epoch /\ tail' = tail /\ floor' = floor /\ ring' = ring
           /\ accepted' = accepted /\ alive' = alive /\ at' = at /\ parts' = parts
           /\ Known' = Known /\ Ahead' = Ahead /\ InScope' = InScope /\ Unread' = Unread
           /\ OpenSteps' = OpenSteps /\ Ended' = Ended
  BY DEF Steady, source, records, Known, Ahead, InScope, Unread, OpenSteps, Ended, Happened

\* The rest of the prefix, when its first frame is not its checkpoint.
LEMMA RestKeeps ==
    ASSUME Inv, link = "open", prefix # <<>>, Len(prefix) > 1, Steady, prefix' = Tail(prefix), batch' = batch,
           Replacing <=> Replacing',
           \A k \in DOMAIN Coming : k[1] # "run_end" => k \in DOMAIN Coming',
           \A k \in Facts : k[2] \notin missed /\ k \in DOMAIN Coming /\ Coming[k] = at[k] /\ Known[k] # NoCursor =>
              k \in DOMAIN Coming' /\ Coming'[k] = at[k],
           \A k \in Facts : 1 \in Told /\ Key(prefix[1]) = k =>
              k \in DOMAIN Coming' /\ (Known[k] # NoCursor => Coming'[k] = at[k]),
           \A k \in DOMAIN Coming' : k \in DOMAIN Coming \/ (1 \in Told /\ Key(prefix[1]) = k),
           ~Replacing => /\ cursor'.e = epoch
                         /\ \A i \in DOMAIN prefix : i # 1 /\ prefix[i].type = "source" => cursor'.n < prefix[i].frame.n,
           Shows(view', Known, missed), Shows(Coming', Known, missed)
    PROVE  PrefixInv' /\ ReachInv' /\ prefix' # <<>>
<1>0. TypeInv /\ PrefixInv /\ ReachInv
  BY DEF Inv, OpenInv
<1>1. /\ epoch' = epoch /\ at' = at /\ Known' = Known /\ Ahead' = Ahead /\ InScope' = InScope /\ alive' = alive
      /\ reader' = reader /\ mark' = mark /\ suppressed' = suppressed /\ active' = active /\ missed' = missed
      /\ followed' = followed /\ lost' = lost
  BY SteadyIs DEF Steady
<1>2. /\ Len(prefix) \in Nat /\ DOMAIN prefix = 1 .. Len(prefix)
      /\ Len(prefix') = Len(prefix) - 1 /\ DOMAIN prefix' = 1 .. Len(prefix) - 1
      /\ \A i \in DOMAIN prefix' : i + 1 \in DOMAIN prefix /\ prefix'[i] = prefix[i + 1]
      /\ \A i \in DOMAIN prefix : i = 1 \/ (i - 1 \in DOMAIN prefix' /\ prefix'[i - 1] = prefix[i])
  BY <1>0, TailFacts DEF TypeInv
<1>3. /\ batch = <<>> /\ mark = 0 /\ InBatch = {} /\ InBatch' = {}
  BY NextIs DEF InBatch
<1>4. prefix' # <<>> /\ prefix'[Len(prefix')] = prefix[Len(prefix)]
  <2>1. Len(prefix) - 1 \in DOMAIN prefix' /\ (Len(prefix) - 1) + 1 = Len(prefix)
    BY <1>2
  <2>2. prefix' # <<>>
    <3>1. prefix' \in Seq(ItemSet)
      BY <1>0, TailFacts DEF TypeInv
    <3>2. Len(prefix') # 0
      BY <1>2
    <3> QED
      BY <3>1, <3>2, EmptySeq
  <2> QED
    BY <2>1, <2>2, <1>2
<1>5. /\ \A i \in Told' : i \in DOMAIN prefix' /\ i + 1 \in Told /\ prefix'[i] = prefix[i + 1]
      /\ \A i \in Told : i # 1 => i - 1 \in Told' /\ prefix'[i - 1] = prefix[i]
  BY <1>2 DEF Told
<1>6. ASSUME NEW i \in DOMAIN prefix', i # Len(prefix')
      PROVE  \/ prefix'[i].type = "context" /\ ContextFits(prefix[i])'
             \/ prefix'[i].type = "source" /\ ~Replacing' /\ SourceFits(prefix[i])'
  <2>1. i + 1 \in DOMAIN prefix /\ i + 1 # Len(prefix) /\ i + 1 # 1 /\ prefix'[i] = prefix[i + 1]
    BY <1>2, <1>6
  <2>2. \/ prefix[i + 1].type = "context" /\ ContextFits(prefix[i + 1])
        \/ prefix[i + 1].type = "source" /\ ~Replacing /\ SourceFits(prefix[i + 1])
    BY <2>1, <1>0 DEF PrefixInv
  <2>3. PICK x : x = prefix[i + 1]
    OBVIOUS
  <2>4. CASE x.type = "context" /\ ContextFits(x)
    <3>1. ContextFits(x)'
      BY <2>4, <1>1 DEF ContextFits
    <3> QED
      BY <3>1, <2>1, <2>3, <2>4 DEF ContextFits
  <2>5. CASE x.type = "source" /\ ~Replacing /\ SourceFits(x)
    <3>1. cursor'.e = epoch /\ cursor'.n < x.frame.n
      BY <2>1, <2>3, <2>5
    <3>2. Source(x.frame)' = Source(x.frame)
      BY <1>1 DEF Source, Cursor
    <3>3. SourceFits(x)'
      BY <3>1, <3>2, <2>5, <1>1 DEF SourceFits
    <3> QED
      BY <3>3, <2>1, <2>3, <2>5 DEF SourceFits, Source, Cursor
  <2> QED
    BY <2>2, <2>3, <2>4, <2>5
<1>7. ASSUME NEW i \in DOMAIN prefix', NEW j \in DOMAIN prefix', i < j, prefix'[i].type = "source", prefix'[j].type = "source"
      PROVE  prefix'[i].frame.n < prefix'[j].frame.n
  <2>1. i + 1 < j + 1
    BY <1>2, <1>7
  <2> QED
    BY <2>1, <1>0, <1>2, <1>7 DEF PrefixInv
<1>8. ASSUME NEW i \in Told', NEW k \in Above(Key(prefix'[i]))
      PROVE  k \in DOMAIN Coming' \/ \E j \in Told' : j < i /\ Key(prefix'[j]) = k
  <2>1. i + 1 \in Told /\ prefix'[i] = prefix[i + 1] /\ i \in DOMAIN prefix'
    BY <1>5
  <2>2. k \in DOMAIN Coming \/ \E j \in Told : j < i + 1 /\ Key(prefix[j]) = k
    BY <2>1, <1>0, <1>8 DEF PrefixInv
  <2>3. k[1] # "run_end"
    BY <1>8 DEF Above, Begin, StepBegin
  <2>4. CASE k \in DOMAIN Coming
    BY <2>3, <2>4
  <2>5. ASSUME NEW j \in Told, j < i + 1, Key(prefix[j]) = k, k \notin DOMAIN Coming
        PROVE  k \in DOMAIN Coming' \/ \E l \in Told' : l < i /\ Key(prefix'[l]) = k
    <3>1. j \in DOMAIN prefix
      BY DEF Told
    <3>2. CASE j = 1
      <4>1. prefix[1].type \in {"context", "source"}
        BY <3>2, <2>5 DEF Told
      <4>2. k \in Facts
        <5>1. CASE prefix[1].type = "context"
          BY <5>1, <3>1, <3>2, <2>5, <1>0, PrefixTypes
        <5>2. CASE prefix[1].type = "source"
          <6>1. prefix[1].frame \in FrameSet /\ k = <<prefix[1].frame.what, prefix[1].frame.of>>
            BY <5>2, <3>1, <3>2, <2>5, <1>0, PrefixTypes
          <6>2. k[1] \in Kinds /\ k[2] \in Runs
            <7>1. k[1] # "part"
              BY <1>8 DEF Above, Begin, StepBegin
            <7> QED
              BY <6>1, <7>1 DEF FrameSet
          <6> QED
            BY <6>1, <6>2, FactsAre
        <5> QED
          BY <4>1, <5>1, <5>2
      <4> QED
        BY <4>2, <3>2, <2>5
    <3>3. CASE j # 1
      <4>1. j - 1 \in Told' /\ prefix'[j - 1] = prefix[j]
        BY <3>3, <1>5
      <4>2. j - 1 < i
        BY <3>1, <2>1, <2>5, <1>2
      <4> QED
        BY <4>1, <4>2, <2>5
    <3> QED
      BY <3>2, <3>3
  <2> QED
    BY <2>2, <2>4, <2>5
<1>9. ASSUME NEW i \in Told', NEW j \in Told', NEW r \in Runs, Key(prefix'[i]) = End(r), Key(prefix'[j]) = Begin(r)
      PROVE  j < i
  <2>1. j + 1 < i + 1
    BY <1>0, <1>5, <1>9 DEF PrefixInv
  <2> QED
    BY <2>1, <1>2, <1>5
<1>10. PrefixInv'
  <2>1. prefix'[Len(prefix')] = Checkpoint(reader)'
    BY <1>0, <1>1, <1>4 DEF PrefixInv, Checkpoint, Cursor
  <2> QED
    BY <2>1, <1>1, <1>3, <1>6, <1>7, <1>8, <1>9 DEF PrefixInv
<1>11. ASSUME NEW k \in Facts, k[2] \in InScope \ missed, Known[k] # NoCursor PROVE Reaches(k)'
  <2>1. Reaches(k)
    BY <1>0, <1>11 DEF ReachInv
  <2>2. CASE k \in DOMAIN Coming /\ Coming[k] = at[k]
    BY <2>2, <1>1, <1>11 DEF Reaches
  <2>3. ASSUME NEW i \in Told, Key(prefix[i]) = k, prefix[i].type = "context" => Replacing PROVE Reaches(k)'
    <3>1. CASE i = 1
      BY <3>1, <2>3, <1>1, <1>11 DEF Reaches
    <3>2. CASE i # 1
      <4>1. i - 1 \in Told' /\ prefix'[i - 1] = prefix[i]
        BY <3>2, <1>5
      <4> QED
        BY <4>1, <2>3 DEF Reaches, Key
    <3> QED
      BY <3>1, <3>2
  <2> QED
    BY <2>1, <2>2, <2>3, <1>3 DEF Reaches
<1>12. ASSUME NEW k \in Due2' PROVE k \in Due2
  <2>1. CASE k \in DOMAIN Coming'
    BY <2>1, <1>12 DEF Due2
  <2>2. ASSUME NEW i \in Told', Key(prefix'[i]) = k PROVE k \in Due2
    BY <2>2, <1>5, <1>12 DEF Due2
  <2> QED
    BY <2>1, <2>2, <1>1, <1>3, <1>12 DEF Due2, Key
<1>13. ASSUME NEW k \in Due2, k[1] # "run_end" PROVE k \in Due2'
  <2>0. k \in Facts
    BY DEF Due2
  <2>1. CASE k \in DOMAIN Coming
    BY <2>0, <2>1, <1>13 DEF Due2
  <2>2. ASSUME NEW i \in Told, Key(prefix[i]) = k PROVE k \in Due2'
    <3>1. CASE i = 1
      BY <3>1, <2>0, <2>2 DEF Due2
    <3>2. CASE i # 1
      BY <3>2, <2>0, <2>2, <1>5 DEF Due2, Key
    <3> QED
      BY <3>1, <3>2
  <2> QED
    BY <2>0, <2>1, <2>2, <1>1, <1>3 DEF Due2
<1>14. ASSUME NEW k \in Due2', NEW j \in Above(k) PROVE j \in Due2'
  <2>1. j \in Due2
    BY <1>0, <1>12, <1>14 DEF ReachInv
  <2>2. j[1] # "run_end"
    BY <1>14 DEF Above, Begin, StepBegin
  <2> QED
    BY <2>1, <2>2, <1>13
<1>15. ASSUME NEW r \in alive \cap InScope, NEW k \in {Begin(r), StepBegin(r)}, at[k] # NoCursor PROVE k \in Due2'
  <2>1. k \in Due2
    BY <1>0, <1>15 DEF ReachInv
  <2>2. k[1] # "run_end"
    BY <1>15 DEF Begin, StepBegin
  <2> QED
    BY <2>1, <2>2, <1>13
<1>16. Shows(view', Known', missed') /\ Shows(Coming', Known', missed')
  BY <1>1
<1>17. ReachInv'
  BY <1>0, <1>1, <1>11, <1>14, <1>15, <1>16 DEF ReachInv
<1> QED
  BY <1>4, <1>10, <1>17

\* The beginning of a run is shown before its end is.
LEMMA BeginIsThere ==
    ASSUME TypeInv, ReachInv, NEW r \in Runs, r \in InScope \ missed, Begin(r) \in DOMAIN Coming,
           \A i \in Told : Key(prefix[i]) # Begin(r),
           \A f \in InBatch : <<f.what, f.of>> # Begin(r)
    PROVE  Coming[Begin(r)] = Known[Begin(r)]
<1>1. Begin(r) \in Facts /\ Begin(r)[2] = r
  BY FactsOf
<1>2. CASE Known[Begin(r)] = NoCursor
  BY <1>2 DEF ReachInv, Shows
<1>3. CASE Known[Begin(r)] # NoCursor
  <2>1. Reaches(Begin(r))
    BY <1>1, <1>3 DEF ReachInv
  <2> QED
    BY <2>1, <1>1, <1>3, KnownTypes DEF Reaches
<1> QED
  BY <1>2, <1>3

\* w is v with what is known of k, but for the ends of runs that are left out.
Adds(v, w, k) ==
    /\ k \in DOMAIN w /\ w[k] = Known[k] /\ DOMAIN w \subseteq DOMAIN v \cup {k}
    /\ \A j \in DOMAIN v : j # k /\ (j[1] = "run_end" => j[2] \notin missed) => j \in DOMAIN w /\ w[j] = v[j]

\* A view with one more fact agrees with what is known.
LEMMA KnownAdds ==
    ASSUME TypeInv, NEW v \in Views, NEW k \in Facts, Shows(v, Known, missed),
           k[1] # "run_begin" => Known[k] # NoCursor,
           k[1] = "run_end" /\ k[2] \notin missed /\ Begin(k[2]) \in DOMAIN v => v[Begin(k[2])] = Known[Begin(k[2])]
    PROVE  /\ Applied(v, k, Known[k]) \in Views /\ Shows(Applied(v, k, Known[k]), Known, missed)
           /\ Adds(v, Applied(v, k, Known[k]), k)
<1>1. PICK c : c = Known
  OBVIOUS
<1>2. /\ c \in [Facts -> CursorSet] /\ Shows(v, c, missed)
      /\ k[1] # "run_begin" => c[k] # NoCursor
      /\ k[1] = "run_end" /\ k[2] \notin missed /\ Begin(k[2]) \in DOMAIN v => v[Begin(k[2])] = c[Begin(k[2])]
  BY <1>1, KnownTypes
<1>3. /\ Applied(v, k, c[k]) \in Views /\ Shows(Applied(v, k, c[k]), c, missed)
      /\ k \in DOMAIN Applied(v, k, c[k]) /\ Applied(v, k, c[k])[k] = c[k]
      /\ DOMAIN Applied(v, k, c[k]) \subseteq DOMAIN v \cup {k}
  BY <1>2, AppliedFacts
<1>4. ASSUME NEW j \in DOMAIN v, j # k, j[1] = "run_end" => j[2] \notin missed
      PROVE  j \in DOMAIN Applied(v, k, c[k]) /\ Applied(v, k, c[k])[j] = v[j]
  <2>1. \A i \in DOMAIN v : i # k /\ (i[1] = "run_end" => i[2] \notin missed) =>
           i \in DOMAIN Applied(v, k, c[k]) /\ Applied(v, k, c[k])[i] = v[i]
    BY <1>2, AppliedFacts
  <2> QED
    BY <2>1, <1>4
<1> QED
  BY <1>1, <1>3, <1>4 DEF Adds

\* A fact is added to what is shown.
LEMMA ViewAdds ==
    ASSUME Inv, link = "open", UNCHANGED <<source, records, missed, followed>>, staged = <<>>, ~Replacing,
           NEW k \in Facts, view' = Applied(view, k, Known[k]),
           k[1] # "run_begin" => Known[k] # NoCursor,
           k[1] = "run_end" /\ k[2] \notin missed /\ Begin(k[2]) \in DOMAIN view => view[Begin(k[2])] = Known[Begin(k[2])],
           Above(k) \subseteq DOMAIN view,
           \A j \in Facts : j[2] \in InScope \ missed /\ Passed(at[j])' =>
              Known[j] = at[j] /\ (j = k \/ (j \in DOMAIN view /\ view[j] = at[j])),
           cursor' # NoCursor => cursor'.e \in 1 .. epoch,
           cursor'.e = epoch => cursor'.n <= tail,
           \A r \in Runs : heard'[r] <= parts[r]
    PROVE  /\ ViewInv' /\ view' \in Views /\ Shows(view', Known, missed)
           /\ k \in DOMAIN view' /\ view'[k] = Known[k] /\ DOMAIN view' \subseteq DOMAIN view \cup {k}
           /\ \A j \in DOMAIN view : j # k /\ (j[1] = "run_end" => j[2] \notin missed) => j \in DOMAIN view' /\ view'[j] = view[j]
<1>0. TypeInv /\ OrderInv /\ ViewInv /\ ReachInv
  BY DEF Inv, OpenInv
<1>1. Shows(view, Known, missed) /\ Known \in [Facts -> CursorSet] /\ view \in Views
  BY <1>0, KnownTypes DEF ReachInv, TypeInv
<1>2. /\ view' \in Views /\ Shows(view', Known, missed)
      /\ k \in DOMAIN view' /\ view'[k] = Known[k] /\ DOMAIN view' \subseteq DOMAIN view \cup {k}
      /\ \A j \in DOMAIN view : j # k /\ (j[1] = "run_end" => j[2] \notin missed) => j \in DOMAIN view' /\ view'[j] = view[j]
  <2>1. Applied(view, k, Known[k]) \in Views /\ Shows(Applied(view, k, Known[k]), Known, missed)
        /\ Adds(view, Applied(view, k, Known[k]), k)
    BY <1>0, <1>1, KnownAdds
  <2> QED
    BY <2>1 DEF Adds
<1>3. Shows(view', at, missed)
  BY <1>0, <1>2, KnownShows
<1>4. /\ epoch' = epoch /\ tail' = tail /\ at' = at /\ parts' = parts /\ accepted' = accepted
      /\ missed' = missed /\ followed' = followed
  BY DEF source, records
<1>5. ViewIsNested'
  <2> SUFFICES ASSUME NEW j \in DOMAIN view', j[1] \in {"step_begin", "step_end"}
               PROVE  Begin(j[2]) \in DOMAIN view' /\ StepBegin(j[2]) \in DOMAIN view'
    BY DEF ViewIsNested, Begin, StepBegin
  <2>1. j \in Facts /\ j = <<j[1], j[2]>> /\ j[2] \in Runs
    BY <1>2, FactsAre DEF Views
  <2>2. \A i \in DOMAIN view : i[1] # "run_end" => i \in DOMAIN view'
    BY <1>2
  <2>3. Begin(j[2])[1] # "run_end" /\ StepBegin(j[2])[1] # "run_end"
    BY DEF Begin, StepBegin
  <2>4. CASE j = k
    <3>1. Begin(j[2]) \in DOMAIN view
      BY <2>4 DEF Above
    <3>2. StepBegin(j[2]) \in DOMAIN view'
      <4>1. CASE j[1] = "step_begin"
        BY <4>1, <2>1 DEF StepBegin
      <4>2. CASE j[1] = "step_end"
        <5>1. StepBegin(j[2]) \in DOMAIN view
          BY <2>4, <4>2 DEF Above
        <5> QED
          BY <5>1, <2>2, <2>3
      <4> QED
        BY <4>1, <4>2
    <3> QED
      BY <3>1, <3>2, <2>2, <2>3
  <2>5. CASE j # k
    <3>1. j \in DOMAIN view
      BY <2>5, <1>2
    <3>2. Begin(j[2]) \in DOMAIN view /\ StepBegin(j[2]) \in DOMAIN view
      BY <3>1, <1>0 DEF ViewInv, ViewIsNested, Begin, StepBegin
    <3> QED
      BY <3>2, <2>2, <2>3
  <2> QED
    BY <2>4, <2>5
<1>6. CursorIsReflected'
  <2> SUFFICES ASSUME NEW j \in Facts, j[2] \in InScope \ missed, Passed(at[j])'
               PROVE  j \in DOMAIN view' /\ view'[j] = at[j]
    BY <1>4 DEF CursorIsReflected, InScope
  <2>1. Known[j] = at[j] /\ (j = k \/ (j \in DOMAIN view /\ view[j] = at[j]))
    OBVIOUS
  <2> QED
    BY <2>1, <1>2
<1>7. missed' \subseteq Ended' /\ Shows(view, at, missed)'
  BY <1>0, <1>3, <1>4 DEF ViewInv, Ended, Happened, Shows
<1>8. ViewInv'
  BY <1>0, <1>4, <1>5, <1>6, <1>7 DEF ViewInv
<1> QED
  BY <1>2, <1>8

\* Nothing but what is sent of the stream changes what parts are awaited.
LEMMA PartsSteady ==
    ASSUME TypeInv, PartsInv, Steady, heard' = heard, InBatch' \subseteq InBatch,
           \A r \in Runs : Awaited(r)' = Awaited(r)
    PROVE  PartsInv'
<1>1. /\ Known' = Known /\ InScope' = InScope /\ OpenSteps' = OpenSteps /\ parts' = parts
      /\ suppressed' = suppressed /\ lost' = lost
  BY SteadyIs DEF Steady
<1>2. \A r \in suppressed' : Known'[StepBegin(r)] # NoCursor /\ \A f \in InBatch' : <<f.what, f.of>> # StepBegin(r)
  BY <1>1 DEF PartsInv
<1>3. ASSUME ~lost', NEW r \in InScope' \ suppressed'
      PROVE  /\ \A f \in Awaited(r)' : f.part > heard'[r]
             /\ r \in OpenSteps' \/ Awaited(r)' # {} =>
                  \A p \in heard'[r] + 1 .. parts'[r] : \E f \in Awaited(r)' : f.part = p
  <2>1. r \in Runs
    BY <1>1, <1>3 DEF InScope, TypeInv
  <2>2. Awaited(r)' = Awaited(r)
    BY <2>1
  <2>3. /\ \A f \in Awaited(r) : f.part > heard[r]
        /\ r \in OpenSteps \/ Awaited(r) # {} =>
              \A p \in heard[r] + 1 .. parts[r] : \E f \in Awaited(r) : f.part = p
    BY <1>1, <1>3 DEF PartsInv
  <2> QED
    BY <2>2, <2>3, <1>1
<1> QED
  BY <1>2, <1>3 DEF PartsInv

\* The first of the awaited parts is given to the client.
LEMMA PartTaken ==
    ASSUME TypeInv, FramesInv, PartsInv, ViewInv, UNCHANGED <<source, records, reader, suppressed, lost, followed>>, ~lost,
           NEW f \in FrameSet, f \in Sources \cup InBatch, f.what = "part", f.of \in InScope \ suppressed,
           \A g \in Awaited(f.of) : f.n <= g.n,
           InBatch' \subseteq InBatch,
           \A r \in Runs : Awaited(r)' = Awaited(r) \ {f},
           heard' = [heard EXCEPT ![f.of] = f.part]
    PROVE  /\ PartsInv' /\ f.part = heard[f.of] + 1
           /\ heard' \in [Runs -> Nat] /\ \A r \in Runs : heard'[r] <= parts[r]
<1>1. /\ Known' = Known /\ InScope' = InScope /\ OpenSteps' = OpenSteps /\ parts' = parts
      /\ suppressed' = suppressed /\ lost' = lost /\ Unread' = Unread
  BY DEF source, records, Known, InScope, OpenSteps, Happened, Unread
<1>2. /\ f.n \in Nat /\ f.of \in Runs /\ f.part \in Nat
      /\ heard \in [Runs -> Nat] /\ parts \in [Runs -> Nat]
  BY DEF FrameSet, TypeInv
<1>3. f \in Awaited(f.of) /\ f \in Frames
  BY DEF Awaited, Frames
<1>4. FrameFits(f) /\ f.part \in 1 .. parts[f.of]
  BY <1>3 DEF FramesInv, FrameFits
<1>5. \A r \in Runs : \A g \in Awaited(r) : g \in Frames /\ g.what = "part" /\ g.of = r /\ g.n \in Nat /\ g.part \in Nat
  <2>1. \A r \in Runs : \A g \in Awaited(r) : g \in Frames /\ g.what = "part" /\ g.of = r
    BY DEF Awaited, Frames, Unread
  <2> QED
    BY <2>1, FramesTypes
<1>6. /\ \A g \in Awaited(f.of) : g.part > heard[f.of]
      /\ \A p \in heard[f.of] + 1 .. parts[f.of] : \E g \in Awaited(f.of) : g.part = p
  BY <1>3 DEF PartsInv
<1>7. ASSUME NEW g \in Awaited(f.of), g.part <= f.part PROVE g = f
  <2>1. g.n <= f.n
    BY <1>2, <1>3, <1>5, <1>7 DEF FramesInv
  <2>2. g.n = f.n
    BY <2>1, <1>2, <1>5
  <2> QED
    BY <2>2, <1>2, <1>3, <1>5 DEF FramesInv
<1>8. f.part = heard[f.of] + 1
  <2>1. f.part > heard[f.of] /\ heard[f.of] \in Nat /\ parts[f.of] \in Nat
    BY <1>2, <1>3, <1>6
  <2>2. heard[f.of] + 1 \in heard[f.of] + 1 .. parts[f.of]
    BY <2>1, <1>2, <1>4
  <2>3. PICK g \in Awaited(f.of) : g.part = heard[f.of] + 1
    BY <2>2, <1>6
  <2>4. g.part <= f.part
    BY <2>1, <2>3, <1>2
  <2> QED
    BY <2>3, <2>4, <1>7
<1>9. heard' \in [Runs -> Nat] /\ heard'[f.of] = f.part /\ \A r \in Runs : r # f.of => heard'[r] = heard[r]
  BY <1>2
<1>10. ASSUME NEW r \in Runs PROVE heard'[r] <= parts[r]
  <2>1. heard[r] <= parts[r]
    BY DEF ViewInv
  <2>2. f.part <= parts[f.of]
    BY <1>2, <1>4
  <2> QED
    BY <2>1, <2>2, <1>9
<1>11. \A r \in suppressed' : Known'[StepBegin(r)] # NoCursor /\ \A g \in InBatch' : <<g.what, g.of>> # StepBegin(r)
  BY <1>1 DEF PartsInv
<1>12. ASSUME NEW r \in InScope' \ suppressed'
       PROVE  /\ \A g \in Awaited(r)' : g.part > heard'[r]
              /\ r \in OpenSteps' \/ Awaited(r)' # {} =>
                   \A p \in heard'[r] + 1 .. parts'[r] : \E g \in Awaited(r)' : g.part = p
  <2>0. r \in Runs
    BY <1>1, <1>12 DEF InScope, TypeInv
  <2>1. /\ \A g \in Awaited(r) : g.part > heard[r]
        /\ r \in OpenSteps \/ Awaited(r) # {} =>
              \A p \in heard[r] + 1 .. parts[r] : \E g \in Awaited(r) : g.part = p
    BY <1>1, <1>12 DEF PartsInv
  <2>2. Awaited(r)' = Awaited(r) \ {f}
    BY <2>0
  <2>3. CASE r # f.of
    <3>1. f \notin Awaited(r)
      BY <2>3 DEF Awaited
    <3> QED
      BY <3>1, <2>0, <2>1, <2>2, <2>3, <1>1, <1>9
  <2>4. CASE r = f.of
    <3>1. ASSUME NEW g \in Awaited(r)' PROVE g.part > f.part
      <4>1. g \in Awaited(f.of) /\ g # f
        BY <2>2, <2>4, <3>1
      <4> QED
        BY <4>1, <1>2, <1>5, <1>7
    <3>2. ASSUME NEW p \in f.part + 1 .. parts[f.of] PROVE \E g \in Awaited(r)' : g.part = p
      <4>1. p \in heard[f.of] + 1 .. parts[f.of] /\ p # f.part
        BY <1>2, <1>8, <3>2
      <4>2. PICK g \in Awaited(f.of) : g.part = p
        BY <4>1, <1>6
      <4> QED
        BY <4>1, <4>2, <2>2, <2>4
    <3> QED
      BY <3>1, <3>2, <2>4, <1>1, <1>9
  <2> QED
    BY <2>3, <2>4
<1>13. PartsInv'
  BY <1>11, <1>12 DEF PartsInv
<1> QED
  BY <1>8, <1>9, <1>10, <1>13

\* What the rest of a prefix still tells.
LEMMA PrefixRest ==
    ASSUME TypeInv, prefix # <<>>, prefix' = Tail(prefix), batch' = batch, ring' = ring
    PROVE  /\ prefix' \in Seq(ItemSet) /\ InBatch' = InBatch /\ Sources' \subseteq Sources /\ Frames' \subseteq Frames
           /\ \A f \in Sources : f \in Sources' \/ (prefix[1].type = "source" /\ f = prefix[1].frame)
           /\ \A f \in Sources' : \E i \in DOMAIN prefix : i # 1 /\ prefix[i].type = "source" /\ prefix[i].frame = f
<1>1. /\ prefix' \in Seq(ItemSet) /\ DOMAIN prefix' = 1 .. Len(prefix) - 1 /\ Len(prefix) \in Nat
      /\ \A i \in DOMAIN prefix' : i + 1 \in DOMAIN prefix /\ prefix'[i] = prefix[i + 1]
      /\ \A i \in DOMAIN prefix : i = 1 \/ (i - 1 \in DOMAIN prefix' /\ prefix'[i - 1] = prefix[i])
  BY TailFacts DEF TypeInv
<1>2. InBatch' = InBatch
  BY DEF InBatch
<1>3. ASSUME NEW f \in Sources'
      PROVE  \E i \in DOMAIN prefix : i # 1 /\ prefix[i].type = "source" /\ prefix[i].frame = f
  <2>1. PICK i \in DOMAIN prefix' : prefix'[i].type = "source" /\ f = prefix'[i].frame
    BY <1>3 DEF Sources
  <2>2. i + 1 \in DOMAIN prefix /\ i + 1 # 1 /\ prefix'[i] = prefix[i + 1]
    BY <1>1
  <2> QED
    BY <2>1, <2>2
<1>4. Sources' \subseteq Sources
  BY <1>3 DEF Sources
<1>5. ASSUME NEW f \in Sources PROVE f \in Sources' \/ (prefix[1].type = "source" /\ f = prefix[1].frame)
  <2>1. PICK i \in DOMAIN prefix : prefix[i].type = "source" /\ f = prefix[i].frame
    BY <1>5 DEF Sources
  <2>2. CASE i = 1
    BY <2>1, <2>2
  <2>3. CASE i # 1
    <3>1. i - 1 \in DOMAIN prefix' /\ prefix'[i - 1] = prefix[i]
      BY <2>3, <1>1
    <3> QED
      BY <2>1, <3>1 DEF Sources
  <2> QED
    BY <2>2, <2>3
<1> QED
  BY <1>1, <1>2, <1>3, <1>4, <1>5 DEF Frames

\* What giving the client a frame of the prefix leaves as it is.
LEMMA SendPrefixIs ==
    ASSUME Inv, SendPrefix
    PROVE  /\ link = "open" /\ ~lost /\ prefix # <<>> /\ Feed(prefix[1]) /\ prefix' = Tail(prefix) /\ batch' = batch
           /\ Steady /\ link' = "open" /\ UNCHANGED <<source, records, missed, followed>>
           /\ prefix' \in Seq(ItemSet) /\ RecordsInv' /\ OrderInv' /\ FramesInv' /\ BatchInv'
           /\ Len(prefix) > 1 => prefix' # <<>> /\ prefix'[1].type # "prefill" /\ prefix'[1] = prefix[2]
<1>0. TypeInv
  BY DEF Inv
<1>1. /\ link = "open" /\ ~lost /\ prefix # <<>> /\ Feed(Head(prefix)) /\ prefix' = Tail(prefix)
      /\ UNCHANGED <<source, records, link, reader, lost, batch, mark, active, suppressed, missed, cuts, followed>>
  BY DEF SendPrefix
<1>2. Head(prefix) = prefix[1]
  BY <1>0, <1>1, TailFacts DEF TypeInv
<1>3. Steady /\ ring' = ring
  BY <1>1 DEF Steady, source
<1>4. prefix' \in Seq(ItemSet) /\ Frames' \subseteq Frames
  BY <1>0, <1>1, <1>3, PrefixRest
<1>5. RecordsInv' /\ OrderInv' /\ FramesInv'
  BY <1>1, <1>4, SameRecords
<1>6. batch = <<>>
  BY <1>1, NextIs
<1>7. BatchInv'
  BY <1>1, <1>6 DEF BatchInv
<1>8. ASSUME Len(prefix) > 1 PROVE prefix' # <<>> /\ prefix'[1].type # "prefill" /\ prefix'[1] = prefix[2]
  <2>1. /\ DOMAIN prefix' = 1 .. Len(prefix) - 1 /\ Len(prefix) \in Nat /\ DOMAIN prefix = 1 .. Len(prefix)
        /\ Len(prefix') = Len(prefix) - 1
        /\ \A i \in DOMAIN prefix' : prefix'[i] = prefix[i + 1]
    BY <1>0, <1>1, TailFacts DEF TypeInv
  <2>2. 1 \in DOMAIN prefix' /\ 2 \in DOMAIN prefix /\ prefix'[1] = prefix[2] /\ Len(prefix') # 0
    BY <2>1, <1>8
  <2>3. prefix[2].type # "prefill"
    BY <2>2, <1>1, <1>8, NextIs
  <2> QED
    BY <2>2, <2>3, <1>4, EmptySeq
<1> QED
  BY <1>1, <1>2, <1>3, <1>4, <1>5, <1>7, <1>8

\* _replace keeps, unchanged, the trees that are not replaced.
LEMMA ReplacedIs ==
    ASSUME TypeInv, NEW roots
    PROVE  /\ Replaced(roots) \in Views /\ DOMAIN Replaced(roots) \subseteq DOMAIN view
           /\ \A k \in DOMAIN view :
                 ~(k[2] \in roots \/ (Agent \in roots /\ Begin(k[2]) \in DOMAIN view)) => k \in DOMAIN Replaced(roots)
           /\ \A k \in DOMAIN Replaced(roots) :
                 /\ Replaced(roots)[k] = view[k]
                 /\ ~(k[2] \in roots \/ (Agent \in roots /\ Begin(k[2]) \in DOMAIN view))
<1> DEFINE gone == {k \in DOMAIN view : k[2] \in roots \/ (Agent \in roots /\ Begin(k[2]) \in DOMAIN view)}
<1>1. view \in Views /\ DOMAIN view \subseteq Facts
  BY DEF TypeInv, Views
<1>2. Replaced(roots) = [k \in DOMAIN view \ gone |-> view[k]]
  BY DEF Replaced, Begin
<1>3. \A k \in DOMAIN view : view[k] \in CursorSet
  BY <1>1 DEF Views
<1> HIDE DEF gone
<1>4. [k \in DOMAIN view \ gone |-> view[k]] \in [DOMAIN view \ gone -> CursorSet]
  BY <1>3
<1>5. DOMAIN view \ gone \in SUBSET Facts
  BY <1>1
<1>6. Replaced(roots) \in Views
  BY <1>2, <1>4, <1>5 DEF Views
<1> QED
  BY <1>2, <1>6 DEF gone

\* The frame that announces a replacement keeps the invariant.
LEMMA PrefillKeeps ==
    ASSUME Inv, SendPrefix, prefix[1].type = "prefill"
    PROVE  Inv' /\ heard' = heard
<1>0. TypeInv /\ ViewInv /\ LinkInv /\ OpenInv /\ ReachInv
  BY SendPrefixIs DEF Inv, OpenInv
<1>1. /\ link = "open" /\ ~lost /\ prefix # <<>> /\ Feed(prefix[1]) /\ prefix' = Tail(prefix) /\ batch' = batch
      /\ Steady /\ link' = "open" /\ UNCHANGED <<source, records, missed, followed>>
      /\ prefix' \in Seq(ItemSet) /\ RecordsInv' /\ OrderInv' /\ FramesInv' /\ BatchInv'
  BY SendPrefixIs
<1>2. Len(prefix) > 1 /\ staged = <<>> /\ Replacing /\ 1 \notin Told /\ 1 \in DOMAIN prefix
  <2>1. Len(prefix) # 1
    BY <1>1, NextIs DEF Checkpoint
  <2>4. (Len(prefix) = 1 \/ Len(prefix) > 1) /\ 1 \in DOMAIN prefix
    BY <1>1, NextIs
  <2>2. Len(prefix) > 1
    BY <2>1, <2>4
  <2>3. \/ prefix[1].type = "prefill" /\ staged = <<>> /\ Replacing /\ 1 \notin Told
        \/ prefix[1].type = "context"
        \/ prefix[1].type = "source"
    BY <2>2, <1>1, NextIs
  <2> QED
    BY <2>2, <2>3
<1>3. staged' = <<Replaced(prefix[1].roots)>> /\ cursor' = cursor /\ view' = view /\ heard' = heard
  BY <1>1 DEF Feed, FeedReplacement, FeedEvent
<1>4. Coming = Replaced(prefix[1].roots) /\ Coming' = Coming /\ Replacing'
  BY <1>2, <1>3 DEF Coming, Replacing
<1>5. staged' \in Seq(Views) /\ Len(staged') = 1
  BY <1>0, <1>3, ReplacedIs
<1>6. PrefixInv' /\ ReachInv' /\ prefix' # <<>>
  <2>1. Shows(view', Known, missed) /\ Shows(Coming', Known, missed)
    BY <1>0, <1>3, <1>4 DEF ReachInv
  <2> QED
    BY <2>1, <1>1, <1>2, <1>4, RestKeeps
<1>7. ViewInv'
  BY <1>0, <1>1, <1>3, SameView DEF TypeInv, ViewInv
<1>8. TypeInv'
  BY <1>0, <1>1, <1>3, <1>5 DEF TypeInv, Steady, source, records
<1>9. LinkInv' /\ ReaderInv'
  BY <1>0, <1>1, <1>3, <1>5, <1>6 DEF LinkInv, EndIsComplete, OpenInv, ReaderInv, Steady, source, records
<1>10. PartsInv'
  <2>1. Sources' = Sources /\ InBatch' = InBatch
    BY <1>0, <1>1, PrefixRest DEF source
  <2>2. \A r \in Runs : Awaited(r)' = Awaited(r)
    BY <2>1, <1>1, SteadyIs DEF Awaited
  <2> QED
    BY <2>1, <2>2, <1>0, <1>1, <1>3, PartsSteady DEF OpenInv
<1> QED
  BY <1>1, <1>3, <1>6, <1>7, <1>8, <1>9, <1>10 DEF Inv, OpenInv

\* What comes next may be shown.
LEMMA NextFollows ==
    ASSUME Inv, link = "open", prefix # <<>>, 1 \in Told, NEW k \in Facts, Key(prefix[1]) = k, k[2] \in InScope
    PROVE  /\ Above(k) \subseteq DOMAIN Coming
           /\ k[1] = "run_end" /\ k[2] \notin missed /\ Begin(k[2]) \in DOMAIN Coming => Coming[Begin(k[2])] = Known[Begin(k[2])]
<1>0. TypeInv /\ PrefixInv /\ ReachInv /\ InBatch = {}
  BY NextIs DEF Inv, OpenInv
<1>1. \A i \in Told : i \in Nat /\ i >= 1
  BY <1>0, PrefixTypes DEF Told
<1>2. Above(k) \subseteq DOMAIN Coming
  <2> SUFFICES ASSUME NEW j \in Above(k), j \notin DOMAIN Coming PROVE FALSE
    OBVIOUS
  <2>1. PICK i \in Told : i < 1 /\ Key(prefix[i]) = j
    BY <1>0 DEF PrefixInv
  <2> QED
    BY <2>1, <1>1
<1>3. ASSUME k[1] = "run_end", k[2] \notin missed, Begin(k[2]) \in DOMAIN Coming
      PROVE  Coming[Begin(k[2])] = Known[Begin(k[2])]
  <2>0. k[2] \in Runs /\ k = End(k[2])
    BY <1>3, FactsAre DEF End
  <2>1. ASSUME NEW i \in Told, Key(prefix[i]) = Begin(k[2]) PROVE FALSE
    <3>1. i < 1
      BY <2>0, <2>1, <1>0 DEF PrefixInv
    <3> QED
      BY <3>1, <1>1
  <2>2. \A f \in InBatch : <<f.what, f.of>> # Begin(k[2])
    BY <1>0
  <2> QED
    BY <2>0, <2>1, <2>2, <1>0, <1>3, BeginIsThere
<1> QED
  BY <1>2, <1>3

(* A fact that is given to the client, in its view or its candidate,       *)
(* leaves the rest of the prefix as it should be.                          *)
LEMMA RestAdds ==
    ASSUME Inv, link = "open", prefix # <<>>, Len(prefix) > 1, Steady, prefix' = Tail(prefix), batch' = batch,
           Replacing <=> Replacing', 1 \in Told, NEW k \in Facts, Key(prefix[1]) = k, Adds(Coming, Coming', k),
           ~Replacing => /\ cursor'.e = epoch
                         /\ \A i \in DOMAIN prefix : i # 1 /\ prefix[i].type = "source" => cursor'.n < prefix[i].frame.n,
           Shows(view', Known, missed), Shows(Coming', Known, missed)
    PROVE  PrefixInv' /\ ReachInv' /\ prefix' # <<>>
<1>0. TypeInv
  BY DEF Inv
<1>1. \A j \in DOMAIN Coming : j[1] # "run_end" => j \in DOMAIN Coming'
  BY DEF Adds
<1>2. ASSUME NEW j \in Facts, j[2] \notin missed, j \in DOMAIN Coming, Coming[j] = at[j], Known[j] # NoCursor
      PROVE  j \in DOMAIN Coming' /\ Coming'[j] = at[j]
  <2>1. Known[j] = at[j]
    BY <1>0, <1>2, KnownTypes
  <2> QED
    BY <2>1, <1>2 DEF Adds
<1>3. ASSUME NEW j \in Facts, 1 \in Told, Key(prefix[1]) = j
      PROVE  j \in DOMAIN Coming' /\ (Known[j] # NoCursor => Coming'[j] = at[j])
  BY <1>0, <1>3, KnownTypes DEF Adds
<1>4. \A j \in DOMAIN Coming' : j \in DOMAIN Coming \/ (1 \in Told /\ Key(prefix[1]) = j)
  BY DEF Adds
<1> QED
  BY <1>1, <1>2, <1>3, <1>4, RestKeeps

\* A context, while a replacement is received.
LEMMA StagedContextKeeps ==
    ASSUME Inv, SendPrefix, prefix[1].type = "context", staged # <<>>
    PROVE  Inv' /\ heard' = heard
<1> DEFINE k == prefix[1].key
<1>1. /\ link = "open" /\ ~lost /\ prefix # <<>> /\ Feed(prefix[1]) /\ prefix' = Tail(prefix) /\ batch' = batch
      /\ Steady /\ link' = "open" /\ UNCHANGED <<source, records, missed, followed>>
      /\ prefix' \in Seq(ItemSet) /\ RecordsInv' /\ OrderInv' /\ FramesInv' /\ BatchInv'
  BY SendPrefixIs
<1>0. TypeInv /\ ViewInv /\ LinkInv /\ OpenInv /\ ReachInv
  BY <1>1 DEF Inv, OpenInv
<1>2. Len(prefix) > 1 /\ ContextFits(prefix[1]) /\ 1 \in Told /\ 1 \in DOMAIN prefix
  <2>1. Len(prefix) # 1
    BY <1>1, NextIs DEF Checkpoint
  <2>2. Len(prefix) > 1 /\ 1 \in DOMAIN prefix
    BY <2>1, <1>1, NextIs
  <2>3. \/ prefix[1].type = "prefill"
        \/ ContextFits(prefix[1]) /\ 1 \in Told
        \/ prefix[1].type = "source"
    BY <2>2, <1>1, NextIs
  <2> QED
    BY <2>2, <2>3
<1>3. staged' = <<Applied(Head(staged), k, prefix[1].at)>> /\ cursor' = cursor /\ view' = view /\ heard' = heard
  BY <1>1 DEF Feed, FeedReplacement, FeedEvent
<1>4. /\ k \in Facts /\ k[2] \in InScope /\ prefix[1].at = Known[k] /\ Key(prefix[1]) = k
      /\ k[1] # "run_begin" => Known[k] # NoCursor
  <2>1. prefix[1] = [type |-> "context", key |-> k, at |-> Known[k]]
    BY <1>2 DEF ContextFits
  <2>2. prefix[1].at = Known[k]
    BY <2>1
  <2> QED
    BY <2>2, <1>2 DEF ContextFits, Key
<1>5. Coming = Head(staged) /\ Coming \in Views /\ Replacing
  <2>1. Len(staged) = 1 /\ Head(staged) = staged[1] /\ Coming = staged[1]
    BY <1>1, NextIs
  <2>2. staged[1] \in Views
    BY <2>1, <1>0, ElementOfSeq DEF TypeInv
  <2> QED
    BY <2>1, <2>2 DEF Replacing
<1> HIDE DEF k
<1>6. Applied(Coming, k, Known[k]) \in Views /\ Shows(Applied(Coming, k, Known[k]), Known, missed)
      /\ Adds(Coming, Applied(Coming, k, Known[k]), k)
  <2>0. /\ Shows(Coming, Known, missed) /\ Known \in [Facts -> CursorSet]
        /\ k[1] = "run_end" /\ k[2] \notin missed /\ Begin(k[2]) \in DOMAIN Coming => Coming[Begin(k[2])] = Known[Begin(k[2])]
    BY <1>0, <1>1, <1>2, <1>4, NextFollows, KnownTypes DEF ReachInv
  <2>1. PICK v \in Views, x \in Facts : v = Coming /\ x = k
    BY <1>4, <1>5
  <2>2. /\ Shows(v, Known, missed)
        /\ x[1] # "run_begin" => Known[x] # NoCursor
        /\ x[1] = "run_end" /\ x[2] \notin missed /\ Begin(x[2]) \in DOMAIN v => v[Begin(x[2])] = Known[Begin(x[2])]
    BY <2>0, <2>1, <1>4
  <2>3. Applied(v, x, Known[x]) \in Views /\ Shows(Applied(v, x, Known[x]), Known, missed) /\ Adds(v, Applied(v, x, Known[x]), x)
    BY <2>2, <1>0, KnownAdds
  <2> QED
    BY <2>1, <2>3
<1>7. /\ Coming' = Applied(Coming, k, Known[k]) /\ Replacing' /\ staged' = <<Coming'>>
  BY <1>3, <1>4, <1>5 DEF Coming, Replacing
<1>8. PrefixInv' /\ ReachInv' /\ prefix' # <<>>
  <2>1. Shows(view', Known, missed)
    BY <1>0, <1>3 DEF ReachInv
  <2> QED
    BY <2>1, <1>1, <1>2, <1>4, <1>5, <1>6, <1>7, RestAdds
<1>9. ViewInv'
  BY <1>0, <1>1, <1>3, SameView DEF TypeInv, ViewInv
<1>10. staged' \in Seq(Views) /\ Len(staged') = 1
  BY <1>6, <1>7
<1>11. TypeInv'
  BY <1>0, <1>1, <1>3, <1>10 DEF TypeInv, Steady, source, records
<1>12. LinkInv' /\ ReaderInv'
  BY <1>0, <1>1, <1>3, <1>8, <1>10 DEF LinkInv, EndIsComplete, OpenInv, ReaderInv, Steady, source, records
<1>13. PartsInv'
  <2>1. Sources' = Sources /\ InBatch' = InBatch
    BY <1>0, <1>1, PrefixRest DEF source
  <2>2. \A r \in Runs : Awaited(r)' = Awaited(r)
    BY <2>1, <1>1, SteadyIs DEF Awaited
  <2> QED
    BY <2>1, <2>2, <1>0, <1>1, <1>3, PartsSteady DEF OpenInv
<1> QED
  BY <1>1, <1>3, <1>8, <1>9, <1>11, <1>12, <1>13 DEF Inv, OpenInv

\* What is at or before a position of the client is known to the reader.
LEMMA PassedIsKnown ==
    ASSUME TypeInv, RecordsInv, NEW c \in CursorSet, c # NoCursor => c.e \in 1 .. epoch,
           c.e = epoch => c.n <= reader, NEW j \in Facts, at[j] # NoCursor,
           at[j].e < c.e \/ (at[j].e = c.e /\ at[j].n <= c.n)
    PROVE  Known[j] = at[j]
<1>1. /\ at[j].e \in Nat /\ at[j].n \in Nat /\ at[j].e \in 1 .. epoch /\ epoch \in Nat /\ reader \in Nat
      /\ c.e \in Nat /\ c.n \in Nat
  BY KnownTypes DEF TypeInv, RecordsInv, CursorSet
<1>2. c # NoCursor
  BY <1>1, KnownTypes
<1>3. at[j].e # epoch \/ at[j].n <= reader
  BY <1>1, <1>2
<1> QED
  BY <1>3, KnownTypes

\* What the client's cursor has passed stays in its view.
LEMMA StillReflected ==
    ASSUME Inv, link = "open", UNCHANGED <<cursor, at>>, NEW j \in Facts, j[2] \in InScope \ missed, Passed(at[j])'
    PROVE  Known[j] = at[j] /\ j \in DOMAIN view /\ view[j] = at[j]
<1>0. TypeInv /\ RecordsInv /\ ViewInv /\ ReaderInv
  BY DEF Inv, OpenInv
<1>1. Passed(at[j]) /\ at[j] # NoCursor /\ (at[j].e < cursor.e \/ (at[j].e = cursor.e /\ at[j].n <= cursor.n))
  BY DEF Passed
<1>2. j \in DOMAIN view /\ view[j] = at[j]
  BY <1>0, <1>1 DEF ViewInv, CursorIsReflected
<1>3. cursor \in CursorSet /\ (cursor # NoCursor => cursor.e \in 1 .. epoch) /\ (cursor.e = epoch => cursor.n <= reader)
  BY <1>0 DEF TypeInv, ViewInv, ReaderInv
<1> QED
  BY <1>0, <1>1, <1>2, <1>3, PassedIsKnown

\* A context, before what needs it.
LEMMA LiveContextKeeps ==
    ASSUME Inv, SendPrefix, prefix[1].type = "context", staged = <<>>
    PROVE  Inv' /\ heard' = heard
<1> DEFINE k == prefix[1].key
<1>1. /\ link = "open" /\ ~lost /\ prefix # <<>> /\ Feed(prefix[1]) /\ prefix' = Tail(prefix) /\ batch' = batch
      /\ Steady /\ link' = "open" /\ UNCHANGED <<source, records, missed, followed>>
      /\ prefix' \in Seq(ItemSet) /\ RecordsInv' /\ OrderInv' /\ FramesInv' /\ BatchInv'
      /\ Len(prefix) > 1 => prefix' # <<>> /\ prefix'[1].type # "prefill" /\ prefix'[1] = prefix[2]
  BY SendPrefixIs
<1>0. TypeInv /\ ViewInv /\ LinkInv /\ OpenInv /\ ReachInv /\ PrefixInv /\ ReaderInv
  BY <1>1 DEF Inv, OpenInv
<1>2. Len(prefix) > 1 /\ ContextFits(prefix[1]) /\ 1 \in Told /\ 1 \in DOMAIN prefix
  <2>1. Len(prefix) # 1
    BY <1>1, NextIs DEF Checkpoint
  <2>2. Len(prefix) > 1 /\ 1 \in DOMAIN prefix
    BY <2>1, <1>1, NextIs
  <2>3. \/ prefix[1].type = "prefill"
        \/ ContextFits(prefix[1]) /\ 1 \in Told
        \/ prefix[1].type = "source"
    BY <2>2, <1>1, NextIs
  <2> QED
    BY <2>2, <2>3
<1>3. view' = Applied(view, k, prefix[1].at) /\ cursor' = cursor /\ staged' = <<>> /\ heard' = heard
  BY <1>1 DEF Feed, FeedReplacement, FeedEvent
<1>4. /\ k \in Facts /\ k[2] \in InScope /\ prefix[1].at = Known[k] /\ Key(prefix[1]) = k
      /\ k[1] # "run_begin" => Known[k] # NoCursor
  <2>1. prefix[1] = [type |-> "context", key |-> k, at |-> Known[k]]
    BY <1>2 DEF ContextFits
  <2>2. prefix[1].at = Known[k]
    BY <2>1
  <2> QED
    BY <2>2, <1>2 DEF ContextFits, Key
<1>5. Coming = view /\ ~Replacing /\ ~Replacing' /\ Coming' = view'
  BY <1>1, <1>2, <1>3 DEF Coming, Replacing
<1> HIDE DEF k
<1>6. /\ ViewInv' /\ view' \in Views /\ Shows(view', Known, missed) /\ Adds(view, view', k)
  <2>1. /\ Above(k) \subseteq DOMAIN view
        /\ k[1] = "run_end" /\ k[2] \notin missed /\ Begin(k[2]) \in DOMAIN view => view[Begin(k[2])] = Known[Begin(k[2])]
    BY <1>1, <1>2, <1>4, <1>5, NextFollows
  <2>2. ASSUME NEW j \in Facts, j[2] \in InScope \ missed, Passed(at[j])'
        PROVE  Known[j] = at[j] /\ j \in DOMAIN view /\ view[j] = at[j]
    BY <1>1, <1>3, <2>2, StillReflected DEF records
  <2>3. /\ cursor' # NoCursor => cursor'.e \in 1 .. epoch
        /\ cursor'.e = epoch => cursor'.n <= tail
        /\ \A r \in Runs : heard'[r] <= parts[r]
    BY <1>0, <1>3 DEF ViewInv
  <2>4. view' = Applied(view, k, Known[k])
    BY <1>3, <1>4
  <2> QED
    BY <2>1, <2>2, <2>3, <2>4, <1>1, <1>3, <1>4, <1>5, ViewAdds DEF Adds
<1>7. PrefixInv' /\ ReachInv' /\ prefix' # <<>>
  <2>1. /\ cursor'.e = epoch
        /\ \A i \in DOMAIN prefix : i # 1 /\ prefix[i].type = "source" => cursor'.n < prefix[i].frame.n
    <3>1. cursor.e = epoch
      BY <1>0, <1>1, <1>5 DEF PrefixInv
    <3>2. ASSUME NEW i \in DOMAIN prefix, i # 1, prefix[i].type = "source" PROVE cursor.n < prefix[i].frame.n
      <4>1. i # Len(prefix)
        BY <1>0, <1>1, <3>2 DEF PrefixInv, Checkpoint
      <4> QED
        BY <4>1, <1>0, <1>1, <3>2 DEF PrefixInv, SourceFits
    <3> QED
      BY <3>1, <3>2, <1>3
  <2> QED
    BY <2>1, <1>1, <1>2, <1>4, <1>5, <1>6, RestAdds
<1>8. TypeInv'
  BY <1>0, <1>1, <1>3, <1>6 DEF TypeInv, Steady, source, records
<1>9. LinkInv' /\ ReaderInv'
  BY <1>0, <1>1, <1>3, <1>7 DEF LinkInv, EndIsComplete, ReaderInv, Steady, source, records
<1>10. PartsInv'
  <2>0. ring' = ring /\ prefix[1].type # "source"
    BY <1>1 DEF source
  <2>1. Sources' = Sources /\ InBatch' = InBatch
    BY <2>0, <1>0, <1>1, PrefixRest
  <2>2. \A r \in Runs : Awaited(r)' = Awaited(r)
    BY <2>1, <1>1, SteadyIs DEF Awaited
  <2> QED
    BY <2>1, <2>2, <1>0, <1>1, <1>3, PartsSteady DEF OpenInv
<1> QED
  BY <1>1, <1>3, <1>6, <1>7, <1>8, <1>9, <1>10 DEF Inv, OpenInv

\* What is passed with a frame of the prefix is shown, or is the frame.
LEMMA SourceIsNext ==
    ASSUME Inv, link = "open", prefix # <<>>, Len(prefix) > 1, prefix[1].type = "source"
    PROVE  /\ 1 \in Told /\ 1 \in DOMAIN prefix /\ staged = <<>> /\ ~Replacing /\ Coming = view /\ SourceFits(prefix[1])
           /\ prefix[1].frame \in FrameSet /\ prefix[1].frame \in Sources /\ FrameFits(prefix[1].frame)
           /\ prefix[1].at = Cursor(epoch, prefix[1].frame.n)
           /\ Key(prefix[1]) = <<prefix[1].frame.what, prefix[1].frame.of>>
           /\ cursor.e = epoch /\ cursor.n < prefix[1].frame.n /\ prefix[1].frame.n <= reader
           /\ \A i \in DOMAIN prefix : i # 1 /\ prefix[i].type = "source" => prefix[1].frame.n < prefix[i].frame.n
<1>0. TypeInv /\ PrefixInv /\ FramesInv
  BY DEF Inv, OpenInv
<1>1. /\ prefix[1].type = "source" /\ ~Replacing /\ staged = <<>> /\ SourceFits(prefix[1]) /\ 1 \in Told
      /\ 1 \in DOMAIN prefix
  BY NextIs
<1>2. prefix[1].frame \in FrameSet /\ prefix[1].frame \in Sources /\ Key(prefix[1]) = <<prefix[1].frame.what, prefix[1].frame.of>>
  BY <1>0, <1>1, PrefixTypes
<1>3. FrameFits(prefix[1].frame)
  BY <1>0, <1>2 DEF FramesInv, Frames
<1>4. prefix[1] = Source(prefix[1].frame) /\ prefix[1].frame.n <= reader /\ cursor.e = epoch /\ cursor.n < prefix[1].frame.n
  BY <1>1 DEF SourceFits
<1>5. prefix[1].at = Cursor(epoch, prefix[1].frame.n)
  BY <1>4, <1>2, <1>0, SourceIs DEF Cursor
<1>6. ASSUME NEW i \in DOMAIN prefix, i # 1, prefix[i].type = "source" PROVE prefix[1].frame.n < prefix[i].frame.n
  <2>1. 1 < i
    BY <1>0, <1>6, PrefixTypes
  <2> QED
    BY <2>1, <1>0, <1>1, <1>6 DEF PrefixInv
<1> QED
  BY <1>1, <1>2, <1>3, <1>4, <1>5, <1>6 DEF Coming

(* A replayed frame moves the cursor past nothing but itself that is not   *)
(* in the view.                                                            *)
LEMMA PassedNext ==
    ASSUME Inv, link = "open", prefix # <<>>, Len(prefix) > 1, prefix[1].type = "source",
           at' = at, cursor' = Cursor(epoch, prefix[1].frame.n),
           NEW j \in Facts, j[2] \in InScope \ missed, Passed(at[j])'
    PROVE  /\ Known[j] = at[j]
           /\ j = <<prefix[1].frame.what, prefix[1].frame.of>> \/ (j \in DOMAIN view /\ view[j] = at[j])
<1> DEFINE f == prefix[1].frame
<1>0. TypeInv /\ RecordsInv /\ OrderInv /\ FramesInv /\ ReachInv /\ PrefixInv /\ InBatch = {}
  BY NextIs DEF Inv, OpenInv
<1>1. /\ staged = <<>> /\ ~Replacing /\ Coming = view /\ f \in FrameSet /\ f \in Sources /\ FrameFits(f) /\ f.n <= reader
      /\ Key(prefix[1]) = <<f.what, f.of>>
      /\ \A i \in DOMAIN prefix : i # 1 /\ prefix[i].type = "source" => f.n < prefix[i].frame.n
  BY SourceIsNext
<1>2. PICK n \in Nat : n = f.n
  BY <1>1 DEF FrameSet
<1>3. at[j] # NoCursor /\ (at[j].e < epoch \/ (at[j].e = epoch /\ at[j].n <= n))
  BY <1>2 DEF Passed, Cursor
<1> HIDE DEF f
<1>4. Known[j] = at[j]
  <2>1. PICK c : c = [e |-> epoch, n |-> n]
    OBVIOUS
  <2>2. c \in CursorSet /\ c.e = epoch /\ c.n = n /\ c.e \in 1 .. epoch
    BY <2>1, <1>0 DEF CursorSet, TypeInv, RecordsInv
  <2> QED
    BY <2>2, <1>0, <1>1, <1>2, <1>3, PassedIsKnown
<1>5. Reaches(j)
  BY <1>0, <1>3, <1>4 DEF ReachInv
<1>6. ASSUME NEW i \in Told, Key(prefix[i]) = j, prefix[i].type # "context"
      PROVE  j = <<f.what, f.of>>
  <2>1. i \in DOMAIN prefix /\ prefix[i].type = "source"
    BY <1>6 DEF Told
  <2>2. /\ prefix[i].frame \in FrameSet /\ prefix[i].frame \in Sources
        /\ j = <<prefix[i].frame.what, prefix[i].frame.of>>
    BY <1>0, <1>6, <2>1, PrefixTypes
  <2>3. FrameFits(prefix[i].frame)
    BY <2>2, <1>0 DEF FramesInv, Frames
  <2>4. prefix[i].frame.what # "part"
    BY <2>2, FactsAre DEF Kinds
  <2>5. at[j].e = epoch /\ at[j].n = prefix[i].frame.n
    BY <2>2, <2>3, <2>4, <1>0, FitsIs
  <2>6. prefix[i].frame.n <= n /\ prefix[i].frame.n \in Nat
    BY <2>2, <2>5, <1>3, KnownTypes, <1>0
  <2>7. i = 1
    BY <2>1, <2>6, <1>1, <1>2
  <2> QED
    BY <2>7, <1>1, <1>6
<1>7. j = <<f.what, f.of>> \/ (j \in DOMAIN view /\ view[j] = at[j])
  BY <1>0, <1>1, <1>5, <1>6 DEF Reaches
<1> QED
  BY <1>4, <1>7 DEF f

\* A replayed fact keeps the invariant.
LEMMA SourceFactKeeps ==
    ASSUME Inv, SendPrefix, prefix[1].type = "source", prefix[1].frame.what # "part"
    PROVE  Inv' /\ heard' = heard
<1> DEFINE f == prefix[1].frame
           k == <<f.what, f.of>>
<1>1. /\ link = "open" /\ ~lost /\ prefix # <<>> /\ Feed(prefix[1]) /\ prefix' = Tail(prefix) /\ batch' = batch
      /\ Steady /\ link' = "open" /\ UNCHANGED <<source, records, missed, followed>>
      /\ prefix' \in Seq(ItemSet) /\ RecordsInv' /\ OrderInv' /\ FramesInv' /\ BatchInv'
      /\ Len(prefix) > 1 => prefix' # <<>> /\ prefix'[1].type # "prefill" /\ prefix'[1] = prefix[2]
  BY SendPrefixIs
<1>0. TypeInv /\ RecordsInv /\ OrderInv /\ ViewInv /\ LinkInv /\ OpenInv /\ ReachInv /\ PrefixInv /\ ReaderInv
  BY <1>1 DEF Inv, OpenInv
<1>2. Len(prefix) > 1
  <2>1. Len(prefix) # 1
    BY <1>1, NextIs DEF Checkpoint
  <2> QED
    BY <2>1, <1>1, NextIs
<1>3. /\ 1 \in Told /\ 1 \in DOMAIN prefix /\ staged = <<>> /\ ~Replacing /\ Coming = view /\ SourceFits(prefix[1])
      /\ f \in FrameSet /\ f \in Sources /\ FrameFits(f)
      /\ prefix[1].at = Cursor(epoch, f.n)
      /\ Key(prefix[1]) = k
      /\ cursor.e = epoch /\ cursor.n < f.n /\ f.n <= reader
      /\ \A i \in DOMAIN prefix : i # 1 /\ prefix[i].type = "source" => f.n < prefix[i].frame.n
  BY <1>1, <1>2, SourceIsNext
<1>4. /\ k \in Facts /\ at[k] = Cursor(epoch, f.n) /\ Known[k] = at[k] /\ k[2] \in InScope /\ k[2] = f.of
      /\ at[k] # NoCursor /\ f.n \in Nat /\ f.n <= tail /\ f.n >= 1
  <2>1. k \in Facts /\ at[k] # NoCursor
    BY <1>0, <1>3, FitsIs
  <2>2. at[k] = Cursor(epoch, f.n)
    BY <1>3 DEF FrameFits
  <2>3. f.n \in Nat /\ f.n <= reader /\ reader <= tail /\ f.n \in 1 .. tail /\ tail \in Nat
    BY <1>0, <1>3 DEF LinkInv, FrameFits, FrameSet, TypeInv
  <2>4. at[k].n <= reader
    BY <2>2, <2>3 DEF Cursor
  <2>5. f.of \in InScope
    BY <1>3 DEF SourceFits
  <2> QED
    BY <2>1, <2>2, <2>3, <2>4, <2>5, <1>0, KnownTypes
<1>5. /\ cursor' = Cursor(epoch, f.n) /\ heard' = heard /\ staged' = <<>> /\ view' = Applied(view, k, Known[k])
  <2>1. ~(prefix[1].at.e = cursor.e /\ prefix[1].at.n <= cursor.n)
    <3>1. cursor.n \in Nat /\ prefix[1].at.n = f.n /\ prefix[1].at.e = epoch
      BY <1>0, <1>3 DEF TypeInv, CursorSet, Cursor
    <3> QED
      BY <3>1, <1>3, <1>4
  <2> QED
    BY <2>1, <1>1, <1>3, <1>4 DEF Feed, FeedReplacement, FeedEvent
<1>6. ~Replacing' /\ Coming' = view'
  BY <1>1, <1>2, <1>5 DEF Coming, Replacing
<1>7. /\ cursor'.e = epoch /\ cursor'.n = f.n
  BY <1>5 DEF Cursor
<1>8. /\ ViewInv' /\ view' \in Views /\ Shows(view', Known, missed) /\ Adds(view, view', k)
  <2>1. /\ Above(k) \subseteq DOMAIN view
        /\ k[1] = "run_end" /\ k[2] \notin missed /\ Begin(k[2]) \in DOMAIN view => view[Begin(k[2])] = Known[Begin(k[2])]
    BY <1>1, <1>3, <1>4, NextFollows
  <2>2. ASSUME NEW j \in Facts, j[2] \in InScope \ missed, Passed(at[j])'
        PROVE  Known[j] = at[j] /\ (j = k \/ (j \in DOMAIN view /\ view[j] = at[j]))
    BY <1>1, <1>2, <1>5, <2>2, PassedNext DEF records
  <2>3. /\ cursor' # NoCursor => cursor'.e \in 1 .. epoch
        /\ cursor'.e = epoch => cursor'.n <= tail
        /\ \A r \in Runs : heard'[r] <= parts[r]
    BY <1>0, <1>4, <1>5, <1>7 DEF ViewInv, RecordsInv, TypeInv
  <2>4. k[1] # "run_begin" => Known[k] # NoCursor
    BY <1>4
  <2> HIDE DEF f, k
  <2> QED
    BY <2>1, <2>2, <2>3, <2>4, <1>1, <1>3, <1>4, <1>5, ViewAdds DEF Adds
<1> HIDE DEF f, k
<1>9. PrefixInv' /\ ReachInv' /\ prefix' # <<>>
  <2>1. /\ cursor'.e = epoch
        /\ \A i \in DOMAIN prefix : i # 1 /\ prefix[i].type = "source" => cursor'.n < prefix[i].frame.n
    BY <1>3, <1>7
  <2> QED
    BY <2>1, <1>1, <1>2, <1>3, <1>4, <1>6, <1>8, RestAdds
<1>10. TypeInv'
  <2>1. cursor' \in CursorSet
    BY <1>0, <1>4, <1>5 DEF TypeInv, Cursor, CursorSet
  <2> QED
    BY <2>1, <1>0, <1>1, <1>5, <1>8 DEF TypeInv, Steady, source, records
<1>11. LinkInv' /\ ReaderInv'
  <2>1. cursor'.e = epoch => cursor'.n <= reader
    BY <1>3, <1>7
  <2> QED
    BY <2>1, <1>0, <1>1, <1>5, <1>9 DEF LinkInv, EndIsComplete, ReaderInv, Steady, source, records
<1>12. PartsInv'
  <2>0. ring' = ring
    BY <1>1 DEF source
  <2>1. /\ Sources' \subseteq Sources /\ InBatch' = InBatch
        /\ \A g \in Sources : g \in Sources' \/ g = f
    BY <2>0, <1>0, <1>1, PrefixRest DEF f
  <2>2. \A r \in Runs : Awaited(r)' = Awaited(r)
    <3>1. Unread' = Unread /\ f.what # "part"
      BY <1>1, SteadyIs DEF f
    <3> QED
      BY <3>1, <2>1 DEF Awaited
  <2> QED
    BY <2>1, <2>2, <1>0, <1>1, <1>5, PartsSteady DEF OpenInv
<1> QED
  BY <1>1, <1>5, <1>8, <1>9, <1>10, <1>11, <1>12 DEF Inv, OpenInv

\* A replayed part keeps the invariant, and is the next of its step.
LEMMA SourcePartKeeps ==
    ASSUME Inv, SendPrefix, prefix[1].type = "source", prefix[1].frame.what = "part"
    PROVE  /\ Inv'
           /\ \E f \in FrameSet : f.part = heard[f.of] + 1 /\ heard' = [heard EXCEPT ![f.of] = f.part]
<1> DEFINE f == prefix[1].frame
<1>1. /\ link = "open" /\ ~lost /\ prefix # <<>> /\ Feed(prefix[1]) /\ prefix' = Tail(prefix) /\ batch' = batch
      /\ Steady /\ link' = "open" /\ UNCHANGED <<source, records, missed, followed>>
      /\ prefix' \in Seq(ItemSet) /\ RecordsInv' /\ OrderInv' /\ FramesInv' /\ BatchInv'
      /\ Len(prefix) > 1 => prefix' # <<>> /\ prefix'[1].type # "prefill" /\ prefix'[1] = prefix[2]
  BY SendPrefixIs
<1>0. /\ TypeInv /\ RecordsInv /\ OrderInv /\ FramesInv /\ ViewInv /\ LinkInv /\ OpenInv /\ ReachInv /\ PrefixInv
      /\ ReaderInv /\ PartsInv /\ InBatch = {}
  BY <1>1, NextIs DEF Inv, OpenInv
<1>2. Len(prefix) > 1
  <2>1. Len(prefix) # 1
    BY <1>1, NextIs DEF Checkpoint
  <2> QED
    BY <2>1, <1>1, NextIs
<1>3. /\ 1 \in Told /\ 1 \in DOMAIN prefix /\ staged = <<>> /\ ~Replacing /\ Coming = view /\ SourceFits(prefix[1])
      /\ f \in FrameSet /\ f \in Sources /\ FrameFits(f)
      /\ prefix[1].at = Cursor(epoch, f.n)
      /\ Key(prefix[1]) = <<f.what, f.of>>
      /\ cursor.e = epoch /\ cursor.n < f.n /\ f.n <= reader
      /\ \A i \in DOMAIN prefix : i # 1 /\ prefix[i].type = "source" => f.n < prefix[i].frame.n
  BY <1>1, <1>2, SourceIsNext
<1>4. /\ f.n \in Nat /\ f.n <= tail /\ f.n >= 1 /\ f.of \in InScope \ suppressed
      /\ <<f.what, f.of>> \notin Facts /\ f.what = "part"
  <2>1. f.n \in Nat /\ f.n <= reader /\ reader <= tail /\ f.n \in 1 .. tail /\ tail \in Nat
    BY <1>0, <1>3 DEF LinkInv, FrameFits, FrameSet, TypeInv
  <2>2. f.of \in InScope \ suppressed
    BY <1>3 DEF SourceFits
  <2> QED
    BY <2>1, <2>2 DEF Facts
<1>5. cursor' = Cursor(epoch, f.n) /\ heard' = [heard EXCEPT ![f.of] = f.part] /\ staged' = <<>> /\ view' = view
  <2>1. ~(prefix[1].at.e = cursor.e /\ prefix[1].at.n <= cursor.n)
    <3>1. cursor.n \in Nat /\ prefix[1].at.n = f.n /\ prefix[1].at.e = epoch
      BY <1>0, <1>3 DEF TypeInv, CursorSet, Cursor
    <3> QED
      BY <3>1, <1>3, <1>4
  <2> QED
    BY <2>1, <1>1, <1>3, <1>4 DEF Feed, FeedReplacement, FeedEvent
<1>6. ~Replacing' /\ Coming' = view' /\ Coming' = Coming
  BY <1>1, <1>2, <1>3, <1>5 DEF Coming, Replacing
<1>7. cursor'.e = epoch /\ cursor'.n = f.n
  BY <1>5 DEF Cursor
<1>8. PartsInv' /\ f.part = heard[f.of] + 1 /\ heard' \in [Runs -> Nat] /\ \A r \in Runs : heard'[r] <= parts[r]
  <2>0. ring' = ring
    BY <1>1 DEF source
  <2>1. /\ Sources' \subseteq Sources /\ InBatch' = InBatch
        /\ \A g \in Sources : g \in Sources' \/ g = f
        /\ \A g \in Sources' : \E i \in DOMAIN prefix : i # 1 /\ prefix[i].type = "source" /\ prefix[i].frame = g
    BY <2>0, <1>0, <1>1, PrefixRest
  <2>2. \A g \in Sources' : g \in Sources /\ f.n < g.n
    BY <2>1, <1>3
  <2>3. f \notin Sources'
    BY <2>2, <1>4
  <2>4. \A g \in Unread : f.n < g.n /\ g \in FrameSet
    <3>1. \A g \in Unread : g.n > reader /\ g \in FrameSet
      BY <1>0 DEF Unread, TypeInv
    <3>2. \A g \in FrameSet : g.n \in Nat
      BY DEF FrameSet
    <3> QED
      BY <3>1, <3>2, <1>0, <1>3, <1>4 DEF TypeInv
  <2>5. f \notin Unread /\ Unread' = Unread
    BY <2>4, <1>1, <1>4, SteadyIs
  <2> HIDE DEF f
  <2>6. \A r \in Runs : Awaited(r)' = Awaited(r) \ {f}
    BY <2>1, <2>3, <2>5, <1>0 DEF Awaited
  <2>7. \A g \in Awaited(f.of) : f.n <= g.n
    <3> SUFFICES ASSUME NEW g \in Awaited(f.of) PROVE f.n <= g.n
      OBVIOUS
    <3>1. g \in FrameSet /\ (g \in Sources \/ g \in Unread)
      BY <1>0, <2>4, FramesTypes DEF Awaited
    <3>2. g = f \/ f.n < g.n
      BY <3>1, <2>1, <2>2, <2>4
    <3>3. f.n \in Nat /\ g.n \in Nat
      BY <3>1, <1>4 DEF FrameSet
    <3> QED
      BY <3>2, <3>3
  <2>8. UNCHANGED <<source, records, reader, suppressed, lost, followed>> /\ ~lost
    BY <1>1 DEF Steady
  <2> QED
    BY <2>1, <2>6, <2>7, <2>8, <1>0, <1>3, <1>4, <1>5, PartTaken
<1>9. ViewInv'
  <2>1. /\ epoch' = epoch /\ tail' = tail /\ at' = at /\ parts' = parts /\ accepted' = accepted
        /\ missed' = missed /\ followed' = followed
    BY <1>1 DEF source, records
  <2>2. CursorIsReflected'
    <3> SUFFICES ASSUME NEW j \in Facts, j[2] \in InScope \ missed, Passed(at[j])'
                 PROVE  j \in DOMAIN view' /\ view'[j] = at[j]
      BY <2>1 DEF CursorIsReflected, InScope
    <3>1. j = <<f.what, f.of>> \/ (j \in DOMAIN view /\ view[j] = at[j])
      BY <1>1, <1>2, <1>5, <2>1, PassedNext
    <3> QED
      BY <3>1, <1>4, <1>5
  <2>3. cursor' # NoCursor => cursor'.e \in 1 .. epoch
    BY <1>0, <1>7 DEF RecordsInv, TypeInv
  <2>4. ViewIsNested' /\ missed' \subseteq Ended' /\ Shows(view, at, missed)'
    BY <2>1, <1>0, <1>5 DEF ViewInv, ViewIsNested, Ended, Happened, Shows
  <2> QED
    BY <2>1, <2>2, <2>3, <2>4, <1>0, <1>4, <1>5, <1>7, <1>8 DEF ViewInv
<1>10. PrefixInv' /\ ReachInv' /\ prefix' # <<>>
  <2>1. Shows(view', Known, missed) /\ Shows(Coming', Known, missed)
    BY <1>0, <1>5, <1>6 DEF ReachInv
  <2> QED
    BY <2>1, <1>1, <1>2, <1>3, <1>4, <1>6, <1>7, RestKeeps
<1>11. TypeInv'
  <2>1. cursor' \in CursorSet
    BY <1>0, <1>4, <1>5 DEF TypeInv, Cursor, CursorSet
  <2> QED
    BY <2>1, <1>0, <1>1, <1>5, <1>8 DEF TypeInv, Steady, source, records
<1>12. LinkInv' /\ ReaderInv'
  <2>1. cursor'.e = epoch => cursor'.n <= reader
    BY <1>3, <1>7
  <2> QED
    BY <2>1, <1>0, <1>1, <1>5, <1>10 DEF LinkInv, EndIsComplete, ReaderInv, Steady, source, records
<1>13. Inv'
  BY <1>1, <1>8, <1>9, <1>10, <1>11, <1>12 DEF Inv, OpenInv
<1> QED
  BY <1>3, <1>5, <1>8, <1>13

\* Nothing that is to come is between the position of the reader and a fact it knows.
LEMMA ComingIsNested ==
    ASSUME Inv, link = "open", Told = {}, InBatch = {}, NEW k \in DOMAIN Coming, Coming \in Views,
           k[1] \in {"step_begin", "step_end"}
    PROVE  Begin(k[2]) \in DOMAIN Coming /\ StepBegin(k[2]) \in DOMAIN Coming
<1>0. TypeInv /\ RecordsInv /\ OrderInv /\ ReachInv
  BY DEF Inv, OpenInv
<1>1. k \in Facts /\ k = <<k[1], k[2]>> /\ k[2] \in Runs
  <2>1. k \in Facts
    BY DEF Views
  <2> QED
    BY <2>1, FactsAre
<1>2. Known[k] # NoCursor
  BY <1>0, <1>1 DEF ReachInv, Shows
<1>3. ASSUME NEW j \in Facts, Known[j] = at[j], at[j] # NoCursor PROVE j \notin Ahead
  BY <1>3 DEF Ahead, Known
<1>4. k \in Due2
  BY <1>1 DEF Due2
<1>5. Due2 \subseteq DOMAIN Coming \cup Ahead
  BY DEF Due2
<1>6. Above(k) \subseteq Due2
  BY <1>0, <1>1, <1>4 DEF ReachInv
<1>7. Begin(k[2]) \in Above(k) /\ (k[1] = "step_end" => StepBegin(k[2]) \in Above(k))
  BY DEF Above
<1>8. Begin(k[2]) \in Facts /\ StepBegin(k[2]) \in Facts /\ at[Begin(k[2])] # NoCursor /\ at[StepBegin(k[2])] # NoCursor
      /\ Known[Begin(k[2])] = at[Begin(k[2])] /\ Known[StepBegin(k[2])] = at[StepBegin(k[2])]
  <2>1. CASE k[1] = "step_begin"
    <3>1. k = StepBegin(k[2])
      BY <2>1, <1>1 DEF StepBegin
    <3>2. at[k] = Known[k] /\ Known[k] # NoCursor
      BY <1>0, <1>1, <1>2, KnownTypes
    <3>3. Known[Begin(k[2])] = at[Begin(k[2])]
      BY <3>1, <1>0, <1>1, <1>2, KnownBefore
    <3>4. at[Begin(k[2])] # NoCursor
      BY <3>1, <3>2, <1>0, <1>1 DEF OrderInv
    <3> QED
      BY <3>1, <3>2, <3>3, <3>4, <1>1, FactsOf
  <2>2. CASE k[1] = "step_end"
    <3>1. k = StepEnd(k[2])
      BY <2>2, <1>1 DEF StepEnd
    <3>2. at[k] = Known[k] /\ Known[k] # NoCursor
      BY <1>0, <1>1, <1>2, KnownTypes
    <3>3. Known[Begin(k[2])] = at[Begin(k[2])] /\ Known[StepBegin(k[2])] = at[StepBegin(k[2])]
      BY <3>1, <1>0, <1>1, <1>2, KnownBefore
    <3>4. at[StepBegin(k[2])] # NoCursor
      BY <3>1, <3>2, <1>0, <1>1 DEF OrderInv
    <3>5. at[Begin(k[2])] # NoCursor
      BY <3>4, <1>0, <1>1 DEF OrderInv
    <3> QED
      BY <3>1, <3>2, <3>3, <3>4, <3>5, <1>1, FactsOf
  <2> QED
    BY <2>1, <2>2
<1>9. Begin(k[2]) \in DOMAIN Coming
  BY <1>3, <1>5, <1>6, <1>7, <1>8
<1>10. StepBegin(k[2]) \in DOMAIN Coming
  <2>1. CASE k[1] = "step_begin"
    BY <2>1, <1>1 DEF StepBegin
  <2>2. CASE k[1] = "step_end"
    BY <2>2, <1>3, <1>5, <1>6, <1>7, <1>8
  <2> QED
    BY <2>1, <2>2
<1> QED
  BY <1>9, <1>10

\* The client comes to the position of the reader, and shows what it was sent.
LEMMA ViewAtReader ==
    ASSUME Inv, link = "open", Told = {}, InBatch = {}, Coming \in Views,
           UNCHANGED <<source, records, missed, followed>>,
           cursor' = Cursor(epoch, reader), view' = Coming, heard' = heard
    PROVE  ViewInv' /\ cursor' \in CursorSet /\ cursor'.e = epoch /\ cursor'.n = reader
<1>0. TypeInv /\ RecordsInv /\ OrderInv /\ ViewInv /\ LinkInv /\ ReachInv
  BY DEF Inv, OpenInv
<1>1. /\ epoch' = epoch /\ tail' = tail /\ at' = at /\ parts' = parts /\ accepted' = accepted
      /\ missed' = missed /\ followed' = followed
  BY DEF source, records
<1>2. /\ cursor' \in CursorSet /\ cursor'.e = epoch /\ cursor'.n = reader /\ epoch \in 1 .. epoch
      /\ reader <= tail /\ cursor' = [e |-> epoch, n |-> reader]
  BY <1>0 DEF Cursor, CursorSet, TypeInv, RecordsInv, LinkInv
<1>3. Shows(view', at, missed)
  BY <1>0, KnownShows DEF ReachInv
<1>4. ViewIsNested'
  BY ComingIsNested DEF ViewIsNested, Begin, StepBegin
<1>5. CursorIsReflected'
  <2> SUFFICES ASSUME NEW j \in Facts, j[2] \in InScope \ missed, Passed(at[j])'
               PROVE  j \in DOMAIN view' /\ view'[j] = at[j]
    BY <1>1 DEF CursorIsReflected, InScope
  <2>1. at[j] # NoCursor /\ (at[j].e < cursor'.e \/ (at[j].e = cursor'.e /\ at[j].n <= cursor'.n))
    BY <1>1 DEF Passed
  <2>2. Known[j] = at[j]
    <3>1. PICK c \in CursorSet : c = cursor'
      BY <1>2
    <3>2. /\ c.e \in 1 .. epoch /\ (c.e = epoch => c.n <= reader)
          /\ at[j].e < c.e \/ (at[j].e = c.e /\ at[j].n <= c.n)
      BY <3>1, <2>1, <1>0, <1>2 DEF TypeInv
    <3> QED
      BY <3>2, <2>1, <1>0, PassedIsKnown
  <2>3. Reaches(j)
    BY <2>1, <2>2, <1>0 DEF ReachInv
  <2> QED
    BY <2>3 DEF Reaches
<1>6. missed' \subseteq Ended' /\ Shows(view, at, missed)'
  BY <1>0, <1>1, <1>3 DEF ViewInv, Ended, Happened, Shows
<1>7. ViewInv'
  BY <1>0, <1>1, <1>2, <1>4, <1>5, <1>6 DEF ViewInv
<1> QED
  BY <1>2, <1>7

(* The checkpoint of a prefix keeps the invariant: the replacement becomes *)
(* the view, together with the cursor.                                     *)
LEMMA CheckpointKeeps ==
    ASSUME Inv, SendPrefix, prefix[1].type = "checkpoint"
    PROVE  Inv' /\ heard' = heard
<1>1. /\ link = "open" /\ ~lost /\ prefix # <<>> /\ Feed(prefix[1]) /\ prefix' = Tail(prefix) /\ batch' = batch
      /\ Steady /\ link' = "open" /\ UNCHANGED <<source, records, missed, followed>>
      /\ prefix' \in Seq(ItemSet) /\ RecordsInv' /\ OrderInv' /\ FramesInv' /\ BatchInv'
  BY SendPrefixIs
<1>0. TypeInv /\ ViewInv /\ LinkInv /\ OpenInv /\ ReachInv /\ PrefixInv /\ ReaderInv /\ PartsInv
  BY <1>1 DEF Inv, OpenInv
<1>2. /\ prefix[1] = Checkpoint(reader) /\ Told = {} /\ Sources = {} /\ InBatch = {} /\ Len(prefix) = 1
      /\ staged # <<>> => Len(staged) = 1 /\ Head(staged) = staged[1] /\ Coming = staged[1]
  <2>1. Len(prefix) = 1
    BY <1>1, NextIs
  <2> QED
    BY <2>1, <1>1, NextIs
<1>3. prefix' = <<>>
  <2>1. Len(prefix') = 0
    BY <1>0, <1>1, <1>2, TailFacts DEF TypeInv
  <2> QED
    BY <2>1, <1>1, EmptySeq
<1>4. /\ cursor' = Cursor(epoch, reader) /\ staged' = <<>> /\ heard' = heard
      /\ view' = IF staged = <<>> THEN view ELSE Head(staged)
  <2>1. prefix[1].at = Cursor(epoch, reader)
    BY <1>2 DEF Checkpoint
  <2> QED
    BY <2>1, <1>1 DEF Feed, FeedReplacement, FeedEvent
<1>5. view' = Coming /\ Coming' = Coming /\ ~Replacing' /\ Coming \in Views
  <2>1. CASE staged = <<>>
    BY <2>1, <1>0, <1>1, <1>3, <1>4 DEF Coming, Replacing, TypeInv
  <2>2. CASE staged # <<>>
    <3>1. staged[1] \in Views
      BY <2>2, <1>0, <1>2, ElementOfSeq DEF TypeInv
    <3> QED
      BY <3>1, <2>2, <1>2, <1>3, <1>4 DEF Coming, Replacing
  <2> QED
    BY <2>1, <2>2
<1>6. ViewInv' /\ cursor' \in CursorSet /\ cursor'.e = epoch /\ cursor'.n = reader
  BY <1>1, <1>2, <1>4, <1>5, ViewAtReader
<1>7. Told' = {} /\ Sources' = {} /\ InBatch' = {} /\ PrefixInv'
  BY <1>1, <1>2, <1>3 DEF Told, Sources, InBatch, PrefixInv
<1>8. ReachInv'
  <2>1. /\ epoch' = epoch /\ at' = at /\ alive' = alive /\ Known' = Known /\ Ahead' = Ahead /\ InScope' = InScope
        /\ missed' = missed /\ followed' = followed /\ active' = active
    BY <1>1, SteadyIs DEF Steady
  <2>2. Due2' = Due2
    BY <2>1, <1>2, <1>5, <1>7 DEF Due2
  <2>3. ASSUME NEW k \in Facts, Reaches(k) PROVE Reaches(k)'
    BY <2>1, <2>3, <1>2, <1>5, <1>7 DEF Reaches
  <2>4. Shows(view', Known', missed') /\ Shows(Coming', Known', missed')
    BY <2>1, <1>0, <1>5 DEF ReachInv
  <2>5. \A k \in Facts : k[2] \in InScope' \ missed' /\ Known'[k] # NoCursor => Reaches(k)'
    BY <2>1, <2>3, <1>0 DEF ReachInv
  <2> QED
    BY <2>1, <2>2, <2>4, <2>5, <1>0 DEF ReachInv
<1>9. TypeInv'
  <2>1. view' \in Views /\ staged' \in Seq(Views)
    BY <1>4, <1>5
  <2> QED
    BY <2>1, <1>0, <1>1, <1>4, <1>6 DEF TypeInv, Steady, source, records
<1>10. LinkInv' /\ ReaderInv'
  BY <1>0, <1>1, <1>4, <1>6 DEF LinkInv, EndIsComplete, ReaderInv, Steady, source, records, TypeInv
<1>11. PartsInv'
  <2>1. \A r \in Runs : Awaited(r)' = Awaited(r)
    BY <1>1, <1>2, <1>7, SteadyIs DEF Awaited
  <2> QED
    BY <2>1, <1>0, <1>1, <1>2, <1>4, <1>7, PartsSteady
<1> QED
  BY <1>1, <1>4, <1>6, <1>7, <1>8, <1>9, <1>10, <1>11 DEF Inv, OpenInv

\* Whatever frame of the prefix is given to the client, the invariant holds.
LEMMA SendPrefixKeeps ==
    ASSUME Inv, SendPrefix
    PROVE  /\ Inv'
           /\ \/ heard' = heard
              \/ \E f \in FrameSet : f.part = heard[f.of] + 1 /\ heard' = [heard EXCEPT ![f.of] = f.part]
<1>1. prefix[1].type \in {"prefill", "context", "source", "checkpoint"}
  <2>1. prefix # <<>> /\ TypeInv /\ link = "open"
    BY DEF SendPrefix, Inv
  <2>2. 1 \in DOMAIN prefix
    BY <2>1, NextIs
  <2> QED
    BY <2>1, <2>2, PrefixTypes
<1>2. CASE prefix[1].type = "context"
  BY <1>2, StagedContextKeeps, LiveContextKeeps
<1>3. CASE prefix[1].type = "source"
  BY <1>3, SourceFactKeeps, SourcePartKeeps
<1> QED
  BY <1>1, <1>2, <1>3, PrefillKeeps, CheckpointKeeps

\* The next frame of a batch.
LEMMA BatchIs ==
    ASSUME Inv, link = "open", prefix = <<>>, batch # <<>>
    PROVE  /\ staged = <<>> /\ ~Replacing /\ Coming = view /\ Told = {} /\ Sources = {}
           /\ batch[1] = Head(batch) /\ batch[1] \in FrameSet /\ batch[1] \in InBatch /\ FrameFits(batch[1])
           /\ batch[1].of \in InScope /\ batch[1].n <= reader /\ batch[1].n \in 1 .. tail
           /\ cursor.e = epoch => cursor.n < batch[1].n
           /\ \A g \in InBatch : g \in FrameSet /\ FrameFits(g) /\ (g = batch[1] \/ batch[1].n < g.n)
           /\ batch[1].what # "part" => LET k == <<batch[1].what, batch[1].of>> IN
                 /\ k \in Facts /\ at[k] = Cursor(epoch, batch[1].n) /\ Known[k] = at[k] /\ at[k] # NoCursor
           /\ batch[1].what = "part" => <<batch[1].what, batch[1].of>> \notin Facts
<1>0. TypeInv /\ RecordsInv /\ OrderInv /\ FramesInv /\ ReaderInv /\ BatchInv
  BY DEF Inv, OpenInv
<1>1. staged = <<>> /\ ~Replacing /\ Coming = view /\ Told = {} /\ Sources = {}
  BY <1>0 DEF ReaderInv, Replacing, Coming, Told, Sources
<1>2. /\ Len(batch) \in Nat /\ DOMAIN batch = 1 .. Len(batch) /\ Head(batch) = batch[1] /\ 1 \in DOMAIN batch
  BY <1>0, TailFacts DEF TypeInv
<1>3. InBatch \subseteq FrameSet /\ \A g \in InBatch : FrameFits(g)
  BY <1>0, FramesTypes DEF FramesInv, Frames
<1>4. batch[1] \in InBatch /\ batch[1] \in FrameSet /\ FrameFits(batch[1])
  BY <1>2, <1>3 DEF InBatch
<1>5. /\ batch[1].of \in InScope /\ batch[1].n <= reader /\ batch[1].n \in 1 .. tail
      /\ cursor.e = epoch => cursor.n < batch[1].n
  BY <1>0, <1>2, <1>4 DEF BatchInv, FrameFits
<1>6. ASSUME NEW g \in InBatch PROVE g = batch[1] \/ batch[1].n < g.n
  <2>1. PICK i \in DOMAIN batch : g = batch[i]
    BY <1>6 DEF InBatch
  <2>2. i = 1 \/ 1 < i
    BY <1>2
  <2> QED
    BY <2>1, <2>2, <1>0, <1>2 DEF BatchInv
<1>7. ASSUME batch[1].what # "part"
      PROVE  LET k == <<batch[1].what, batch[1].of>> IN
             k \in Facts /\ at[k] = Cursor(epoch, batch[1].n) /\ Known[k] = at[k] /\ at[k] # NoCursor
  <2>1. PICK k : k = <<batch[1].what, batch[1].of>>
    OBVIOUS
  <2>2. k \in Facts /\ at[k] # NoCursor /\ at[k].n = batch[1].n
    BY <2>1, <1>0, <1>4, <1>7, FitsIs
  <2>3. at[k] = Cursor(epoch, batch[1].n)
    BY <2>1, <1>4, <1>7 DEF FrameFits
  <2>4. Known[k] = at[k]
    BY <2>2, <1>0, <1>5, KnownTypes
  <2> QED
    BY <2>1, <2>2, <2>3, <2>4
<1>8. batch[1].what = "part" => <<batch[1].what, batch[1].of>> \notin Facts
  BY DEF Facts
<1> QED
  BY <1>1, <1>2, <1>3, <1>4, <1>5, <1>6, <1>7, <1>8

\* What the rest of a batch still tells.
LEMMA BatchRest ==
    ASSUME Inv, link = "open", prefix = <<>>, batch # <<>>, batch' = Tail(batch), prefix' = prefix
    PROVE  /\ batch' \in Seq(FrameSet) /\ InBatch' = InBatch \ {batch[1]} /\ Sources' = {} /\ Told' = {}
           /\ ring' = ring => Frames' \subseteq Frames
           /\ \A i \in DOMAIN batch' : i + 1 \in DOMAIN batch /\ batch'[i] = batch[i + 1] /\ batch[1].n < batch'[i].n
           /\ \A i, j \in DOMAIN batch' : i < j => batch'[i].n < batch'[j].n
<1>0. TypeInv /\ BatchInv
  BY DEF Inv, OpenInv
<1>1. /\ Tail(batch) \in Seq(FrameSet) /\ Len(batch) \in Nat /\ Len(batch) >= 1 /\ Len(Tail(batch)) = Len(batch) - 1
      /\ DOMAIN batch = 1 .. Len(batch) /\ DOMAIN Tail(batch) = 1 .. Len(batch) - 1
      /\ 1 \in DOMAIN batch
      /\ \A i \in DOMAIN Tail(batch) : i + 1 \in DOMAIN batch /\ Tail(batch)[i] = batch[i + 1]
      /\ \A i \in DOMAIN batch : i = 1 \/ (i - 1 \in DOMAIN Tail(batch) /\ Tail(batch)[i - 1] = batch[i])
  BY <1>0, TailFacts DEF TypeInv
<1>2. ASSUME NEW i \in DOMAIN batch'
      PROVE  i + 1 \in DOMAIN batch /\ batch'[i] = batch[i + 1] /\ batch[1].n < batch'[i].n
  <2>1. i \in 1 .. Len(batch) - 1 /\ i + 1 \in DOMAIN batch /\ batch'[i] = batch[i + 1]
    BY <1>1, <1>2
  <2>2. 1 < i + 1
    BY <2>1, <1>1
  <2> QED
    BY <2>1, <2>2, <1>0, <1>1 DEF BatchInv
<1>3. \A i \in DOMAIN batch : batch[i].n \in Nat
  <2>1. \A i \in DOMAIN batch : batch[i] \in FrameSet
    BY <1>0, <1>1, ElementOfSeq DEF TypeInv
  <2> QED
    BY <2>1 DEF FrameSet
<1>4. InBatch' = InBatch \ {batch[1]}
  <2>1. ASSUME NEW g \in InBatch' PROVE g \in InBatch /\ g # batch[1]
    <3>1. PICK i \in DOMAIN batch' : g = batch'[i]
      BY <2>1 DEF InBatch
    <3>2. i + 1 \in DOMAIN batch /\ g = batch[i + 1] /\ batch[1].n < g.n
      BY <3>1, <1>2
    <3> QED
      BY <3>2, <1>1, <1>3 DEF InBatch
  <2>2. ASSUME NEW g \in InBatch, g # batch[1] PROVE g \in InBatch'
    <3>1. PICK i \in DOMAIN batch : g = batch[i]
      BY <2>2 DEF InBatch
    <3>2. i - 1 \in DOMAIN batch' /\ batch'[i - 1] = batch[i]
      BY <3>1, <2>2, <1>1
    <3> QED
      BY <3>1, <3>2 DEF InBatch
  <2> QED
    BY <2>1, <2>2
<1>5. Sources' = {} /\ Told' = {}
  BY DEF Sources, Told
<1>6. ring' = ring => Frames' \subseteq Frames
  BY <1>4, <1>5 DEF Frames
<1>7. ASSUME NEW i \in DOMAIN batch', NEW j \in DOMAIN batch', i < j PROVE batch'[i].n < batch'[j].n
  <2>1. /\ i \in 1 .. Len(batch) - 1 /\ j \in 1 .. Len(batch) - 1
        /\ i + 1 \in DOMAIN batch /\ j + 1 \in DOMAIN batch /\ batch'[i] = batch[i + 1] /\ batch'[j] = batch[j + 1]
    BY <1>1, <1>2
  <2>2. i + 1 < j + 1
    BY <2>1, <1>1, <1>7
  <2> QED
    BY <2>1, <2>2, <1>0 DEF BatchInv
<1> QED
  BY <1>1, <1>2, <1>4, <1>5, <1>6, <1>7

\* What is passed with the next frame of a batch is shown, or is the frame.
LEMMA PassedInBatch ==
    ASSUME Inv, link = "open", prefix = <<>>, batch # <<>>, at' = at, cursor' = Cursor(epoch, batch[1].n),
           NEW j \in Facts, j[2] \in InScope \ missed, Passed(at[j])'
    PROVE  /\ Known[j] = at[j]
           /\ j = <<batch[1].what, batch[1].of>> \/ (j \in DOMAIN view /\ view[j] = at[j])
<1> DEFINE f == batch[1]
<1>0. TypeInv /\ RecordsInv /\ OrderInv /\ FramesInv /\ ReachInv
  BY DEF Inv, OpenInv
<1>1. /\ Coming = view /\ Told = {} /\ f \in FrameSet /\ FrameFits(f) /\ f.n <= reader
      /\ \A g \in InBatch : g \in FrameSet /\ FrameFits(g) /\ (g = f \/ f.n < g.n)
  BY BatchIs
<1>2. PICK n \in Nat : n = f.n
  BY <1>1 DEF FrameSet
<1>3. at[j] # NoCursor /\ (at[j].e < epoch \/ (at[j].e = epoch /\ at[j].n <= n))
  BY <1>2 DEF Passed, Cursor
<1> HIDE DEF f
<1>4. Known[j] = at[j]
  <2>1. PICK c : c = [e |-> epoch, n |-> n]
    OBVIOUS
  <2>2. c \in CursorSet /\ c.e = epoch /\ c.n = n /\ c.e \in 1 .. epoch
    BY <2>1, <1>0 DEF CursorSet, TypeInv, RecordsInv
  <2> QED
    BY <2>2, <1>0, <1>1, <1>2, <1>3, PassedIsKnown
<1>5. Reaches(j)
  BY <1>0, <1>3, <1>4 DEF ReachInv
<1>6. ASSUME NEW g \in InBatch, <<g.what, g.of>> = j PROVE g = f
  <2>1. g \in FrameSet /\ FrameFits(g) /\ (g = f \/ f.n < g.n)
    BY <1>1
  <2>2. g.what # "part"
    BY <1>6, FactsAre DEF Kinds
  <2>3. at[j].e = epoch /\ at[j].n = g.n
    BY <1>6, <2>1, <2>2, <1>0, FitsIs
  <2>4. g.n <= n /\ g.n \in Nat
    BY <2>1, <2>3, <1>3, KnownTypes, <1>0
  <2> QED
    BY <2>1, <2>4, <1>2
<1>7. j = <<f.what, f.of>> \/ (j \in DOMAIN view /\ view[j] = at[j])
  BY <1>1, <1>5, <1>6 DEF Reaches
<1> QED
  BY <1>4, <1>7 DEF f

\* What a live fact is nested in is in the view before it.
LEMMA BatchFollows ==
    ASSUME Inv, link = "open", prefix = <<>>, batch # <<>>, batch[1].what # "part",
           NEW k \in Facts, k = <<batch[1].what, batch[1].of>>
    PROVE  /\ Above(k) \subseteq DOMAIN view
           /\ k[1] = "run_end" /\ k[2] \notin missed /\ Begin(k[2]) \in DOMAIN view => view[Begin(k[2])] = Known[Begin(k[2])]
<1> DEFINE f == batch[1]
<1>0. TypeInv /\ RecordsInv /\ OrderInv /\ FramesInv /\ ReachInv
  BY DEF Inv, OpenInv
<1>1. /\ Coming = view /\ Told = {} /\ f \in FrameSet /\ f \in InBatch /\ FrameFits(f) /\ f.n <= reader /\ f.of \in InScope
      /\ \A g \in InBatch : g \in FrameSet /\ FrameFits(g) /\ (g = f \/ f.n < g.n)
      /\ at[k] = Cursor(epoch, f.n) /\ at[k] # NoCursor
  BY BatchIs
<1>2. /\ f.n \in Nat /\ reader \in Nat /\ k[2] \in Runs /\ k[1] = f.what /\ k[2] = f.of /\ k = <<f.what, f.of>>
      /\ at[k].e = epoch /\ at[k].n = f.n /\ \A g \in FrameSet : g.n \in Nat
  BY <1>0, <1>1, FactsAre DEF FrameSet, TypeInv, Cursor
<1> HIDE DEF f
<1>3. ASSUME NEW a \in Facts, at[a].e = epoch, at[a].n < f.n, NEW g \in InBatch, <<g.what, g.of>> = a
      PROVE  FALSE
  <2>1. g \in FrameSet /\ FrameFits(g) /\ g.what # "part"
    BY <1>1, <1>3, FactsAre DEF Kinds
  <2>2. at[a].n = g.n
    BY <2>1, <1>0, <1>3, FitsIs
  <2>3. g = f \/ f.n < g.n
    BY <1>1
  <2> QED
    BY <2>1, <2>2, <2>3, <1>2, <1>3
<1>4. ASSUME NEW a \in Above(k) PROVE a \in DOMAIN view
  <2>1. a \in Facts /\ at[a].e = epoch /\ at[a].n < f.n
    <3>1. CASE k[1] = "step_begin"
      <4>1. k = StepBegin(k[2]) /\ a = Begin(k[2])
        BY <3>1, <1>2, <1>4 DEF StepBegin, Above
      <4>2. Before(at[a], at[k])
        BY <4>1, <1>0, <1>1, <1>2 DEF OrderInv
      <4> QED
        BY <4>1, <4>2, <1>2, FactsOf DEF Before
    <3>2. CASE k[1] = "step_end"
      <4>1. k = StepEnd(k[2]) /\ a \in {Begin(k[2]), StepBegin(k[2])}
        BY <3>2, <1>2, <1>4 DEF StepEnd, Above
      <4>2. /\ at[StepBegin(k[2])] # NoCursor /\ Before(at[StepBegin(k[2])], at[k])
            /\ Before(at[Begin(k[2])], at[StepBegin(k[2])])
        BY <4>1, <1>0, <1>1, <1>2 DEF OrderInv
      <4>3. Begin(k[2]) \in Facts /\ StepBegin(k[2]) \in Facts
        BY <1>2, FactsOf
      <4>4. at[Begin(k[2])].n \in Nat /\ at[StepBegin(k[2])].n \in Nat
        BY <4>3, <1>0, KnownTypes
      <4> QED
        BY <4>1, <4>2, <4>3, <4>4, <1>2 DEF Before
    <3> QED
      BY <3>1, <3>2, <1>4 DEF Above
  <2>2. a \in Due2
    <3>1. k \in Due2
      BY <1>1, <1>2 DEF Due2
    <3> QED
      BY <3>1, <1>0, <1>4 DEF ReachInv
  <2>3. a \notin Ahead
    <3>1. at[a].n \in Nat
      BY <2>1, <1>0, KnownTypes
    <3> QED
      BY <3>1, <2>1, <1>1, <1>2 DEF Ahead
  <2>4. \A g \in InBatch : <<g.what, g.of>> # a
    BY <2>1, <1>3
  <2> QED
    BY <2>2, <2>3, <2>4, <1>1 DEF Due2
<1>5. ASSUME k[1] = "run_end", k[2] \notin missed, Begin(k[2]) \in DOMAIN view
      PROVE  view[Begin(k[2])] = Known[Begin(k[2])]
  <2>1. Begin(k[2]) \in Facts /\ k = End(k[2]) /\ Begin(k[2]) = <<"run_begin", k[2]>>
    BY <1>2, <1>5, FactsOf DEF End, Begin
  <2>2. CASE at[Begin(k[2])] = NoCursor
    <3>1. Known[Begin(k[2])] = NoCursor
      BY <2>1, <2>2, <1>0, KnownTypes
    <3> QED
      BY <3>1, <2>1, <1>0, <1>1, <1>5 DEF ReachInv, Shows
  <2>3. CASE at[Begin(k[2])] # NoCursor
    <3>1. Before(at[Begin(k[2])], at[k])
      BY <2>1, <2>3, <1>0, <1>1, <1>2 DEF OrderInv, Kinds
    <3>2. at[Begin(k[2])].e = epoch /\ at[Begin(k[2])].n < f.n
      BY <3>1, <1>2 DEF Before
    <3>3. \A g \in InBatch : <<g.what, g.of>> # Begin(k[2])
      BY <3>2, <2>1, <1>3
    <3> QED
      BY <3>3, <1>0, <1>1, <1>2, <1>5, BeginIsThere
  <2> QED
    BY <2>2, <2>3
<1> QED
  BY <1>4, <1>5

\* Send, but for what the client does with the frame.
BatchStep ==
    /\ link = "open" /\ ~lost /\ prefix = <<>> /\ batch # <<>> /\ batch' = Tail(batch)
    /\ active' = (IF batch[1].what = "run_begin" THEN active \cup {batch[1].of}
                  ELSE IF batch[1].what = "run_end" THEN active \ {batch[1].of} ELSE active)
    /\ suppressed' = (IF batch[1].what \in {"step_begin", "step_end"} THEN suppressed \ {batch[1].of} ELSE suppressed)
    /\ UNCHANGED <<source, records, link, reader, lost, prefix, mark, missed, followed>>

\* A live frame leaves what is still to come as it should be.
LEMMA BatchReach ==
    ASSUME Inv, BatchStep, staged' = <<>>,
           \/ batch[1].what = "part" /\ view' = view
           \/ batch[1].what # "part" /\ Adds(view, view', <<batch[1].what, batch[1].of>>) /\ Shows(view', Known, missed)
    PROVE  ReachInv' /\ Coming' = view' /\ ~Replacing'
<1> DEFINE f == batch[1]
           k == <<f.what, f.of>>
<1>0. TypeInv /\ RecordsInv /\ OrderInv /\ FramesInv /\ ReachInv
  BY DEF Inv, OpenInv, BatchStep
<1>1. /\ Coming = view /\ Told = {} /\ f \in FrameSet /\ f \in InBatch
      /\ f.what # "part" => k \in Facts /\ Known[k] = at[k] /\ at[k] # NoCursor
      /\ f.what = "part" => k \notin Facts
  BY BatchIs DEF BatchStep
<1>2. InBatch' = InBatch \ {f} /\ Told' = {}
  BY BatchRest DEF BatchStep
<1>3. /\ Known' = Known /\ InScope' = InScope /\ Ahead' = Ahead /\ at' = at /\ alive' = alive /\ missed' = missed
      /\ followed' = followed
  BY DEF BatchStep, source, records, Known, InScope, Ahead
<1>4. Coming' = view' /\ ~Replacing'
  BY DEF BatchStep, Coming, Replacing
<1>9. view \in Views /\ DOMAIN view \subseteq Facts
  BY <1>0 DEF TypeInv, Views
<1>5. /\ Shows(view', Known, missed)
      /\ \A j \in DOMAIN view : j # k /\ (j[1] = "run_end" => j[2] \notin missed) => j \in DOMAIN view' /\ view'[j] = view[j]
      /\ DOMAIN view' \subseteq DOMAIN view \cup {k}
      /\ k \in Facts => k \in DOMAIN view' /\ view'[k] = Known[k]
  <2>1. CASE f.what = "part"
    BY <2>1, <1>0, <1>1 DEF ReachInv
  <2>2. CASE f.what # "part"
    BY <2>2, <1>1 DEF Adds
  <2> QED
    BY <2>1, <2>2
<1> HIDE DEF k
<1>6. ASSUME NEW j \in Facts, j[2] \in InScope \ missed, Known[j] # NoCursor PROVE Reaches(j)'
  <2>1. Reaches(j)
    BY <1>0, <1>6 DEF ReachInv
  <2>2. CASE j \in DOMAIN view /\ view[j] = at[j]
    <3>1. j \in DOMAIN view' /\ view'[j] = at[j]
      <4>1. j = k => Known[k] = at[k]
        BY <1>6, <1>0, KnownTypes
      <4> QED
        BY <4>1, <2>2, <1>5, <1>6
    <3> QED
      BY <3>1, <1>3, <1>4 DEF Reaches
  <2>3. ASSUME NEW g \in InBatch, <<g.what, g.of>> = j PROVE Reaches(j)'
    <3>1. CASE g = f
      <4>1. j = k
        BY <3>1, <2>3 DEF k
      <4>2. j \in DOMAIN view' /\ view'[j] = at[j]
        BY <4>1, <1>5, <1>6, <1>0, KnownTypes
      <4> QED
        BY <4>2, <1>3, <1>4 DEF Reaches
    <3>2. CASE g # f
      BY <3>2, <2>3, <1>2 DEF Reaches
    <3> QED
      BY <3>1, <3>2
  <2> QED
    BY <2>1, <2>2, <2>3, <1>1 DEF Reaches
<1>7. /\ Due2' \subseteq Due2
      /\ \A j \in Due2 : j[1] # "run_end" => j \in Due2'
  <2>1. /\ \A j \in Due2 : j \in Facts /\ (j \in DOMAIN view \/ j \in Ahead \/ \E g \in InBatch : <<g.what, g.of>> = j)
        /\ \A j \in Facts : j \in DOMAIN view \/ j \in Ahead \/ (\E g \in InBatch : <<g.what, g.of>> = j) => j \in Due2
    BY <1>1 DEF Due2
  <2>2. /\ \A j \in Due2' : j \in Facts /\ (j \in DOMAIN view' \/ j \in Ahead \/ \E g \in InBatch' : <<g.what, g.of>> = j)
        /\ \A j \in Facts : j \in DOMAIN view' \/ j \in Ahead \/ (\E g \in InBatch' : <<g.what, g.of>> = j) => j \in Due2'
    BY <1>2, <1>3, <1>4 DEF Due2
  <2>3. Due2' \subseteq Due2
    <3> SUFFICES ASSUME NEW j \in Due2' PROVE j \in Due2
      OBVIOUS
    <3>1. CASE j \in DOMAIN view'
      <4>1. j \in DOMAIN view \/ j = k
        BY <3>1, <1>5
      <4> QED
        BY <4>1, <2>1, <2>2, <1>1 DEF k
    <3>2. CASE j \notin DOMAIN view'
      BY <3>2, <2>1, <2>2, <1>2
    <3> QED
      BY <3>1, <3>2
  <2>4. ASSUME NEW j \in Due2, j[1] # "run_end" PROVE j \in Due2'
    <3>1. CASE j = k
      BY <3>1, <2>1, <2>2, <1>5
    <3>2. CASE j # k
      <4>1. CASE j \in DOMAIN view
        BY <4>1, <3>2, <2>1, <2>2, <2>4, <1>5
      <4>2. ASSUME NEW g \in InBatch, <<g.what, g.of>> = j PROVE j \in Due2'
        <5>1. g # f
          BY <4>2, <3>2 DEF k
        <5> QED
          BY <5>1, <4>2, <2>1, <2>2, <1>2
      <4> QED
        BY <4>1, <4>2, <2>1, <2>2
    <3> QED
      BY <3>1, <3>2
  <2> QED
    BY <2>3, <2>4
<1>8. ReachInv'
  <2>1. Shows(view', Known', missed') /\ Shows(Coming', Known', missed')
    BY <1>3, <1>4, <1>5
  <2>2. \A j \in Facts : j[2] \in InScope' \ missed' /\ Known'[j] # NoCursor => Reaches(j)'
    BY <1>3, <1>6
  <2>3. \A j \in Due2' : Above(j) \subseteq Due2'
    <3>1. \A j : \A a \in Above(j) : a[1] # "run_end"
      BY DEF Above, Begin, StepBegin
    <3> QED
      BY <3>1, <1>0, <1>7 DEF ReachInv
  <2>4. \A r \in alive' \cap InScope' : \A j \in {Begin(r), StepBegin(r)} : at'[j] # NoCursor => j \in Due2'
    <3>1. \A r : Begin(r)[1] # "run_end" /\ StepBegin(r)[1] # "run_end"
      BY DEF Begin, StepBegin
    <3> QED
      BY <3>1, <1>0, <1>3, <1>7 DEF ReachInv
  <2>5. ASSUME followed' # Agent, followed' \notin active' PROVE Known'[End(followed')] # NoCursor
    <3>1. CASE followed \notin active
      BY <3>1, <2>5, <1>0, <1>3 DEF ReachInv
    <3>2. CASE followed \in active
      <4>1. f.what = "run_end" /\ f.of = followed
        BY <3>2, <2>5, <1>3 DEF BatchStep
      <4> QED
        BY <4>1, <1>1, <1>3 DEF End, k
    <3> QED
      BY <3>1, <3>2
  <2> QED
    BY <2>1, <2>2, <2>3, <2>4, <2>5 DEF ReachInv
<1> QED
  BY <1>4, <1>8

\* A fact, and a part that is filtered, change nothing in what parts the client awaits.
LEMMA BatchParts ==
    ASSUME Inv, BatchStep, heard' = heard,
           batch[1].what = "part" => batch[1].of \in suppressed
    PROVE  PartsInv'
<1> DEFINE f == batch[1]
<1>0. TypeInv /\ RecordsInv /\ OrderInv /\ FramesInv /\ ReachInv /\ PartsInv
  BY DEF Inv, OpenInv, BatchStep
<1>1. /\ Sources = {} /\ f \in FrameSet /\ f \in InBatch /\ FrameFits(f) /\ f.n <= reader /\ f.n \in 1 .. tail
      /\ \A g \in InBatch : g \in FrameSet /\ FrameFits(g) /\ (g = f \/ f.n < g.n)
  BY BatchIs DEF BatchStep
<1>2. InBatch' = InBatch \ {f} /\ Sources' = {}
  BY BatchRest DEF BatchStep
<1>3. /\ Known' = Known /\ InScope' = InScope /\ Unread' = Unread /\ at' = at /\ parts' = parts /\ lost' = lost
      /\ OpenSteps' = OpenSteps /\ suppressed' \subseteq suppressed
  BY DEF BatchStep, source, records, Known, InScope, Unread, OpenSteps, Happened
<1>4. \A r \in suppressed' : Known'[StepBegin(r)] # NoCursor /\ \A g \in InBatch' : <<g.what, g.of>> # StepBegin(r)
  BY <1>0, <1>2, <1>3 DEF PartsInv
<1>5. ASSUME ~lost', NEW r \in InScope' \ suppressed'
      PROVE  /\ \A g \in Awaited(r)' : g.part > heard'[r]
             /\ r \in OpenSteps' \/ Awaited(r)' # {} =>
                  \A p \in heard'[r] + 1 .. parts'[r] : \E g \in Awaited(r)' : g.part = p
  <2>0. r \in Runs
    BY <1>0, <1>3, <1>5 DEF InScope, TypeInv
  <2>1. CASE r \notin suppressed
    <3>1. /\ \A g \in Awaited(r) : g.part > heard[r]
          /\ r \in OpenSteps \/ Awaited(r) # {} =>
                \A p \in heard[r] + 1 .. parts[r] : \E g \in Awaited(r) : g.part = p
      BY <2>1, <1>0, <1>3, <1>5 DEF PartsInv
    <3>2. f.what # "part" \/ f.of # r
      BY <2>1
    <3>3. Awaited(r)' = Awaited(r)
      BY <3>2, <1>1, <1>2, <1>3 DEF Awaited
    <3> QED
      BY <3>1, <3>3, <1>3
  <2>2. CASE r \in suppressed
    <3>1. f.of = r /\ f.what \in {"step_begin", "step_end"}
      BY <2>2, <1>5 DEF BatchStep
    <3>2. f.what = "step_end"
      <4>1. <<f.what, f.of>> # StepBegin(r)
        BY <2>2, <1>0, <1>1 DEF PartsInv
      <4> QED
        BY <3>1, <4>1 DEF StepBegin
    <3>3. at[StepEnd(r)] = Cursor(epoch, f.n) /\ at[StepEnd(r)] # NoCursor /\ at[StepEnd(r)].n = f.n
      <4>1. at[StepEnd(r)] = Cursor(epoch, f.n)
        BY <3>1, <3>2, <1>1 DEF FrameFits, StepEnd
      <4>2. f.n # 0
        BY <1>0, <1>1 DEF TypeInv
      <4> QED
        BY <4>1, <4>2 DEF Cursor, NoCursor
    <3>4. Awaited(r)' = {}
      <4> SUFFICES ASSUME NEW g \in Awaited(r)' PROVE FALSE
        OBVIOUS
      <4>1. g \in InBatch' \/ g \in Unread
        BY <1>2, <1>3 DEF Awaited
      <4>2. g.what = "part" /\ g.of = r
        BY DEF Awaited
      <4>3. g \in FrameSet /\ FrameFits(g)
        BY <4>1, <1>0, <1>1, <1>2 DEF Unread, FramesInv, Frames, TypeInv
      <4>4. g.n < f.n
        BY <4>2, <4>3, <3>3, <1>0, FitsIs
      <4>5. f.n < g.n
        <5>1. CASE g \in InBatch'
          BY <5>1, <1>1, <1>2
        <5>2. CASE g \in Unread
          <6>1. reader < g.n /\ g.n \in Nat /\ f.n \in Nat /\ reader \in Nat
            BY <5>2, <4>3, <1>0, <1>1 DEF Unread, FrameSet, TypeInv
          <6> QED
            BY <6>1, <1>1
        <5> QED
          BY <4>1, <5>1, <5>2
      <4>6. f.n \in Nat /\ g.n \in Nat
        BY <4>3, <1>1 DEF FrameSet
      <4> QED
        BY <4>4, <4>5, <4>6
    <3>5. r \notin OpenSteps'
      BY <3>3, <1>3 DEF OpenSteps, Happened, StepEnd
    <3> QED
      BY <3>4, <3>5
  <2> QED
    BY <2>1, <2>2
<1> QED
  BY <1>4, <1>5 DEF PartsInv

\* Send by cases: a suppressed part, or a frame given to the client.
LEMMA SendIs ==
    ASSUME Inv, Send
    PROVE  /\ BatchStep
           /\ \/ batch[1].what = "part" /\ batch[1].of \in suppressed /\ UNCHANGED client
              \/ /\ batch[1].what = "part" => batch[1].of \notin suppressed
                 /\ cursor' = Cursor(epoch, batch[1].n) /\ staged' = <<>>
                 /\ heard' = IF batch[1].what = "part" THEN [heard EXCEPT ![batch[1].of] = batch[1].part] ELSE heard
                 /\ view' = IF batch[1].what = "part" THEN view
                            ELSE Applied(view, <<batch[1].what, batch[1].of>>, Cursor(epoch, batch[1].n))
<1>1. /\ link = "open" /\ ~lost /\ prefix = <<>> /\ batch # <<>> /\ batch' = Tail(batch)
      /\ UNCHANGED <<source, records, link, reader, lost, prefix, mark, missed, cuts, followed>>
      /\ active' = CASE Head(batch).what = "run_begin" -> active \cup {Head(batch).of}
                     [] Head(batch).what = "run_end" -> active \ {Head(batch).of}
                     [] OTHER -> active
      /\ suppressed' = IF Head(batch).what \in {"step_begin", "step_end"}
                       THEN suppressed \ {Head(batch).of} ELSE suppressed
      /\ IF Head(batch).what = "part" /\ Head(batch).of \in suppressed
         THEN UNCHANGED client ELSE Feed(Source(Head(batch)))
  BY DEF Send
<1>2. /\ staged = <<>> /\ batch[1] = Head(batch) /\ batch[1] \in FrameSet /\ batch[1].n \in 1 .. tail
      /\ cursor.e = epoch => cursor.n < batch[1].n
  BY <1>1, BatchIs
<1>3. TypeInv
  BY DEF Inv
<1>4. BatchStep
  BY <1>1, <1>2 DEF BatchStep
<1>5. ASSUME Feed(Source(batch[1]))
      PROVE  /\ cursor' = Cursor(epoch, batch[1].n) /\ staged' = <<>>
             /\ heard' = IF batch[1].what = "part" THEN [heard EXCEPT ![batch[1].of] = batch[1].part] ELSE heard
             /\ view' = IF batch[1].what = "part" THEN view
                        ELSE Applied(view, <<batch[1].what, batch[1].of>>, Cursor(epoch, batch[1].n))
  <2>1. PICK x : x = Source(batch[1])
    OBVIOUS
  <2>2. x.type = "source" /\ x.frame = batch[1] /\ x.at = Cursor(epoch, batch[1].n)
    BY <2>1 DEF Source
  <2>3. x.at.e = epoch /\ x.at.n = batch[1].n
    BY <2>2 DEF Cursor
  <2>4. ~(x.at.e = cursor.e /\ x.at.n <= cursor.n)
    BY <2>3, <1>2, <1>3 DEF TypeInv, CursorSet
  <2>5. Feed(x)
    BY <1>5, <2>1
  <2> QED
    BY <2>2, <2>4, <2>5, <1>2 DEF Feed, FeedReplacement, FeedEvent
<1> QED
  BY <1>1, <1>2, <1>4, <1>5

(* A live frame keeps the invariant; a part that is shown is the next of   *)
(* its step.                                                               *)
LEMMA SendKeeps ==
    ASSUME Inv, Send
    PROVE  /\ Inv'
           /\ \/ heard' = heard
              \/ \E f \in FrameSet : f.part = heard[f.of] + 1 /\ heard' = [heard EXCEPT ![f.of] = f.part]
<1> DEFINE f == batch[1]
           k == <<f.what, f.of>>
<1>1. BatchStep
  BY SendIs
<1>0. /\ TypeInv /\ RecordsInv /\ OrderInv /\ FramesInv /\ ViewInv /\ LinkInv /\ OpenInv /\ ReachInv
      /\ ReaderInv /\ PartsInv /\ BatchInv
  BY <1>1 DEF Inv, OpenInv, BatchStep
<1>2. /\ link = "open" /\ link' = "open" /\ ~lost /\ prefix = <<>> /\ prefix' = <<>> /\ batch # <<>> /\ batch' = Tail(batch)
      /\ UNCHANGED <<source, records, link, reader, lost, prefix, mark, missed, followed>>
      /\ active' \subseteq active \cup {f.of} /\ suppressed' \subseteq suppressed
  BY <1>1 DEF BatchStep
<1>3. /\ epoch' = epoch /\ tail' = tail /\ floor' = floor /\ ring' = ring /\ at' = at /\ parts' = parts
      /\ accepted' = accepted /\ missed' = missed /\ followed' = followed /\ reader' = reader /\ mark' = mark
  BY <1>2 DEF source, records
<1>4. /\ staged = <<>> /\ ~Replacing /\ Coming = view /\ Told = {} /\ Sources = {}
      /\ f \in FrameSet /\ f \in InBatch /\ FrameFits(f)
      /\ f.of \in InScope /\ f.n <= reader /\ f.n \in 1 .. tail
      /\ cursor.e = epoch => cursor.n < f.n
      /\ \A g \in InBatch : g \in FrameSet /\ FrameFits(g) /\ (g = f \/ f.n < g.n)
      /\ f.what # "part" => k \in Facts /\ at[k] = Cursor(epoch, f.n) /\ Known[k] = at[k] /\ at[k] # NoCursor
      /\ f.what = "part" => k \notin Facts
  BY <1>2, BatchIs
<1>5. /\ batch' \in Seq(FrameSet) /\ InBatch' = InBatch \ {f} /\ Sources' = {} /\ Frames' \subseteq Frames
      /\ \A i \in DOMAIN batch' : i + 1 \in DOMAIN batch /\ batch'[i] = batch[i + 1] /\ f.n < batch'[i].n
      /\ \A i, j \in DOMAIN batch' : i < j => batch'[i].n < batch'[j].n
  BY <1>2, <1>3, BatchRest
<1>6. RecordsInv' /\ OrderInv' /\ FramesInv'
  BY <1>2, <1>5, SameRecords
<1>7. f.of \in Runs /\ f.n \in Nat
  BY <1>4 DEF FrameSet
<1> HIDE DEF f, k
<1>8. /\ cursor' \in CursorSet
      /\ cursor' # NoCursor => cursor'.e \in 1 .. epoch
      /\ cursor'.e = epoch => cursor'.n <= f.n \/ cursor' = cursor
      /\ cursor'.e = epoch => cursor'.n <= reader /\ cursor'.n <= tail
      /\ staged' = <<>>
  <2>1. CASE UNCHANGED client
    BY <2>1, <1>0, <1>4 DEF client, TypeInv, ViewInv, ReaderInv
  <2>2. CASE cursor' = Cursor(epoch, f.n) /\ staged' = <<>>
    <3>1. cursor' = [e |-> epoch, n |-> f.n]
      BY <2>2 DEF Cursor
    <3> QED
      BY <3>1, <2>2, <1>0, <1>4, <1>7 DEF CursorSet, TypeInv, RecordsInv
  <2> QED
    BY <2>1, <2>2, SendIs DEF f
<1>9. BatchInv'
  <2>1. ASSUME NEW i \in DOMAIN batch'
        PROVE  /\ batch'[i].of \in InScope' /\ batch'[i].n <= reader'
               /\ cursor'.e = epoch' => cursor'.n < batch'[i].n
    <3>1. /\ i + 1 \in DOMAIN batch /\ batch'[i] = batch[i + 1] /\ f.n < batch'[i].n
          /\ batch[i + 1].of \in InScope /\ batch[i + 1].n <= reader
          /\ cursor.e = epoch => cursor.n < batch[i + 1].n
      BY <2>1, <1>0, <1>5 DEF BatchInv
    <3>2. batch'[i].n \in Nat
      <4>1. batch'[i] \in FrameSet
        BY <2>1, <1>5, ElementOfSeq
      <4> QED
        BY <4>1 DEF FrameSet
    <3>3. cursor'.n \in Nat
      BY <1>8 DEF CursorSet
    <3>4. ASSUME cursor'.e = epoch PROVE cursor'.n < batch'[i].n
      <4>1. CASE cursor'.n <= f.n
        BY <4>1, <3>1, <3>2, <3>3, <1>7
      <4>2. CASE cursor' = cursor
        BY <4>2, <3>1, <3>4
      <4> QED
        BY <4>1, <4>2, <3>4, <1>8
    <3> QED
      BY <3>1, <3>4, <1>3 DEF InScope
  <2> QED
    BY <2>1, <1>5 DEF BatchInv
<1>10. TypeInv' /\ ViewInv' /\ PartsInv' /\ ReachInv'
       /\ \/ heard' = heard
          \/ \E g \in FrameSet : g.part = heard[g.of] + 1 /\ heard' = [heard EXCEPT ![g.of] = g.part]
  <2>1. CASE f.what = "part" /\ f.of \in suppressed /\ UNCHANGED client
    <3>1. heard' = heard /\ view' = view /\ cursor' = cursor
      BY <2>1 DEF client
    <3>2. ViewInv'
      BY <3>1, <1>0, <1>2, SameView DEF TypeInv, ViewInv
    <3>3. PartsInv'
      BY <3>1, <2>1, <1>1, BatchParts DEF f
    <3>4. ReachInv'
      BY <3>1, <2>1, <1>1, <1>8, BatchReach DEF f
    <3>5. TypeInv'
      BY <3>1, <1>0, <1>2, <1>5, <1>7, <1>8 DEF TypeInv, source, records
    <3> QED
      BY <3>1, <3>2, <3>3, <3>4, <3>5
  <2>2. CASE /\ f.what # "part" /\ cursor' = Cursor(epoch, f.n) /\ heard' = heard
             /\ view' = Applied(view, k, Cursor(epoch, f.n))
    <3>1. ViewInv' /\ view' \in Views /\ Shows(view', Known, missed) /\ Adds(view, view', k)
      <4>1. k \in Facts /\ view' = Applied(view, k, Known[k]) /\ Known[k] # NoCursor
        BY <2>2, <1>4
      <4>2. /\ Above(k) \subseteq DOMAIN view
            /\ k[1] = "run_end" /\ k[2] \notin missed /\ Begin(k[2]) \in DOMAIN view => view[Begin(k[2])] = Known[Begin(k[2])]
        BY <4>1, <2>2, <1>2, BatchFollows DEF f, k
      <4>3. ASSUME NEW j \in Facts, j[2] \in InScope \ missed, Passed(at[j])'
            PROVE  Known[j] = at[j] /\ (j = k \/ (j \in DOMAIN view /\ view[j] = at[j]))
        BY <4>3, <2>2, <1>2, <1>3, PassedInBatch DEF f, k
      <4>4. /\ cursor' # NoCursor => cursor'.e \in 1 .. epoch
            /\ cursor'.e = epoch => cursor'.n <= tail
            /\ \A r \in Runs : heard'[r] <= parts[r]
        BY <2>2, <1>0, <1>8 DEF ViewInv
      <4> QED
        BY <4>1, <4>2, <4>3, <4>4, <1>2, <1>4, ViewAdds DEF Adds
    <3>3. PartsInv'
      BY <2>2, <1>1, BatchParts DEF f
    <3>4. ReachInv'
      BY <3>1, <2>2, <1>1, <1>8, BatchReach DEF f, k
    <3>5. TypeInv'
      BY <3>1, <2>2, <1>0, <1>2, <1>5, <1>7, <1>8 DEF TypeInv, source, records
    <3> QED
      BY <2>2, <3>1, <3>3, <3>4, <3>5
  <2>3. CASE /\ f.what = "part" /\ f.of \notin suppressed /\ cursor' = Cursor(epoch, f.n)
             /\ heard' = [heard EXCEPT ![f.of] = f.part] /\ view' = view
    <3>1. PartsInv' /\ f.part = heard[f.of] + 1 /\ heard' \in [Runs -> Nat] /\ \A r \in Runs : heard'[r] <= parts[r]
      <4>1. \A g \in Unread : f.n < g.n /\ g \in FrameSet
        <5>1. \A g \in Unread : g.n > reader /\ g \in FrameSet
          BY <1>0 DEF Unread, TypeInv
        <5>2. \A g \in FrameSet : g.n \in Nat
          BY DEF FrameSet
        <5> QED
          BY <5>1, <5>2, <1>0, <1>4, <1>7 DEF TypeInv
      <4>2. f \notin Unread /\ Unread' = Unread
        BY <4>1, <1>3, <1>7 DEF Unread
      <4>3. \A r \in Runs : Awaited(r)' = Awaited(r) \ {f}
        BY <4>2, <1>4, <1>5 DEF Awaited
      <4>4. \A g \in Awaited(f.of) : f.n <= g.n
        <5> SUFFICES ASSUME NEW g \in Awaited(f.of) PROVE f.n <= g.n
          OBVIOUS
        <5>1. g \in FrameSet /\ (g = f \/ f.n < g.n)
          BY <4>1, <1>4 DEF Awaited
        <5>2. f.n \in Nat /\ g.n \in Nat
          BY <5>1, <1>7 DEF FrameSet
        <5> QED
          BY <5>1, <5>2
      <4>5. UNCHANGED <<source, records, reader, suppressed, lost, followed>>
        <5>1. suppressed' = suppressed
          BY <2>3, <1>1 DEF BatchStep, f
        <5> QED
          BY <5>1, <1>2
      <4> QED
        BY <4>3, <4>4, <4>5, <2>3, <1>0, <1>2, <1>4, <1>5, PartTaken
    <3>2. ViewInv'
      <4>2. CursorIsReflected'
        <5> SUFFICES ASSUME NEW j \in Facts, j[2] \in InScope \ missed, Passed(at[j])'
                     PROVE  j \in DOMAIN view' /\ view'[j] = at[j]
          BY <1>3 DEF CursorIsReflected, InScope
        <5>1. j = k \/ (j \in DOMAIN view /\ view[j] = at[j])
          BY <2>3, <1>2, <1>3, PassedInBatch DEF f, k
        <5> QED
          BY <5>1, <2>3, <1>4
      <4>4. ViewIsNested' /\ missed' \subseteq Ended' /\ Shows(view, at, missed)'
        BY <2>3, <1>0, <1>3 DEF ViewInv, ViewIsNested, Ended, Happened, Shows
      <4> QED
        BY <4>2, <4>4, <3>1, <1>0, <1>3, <1>8 DEF ViewInv
    <3>4. ReachInv'
      BY <2>3, <1>1, <1>8, BatchReach DEF f
    <3>5. TypeInv'
      BY <3>1, <2>3, <1>0, <1>2, <1>5, <1>7, <1>8 DEF TypeInv, source, records
    <3> QED
      BY <2>3, <3>1, <3>2, <3>4, <3>5, <1>4
  <2> QED
    BY <2>1, <2>2, <2>3, SendIs DEF f, k
<1>11. LinkInv' /\ ReaderInv' /\ PrefixInv'
  BY <1>0, <1>2, <1>3, <1>4, <1>8 DEF LinkInv, EndIsComplete, ReaderInv, PrefixInv
<1> QED
  BY <1>2, <1>6, <1>9, <1>10, <1>11 DEF Inv, OpenInv

\* A checkpoint after the last batch.
LEMMA MarkIs ==
    ASSUME Inv, link = "open", prefix = <<>>, Due, Feed(Checkpoint(mark))
    PROVE  /\ mark = reader /\ staged = <<>> /\ Coming = view /\ Told = {} /\ InBatch = {} /\ view \in Views
           /\ cursor' = Cursor(epoch, reader) /\ view' = view /\ staged' = staged /\ heard' = heard
<1>0. TypeInv /\ ReaderInv
  BY DEF Inv, OpenInv
<1>1. mark = reader /\ staged = <<>> /\ Coming = view /\ Told = {} /\ InBatch = {} /\ view \in Views
  BY <1>0 DEF ReaderInv, Coming, Replacing, Told, InBatch, Due, TypeInv
<1>2. PICK x : x = Checkpoint(mark)
  OBVIOUS
<1>3. x.type = "checkpoint" /\ x.at = Cursor(epoch, reader)
  BY <1>1, <1>2 DEF Checkpoint
<1>4. Feed(x)
  BY <1>2
<1> QED
  BY <1>1, <1>3, <1>4 DEF Feed, FeedReplacement, FeedEvent

\* A checkpoint between batches keeps the invariant.
LEMMA SendCheckpointKeeps ==
    ASSUME Inv, SendCheckpoint
    PROVE  Inv' /\ heard' = heard
<1>1. /\ link = "open" /\ prefix = <<>> /\ Due /\ Feed(Checkpoint(mark))
      /\ UNCHANGED <<source, records, server, missed, cuts, followed>>
  BY DEF SendCheckpoint
<1>0. TypeInv /\ ViewInv /\ LinkInv /\ OpenInv /\ ReaderInv /\ PrefixInv /\ BatchInv /\ ReachInv /\ PartsInv
  BY <1>1 DEF Inv, OpenInv
<1>2. /\ mark = reader /\ staged = <<>> /\ Coming = view /\ Told = {} /\ InBatch = {} /\ view \in Views
      /\ cursor' = Cursor(epoch, reader) /\ view' = view /\ staged' = staged /\ heard' = heard
  BY <1>1, MarkIs
<1>3. /\ epoch' = epoch /\ tail' = tail /\ floor' = floor /\ ring' = ring /\ at' = at /\ parts' = parts
      /\ accepted' = accepted /\ alive' = alive /\ missed' = missed /\ followed' = followed /\ reader' = reader
      /\ mark' = mark /\ link' = link /\ lost' = lost /\ prefix' = prefix /\ batch' = batch /\ active' = active
      /\ suppressed' = suppressed
  BY <1>1 DEF source, records, server
<1>4. ViewInv' /\ cursor' \in CursorSet /\ cursor'.e = epoch /\ cursor'.n = reader
  BY <1>1, <1>2, ViewAtReader
<1>5. /\ Coming' = Coming /\ Told' = Told /\ InBatch' = InBatch /\ Sources' = Sources /\ Frames' = Frames
      /\ Known' = Known /\ Ahead' = Ahead /\ InScope' = InScope /\ Unread' = Unread /\ OpenSteps' = OpenSteps
  BY <1>2, <1>3 DEF Coming, Replacing, Replaced, Told, InBatch, Sources, Frames, Known, Ahead, InScope, Unread,
     OpenSteps, Happened
<1>6. RecordsInv' /\ OrderInv' /\ FramesInv'
  BY <1>1, <1>5, SameRecords
<1>7. PrefixInv' /\ BatchInv'
  <2>1. batch' = <<>> /\ prefix' = <<>>
    BY <1>1, <1>3 DEF Due
  <2> QED
    BY <2>1 DEF PrefixInv, BatchInv
<1>8. ReachInv'
  <2>1. Due2' = Due2
    BY <1>3, <1>5 DEF Due2
  <2>2. ASSUME NEW k \in Facts, Reaches(k) PROVE Reaches(k)'
    BY <2>2, <1>2, <1>3, <1>5 DEF Reaches
  <2>3. Shows(view', Known', missed') /\ Shows(Coming', Known', missed')
    BY <1>0, <1>2, <1>3, <1>5 DEF ReachInv
  <2>4. \A k \in Facts : k[2] \in InScope' \ missed' /\ Known'[k] # NoCursor => Reaches(k)'
    BY <2>2, <1>0, <1>3, <1>5 DEF ReachInv
  <2> QED
    BY <2>1, <2>3, <2>4, <1>0, <1>3, <1>5 DEF ReachInv
<1>9. PartsInv'
  <2>1. \A r \in Runs : Awaited(r)' = Awaited(r)
    BY <1>5 DEF Awaited
  <2>2. Steady
    BY <1>3 DEF Steady, source, records
  <2> QED
    BY <2>1, <2>2, <1>0, <1>2, <1>5, PartsSteady
<1>10. TypeInv' /\ LinkInv' /\ ReaderInv'
  BY <1>0, <1>1, <1>2, <1>3, <1>4 DEF TypeInv, LinkInv, EndIsComplete, ReaderInv
<1> QED
  BY <1>2, <1>3, <1>4, <1>6, <1>7, <1>8, <1>9, <1>10 DEF Inv, OpenInv

\* The stream of a run ends by itself: the end is shown.
LEMMA EndStreamKeeps ==
    ASSUME Inv, EndStream
    PROVE  Inv' /\ heard' = heard
<1>1. /\ link = "open" /\ ~lost /\ prefix = <<>> /\ batch = <<>> /\ Through /\ link' = "over"
      /\ UNCHANGED <<source, records, reader, lost, prefix, batch, mark, active, suppressed, missed, cuts, followed>>
      /\ \/ Due /\ Feed(Checkpoint(mark))
         \/ UNCHANGED client
  BY DEF EndStream
<1>0. TypeInv /\ ViewInv /\ LinkInv /\ ReaderInv /\ ReachInv
  BY <1>1 DEF Inv, OpenInv
<1>2. /\ staged = <<>> /\ Coming = view /\ Told = {} /\ InBatch = {} /\ Sources = {} /\ view \in Views
  BY <1>0, <1>1 DEF ReaderInv, Coming, Replacing, Told, InBatch, Sources, TypeInv
<1>3. /\ epoch' = epoch /\ tail' = tail /\ floor' = floor /\ ring' = ring /\ at' = at /\ parts' = parts
      /\ accepted' = accepted /\ alive' = alive /\ missed' = missed /\ followed' = followed /\ reader' = reader
      /\ mark' = mark /\ lost' = lost /\ prefix' = prefix /\ batch' = batch /\ active' = active
      /\ suppressed' = suppressed
  BY <1>1 DEF source, records
<1>4. view' = view /\ staged' = <<>> /\ heard' = heard
  BY <1>1, <1>2, MarkIs DEF client
<1>5. ViewInv' /\ cursor' \in CursorSet
  <2>1. CASE Due /\ Feed(Checkpoint(mark))
    <3>1. cursor' = Cursor(epoch, reader) /\ view' = Coming
      BY <2>1, <1>1, <1>2, MarkIs
    <3> QED
      BY <3>1, <1>1, <1>2, <1>4, ViewAtReader
  <2>2. CASE UNCHANGED client
    BY <2>2, <1>0, <1>1, SameView DEF client, TypeInv, ViewInv
  <2> QED
    BY <2>1, <2>2, <1>1
<1>6. End(followed) \in DOMAIN view'
  <2>1. followed # Agent /\ followed \in Runs /\ active = {} /\ InScope = {followed} /\ missed = {}
    BY <1>0, <1>1 DEF Through, InScope, TypeInv, ViewInv
  <2>2. End(followed) \in Facts /\ End(followed)[2] = followed
    BY <2>1, FactsOf
  <2>3. Known[End(followed)] # NoCursor
    BY <2>1, <1>0 DEF ReachInv
  <2>4. Reaches(End(followed))
    BY <2>1, <2>2, <2>3, <1>0 DEF ReachInv
  <2> QED
    BY <2>4, <1>2, <1>4 DEF Reaches
<1>7. RecordsInv' /\ OrderInv' /\ FramesInv'
  <2>1. Frames' = Frames
    BY <1>3 DEF Frames, Sources, InBatch
  <2> QED
    BY <2>1, <1>1, SameRecords
<1>8. TypeInv' /\ LinkInv'
  BY <1>0, <1>1, <1>3, <1>4, <1>5, <1>6 DEF TypeInv, LinkInv, EndIsComplete, End
<1> QED
  BY <1>1, <1>4, <1>5, <1>7, <1>8 DEF Inv, OpenInv

(* A lost connection keeps the invariant: the client keeps its view and    *)
(* its cursor.                                                             *)
LEMMA LostKeeps ==
    ASSUME Inv, SendOverflow \/ Disconnect
    PROVE  Inv' /\ heard' = [r \in Runs |-> 0]
<1>1. /\ Dropped
      /\ UNCHANGED <<source, records, reader, lost, mark, active, suppressed, cursor, view, missed, followed>>
  BY DEF SendOverflow, Disconnect
<1> QED
  BY <1>1, DroppedKeeps DEF Dropped

\* What is acquired: all that is unread up to the new position.
LEMMA AcquireIs ==
    ASSUME Inv, Acquire
    PROVE  /\ reader' \in Nat /\ reader < reader' /\ reader' <= tail /\ mark' = reader'
           /\ batch' \in Seq(FrameSet)
           /\ InBatch' = {f \in Unread : f.n <= reader' /\ f.of \in InScope}
           /\ \A i, j \in DOMAIN batch' : i < j => batch'[i].n < batch'[j].n
<1> DEFINE Lower(f) == {g \in Unread : g.n < f.n}
           scanned == {f \in Unread : Cardinality(Lower(f)) < BatchSize}
           S == {f \in scanned : f.of \in InScope}
           place == [f \in S |-> f.n]
<1>0. TypeInv /\ FramesInv
  BY DEF Inv
<1>1. /\ reader < tail /\ reader \in Nat /\ tail \in Nat
      /\ reader' = IF scanned = {} THEN tail
                   ELSE CHOOSE n \in 1 .. tail : (\E f \in scanned : f.n = n) /\ (\A f \in scanned : f.n <= n)
      /\ batch' = Ordered(S) /\ mark' = reader'
  BY <1>0 DEF Acquire, TypeInv
<1>2. /\ Unread \subseteq ring /\ IsFiniteSet(Unread) /\ Unread \subseteq FrameSet
      /\ \A f \in Unread : f.n \in Nat /\ f.n \in 1 .. tail /\ reader < f.n
      /\ \A f, g \in Unread : f.n = g.n => f = g
  <2>1. Unread \subseteq ring /\ Unread \subseteq Frames /\ Unread \subseteq FrameSet
    BY <1>0 DEF Unread, Frames, TypeInv
  <2>2. IsFiniteSet(Unread)
    BY <2>1, <1>0, FS_Subset DEF FramesInv
  <2>3. \A f \in Unread : f.n \in Nat /\ f.n \in 1 .. tail
    BY <2>1, <1>0 DEF FramesInv, FrameFits, FrameSet
  <2>4. \A f, g \in Unread : f.n = g.n => f = g
    BY <2>1, <1>0 DEF FramesInv
  <2>5. \A f \in Unread : reader < f.n
    <3>1. \A f \in Unread : f.n > reader
      BY DEF Unread
    <3> QED
      BY <3>1, <2>3, <1>1
  <2> QED
    BY <2>1, <2>2, <2>3, <2>4, <2>5
<1>3. ASSUME NEW f \in scanned, NEW g \in Unread, g.n <= f.n PROVE g \in scanned
  <2>1. f \in Unread /\ Cardinality(Lower(f)) < BatchSize
    OBVIOUS
  <2>2. f.n \in Nat /\ g.n \in Nat /\ \A h \in Unread : h.n \in Nat
    BY <1>2, <2>1
  <2>3. Lower(g) \subseteq Lower(f)
    BY <2>2, <1>3
  <2>4. IsFiniteSet(Lower(f)) /\ IsFiniteSet(Lower(g))
    BY <1>2, FS_Subset
  <2> HIDE DEF Lower
  <2>5. Cardinality(Lower(g)) <= Cardinality(Lower(f)) /\ Cardinality(Lower(g)) \in Nat /\ Cardinality(Lower(f)) \in Nat
    BY <2>3, <2>4, FS_Subset, FS_CardinalityType
  <2> QED
    BY <2>1, <2>5, BoundsAssumption
<1>4. ASSUME Unread # {} PROVE scanned # {}
  <2>1. PICK T \in SUBSET Nat : T = {f.n : f \in Unread}
    BY <1>2
  <2>2. T # {}
    BY <2>1, <1>4
  <2>3. PICK x \in T : \A y \in T : x <= y
    BY <2>2, Least
  <2>4. PICK f \in Unread : f.n = x
    BY <2>1, <2>3
  <2>5. Lower(f) = {}
    BY <2>1, <2>3, <2>4, <1>2
  <2>6. Cardinality(Lower(f)) = 0
    BY <2>5, FS_EmptySet
  <2>7. f \in scanned
    BY <2>6, BoundsAssumption
  <2> QED
    BY <2>7
<1> HIDE DEF Lower
<1>5. scanned \subseteq Unread
  OBVIOUS
<1> HIDE DEF scanned
<1>6. /\ reader' \in Nat /\ reader < reader' /\ reader' <= tail
      /\ S = {f \in Unread : f.n <= reader' /\ f.of \in InScope}
  <2>1. CASE scanned = {}
    <3>1. reader' = tail /\ Unread = {}
      BY <2>1, <1>1, <1>4
    <3> QED
      BY <3>1, <2>1, <1>1
  <2>2. CASE scanned # {}
    <3>1. PICK T \in SUBSET Nat : T = {tail - f.n : f \in scanned}
      <4>1. \A f \in scanned : tail - f.n \in Nat
        BY <1>1, <1>2, <1>5
      <4> QED
        BY <4>1
    <3>2. T # {}
      BY <2>2, <3>1
    <3>3. PICK x \in T : \A y \in T : x <= y
      BY <3>2, Least
    <3>4. PICK f \in scanned : tail - f.n = x
      BY <3>1, <3>3
    <3>5. f.n \in 1 .. tail /\ \A g \in scanned : g.n <= f.n
      <4>1. ASSUME NEW g \in scanned PROVE g.n <= f.n
        <5>1. tail - g.n \in T
          BY <3>1
        <5>2. tail - f.n <= tail - g.n
          BY <5>1, <3>3, <3>4
        <5> QED
          BY <5>2, <1>1, <1>2, <1>5
      <4> QED
        BY <4>1, <1>2, <1>5
    <3>6. reader' \in 1 .. tail /\ (\E g \in scanned : g.n = reader') /\ (\A g \in scanned : g.n <= reader')
      <4>1. \E n \in 1 .. tail : (\E g \in scanned : g.n = n) /\ (\A g \in scanned : g.n <= n)
        BY <3>5
      <4> QED
        BY <4>1, <2>2, <1>1
    <3>7. PICK g \in scanned : g.n = reader'
      BY <3>6
    <3>8. \A h \in Unread : h.n <= reader' => h \in scanned
      BY <3>7, <1>3
    <3>9. S = {h \in Unread : h.n <= reader' /\ h.of \in InScope}
      BY <3>6, <3>8, <1>5
    <3>10. reader' \in Nat /\ reader' <= tail /\ reader < reader'
      BY <3>6, <3>7, <1>1, <1>2, <1>5
    <3> QED
      BY <3>9, <3>10
  <2> QED
    BY <2>1, <2>2
<1>7. S \subseteq Unread
  BY <1>5
<1> HIDE DEF S
<1>8. IsFiniteSet(S) /\ S \subseteq FrameSet
  BY <1>2, <1>7, FS_Subset
<1>9. place \in [S -> Nat] /\ (\A x, y \in S : place[x] = place[y] => x = y) /\ (\A x \in S : place[x] = x.n)
  BY <1>2, <1>7
<1>10. batch' = InOrder(S, place)
  BY <1>1 DEF Ordered
<1> HIDE DEF place
<1>11. /\ batch' \in Seq(S)
       /\ \A x \in S : \E i \in DOMAIN batch' : batch'[i] = x
       /\ \A i, j \in DOMAIN batch' : i < j <=> place[batch'[i]] < place[batch'[j]]
  BY <1>8, <1>9, <1>10, InOrderFacts
<1>12. \A i \in DOMAIN batch' : batch'[i] \in S
  BY <1>11, ElementOfSeq
<1>13. InBatch' = S
  BY <1>11, <1>12 DEF InBatch
<1>14. batch' \in Seq(FrameSet)
  BY <1>8, <1>11
<1>15. \A i, j \in DOMAIN batch' : i < j => batch'[i].n < batch'[j].n
  BY <1>9, <1>11, <1>12
<1> QED
  BY <1>1, <1>6, <1>13, <1>14, <1>15

\* The acquisition of a batch keeps the invariant.
LEMMA AcquireKeeps ==
    ASSUME Inv, Acquire
    PROVE  Inv' /\ heard' = heard
<1>1. /\ link = "open" /\ ~lost /\ prefix = <<>> /\ batch = <<>>
      /\ UNCHANGED <<source, records, link, lost, prefix, active, suppressed, client, missed, cuts, followed>>
  BY DEF Acquire
<1>0. /\ TypeInv /\ RecordsInv /\ OrderInv /\ FramesInv /\ ViewInv /\ LinkInv /\ OpenInv /\ ReachInv
      /\ ReaderInv /\ PartsInv
  BY <1>1 DEF Inv, OpenInv
<1>2. /\ reader' \in Nat /\ reader < reader' /\ reader' <= tail /\ mark' = reader'
      /\ batch' \in Seq(FrameSet)
      /\ InBatch' = {f \in Unread : f.n <= reader' /\ f.of \in InScope}
      /\ \A i, j \in DOMAIN batch' : i < j => batch'[i].n < batch'[j].n
  BY AcquireIs
<1>3. /\ epoch' = epoch /\ tail' = tail /\ floor' = floor /\ ring' = ring /\ at' = at /\ parts' = parts
      /\ accepted' = accepted /\ alive' = alive /\ missed' = missed /\ followed' = followed
      /\ link' = link /\ lost' = lost /\ prefix' = prefix /\ active' = active /\ suppressed' = suppressed
      /\ cursor' = cursor /\ view' = view /\ staged' = staged /\ heard' = heard
      /\ InScope' = InScope /\ OpenSteps' = OpenSteps
  BY <1>1 DEF source, records, client, InScope, OpenSteps, Happened
<1>4. /\ staged = <<>> /\ Coming = view /\ Coming' = view /\ Told = {} /\ Told' = {} /\ InBatch = {} /\ Sources = {}
      /\ Sources' = {} /\ view \in Views
  BY <1>0, <1>1, <1>3 DEF ReaderInv, Coming, Replacing, Told, InBatch, Sources, TypeInv
<1>5. /\ reader \in Nat /\ tail \in Nat /\ floor \in Nat /\ floor <= reader
      /\ Unread \subseteq ring /\ \A f \in Unread : f \in FrameSet /\ FrameFits(f) /\ reader < f.n /\ f.n \in Nat
  <2>1. Unread \subseteq ring /\ \A f \in Unread : f \in FrameSet /\ FrameFits(f) /\ f.n > reader /\ f.n \in Nat
    BY <1>0 DEF Unread, TypeInv, FramesInv, Frames, FrameSet
  <2> QED
    BY <2>1, <1>0, <1>1 DEF TypeInv, ReaderInv
<1>6. InBatch' \subseteq Unread /\ Frames' \subseteq Frames
  BY <1>2, <1>3, <1>4, <1>5 DEF Frames
<1>7. RecordsInv' /\ OrderInv' /\ FramesInv'
  BY <1>1, <1>6, SameRecords
<1>8. ASSUME NEW f \in InBatch', f.what # "part"
      PROVE  <<f.what, f.of>> \in Facts /\ at[<<f.what, f.of>>].e = epoch /\ at[<<f.what, f.of>>].n = f.n
  <2>1. f \in FrameSet /\ FrameFits(f)
    BY <1>5, <1>6
  <2> QED
    BY <2>1, <1>0, <1>8, FitsIs
<1>9. ASSUME NEW k \in Facts, at[k].e = epoch, at[k].n > reader, at[k].n <= reader', k[2] \in InScope
      PROVE  \E f \in InBatch' : <<f.what, f.of>> = k
  <2>1. at[k].n \in Nat
    BY <1>0, KnownTypes
  <2>2. Frame(at[k].n, k[1], k[2], 0) \in ring
    BY <2>1, <1>0, <1>5, <1>9 DEF FramesInv
  <2>3. PICK f : f = Frame(at[k].n, k[1], k[2], 0)
    OBVIOUS
  <2>4. f \in ring /\ f.n = at[k].n /\ f.what = k[1] /\ f.of = k[2]
    BY <2>2, <2>3 DEF Frame
  <2>5. f \in Unread
    BY <2>4, <1>9 DEF Unread
  <2>6. f \in InBatch'
    BY <2>4, <2>5, <1>2, <1>9
  <2>7. k = <<k[1], k[2]>>
    BY FactsAre
  <2> QED
    BY <2>4, <2>6, <2>7
<1>10. Known' = [k \in Facts |-> IF at[k].e = epoch /\ at[k].n > reader' THEN NoCursor ELSE at[k]]
  BY <1>3 DEF Known
<1>11. /\ Known' \in [Facts -> CursorSet] /\ Known \in [Facts -> CursorSet]
       /\ \A k \in Facts : at[k] \in CursorSet /\ at[k].n \in Nat /\ (Known'[k] # NoCursor => Known'[k] = at[k])
       /\ \A k \in Facts : Known[k] # NoCursor => Known'[k] = Known[k] /\ Known[k] = at[k]
       /\ \A k \in Facts : Known'[k] # NoCursor /\ Known[k] = NoCursor => at[k].e = epoch /\ at[k].n > reader /\ at[k].n <= reader'
  <2>1. /\ Known \in [Facts -> CursorSet]
        /\ \A k \in Facts : at[k] \in CursorSet /\ at[k].n \in Nat
        /\ NoCursor \in CursorSet
    BY <1>0, KnownTypes
  <2>2. Known' \in [Facts -> CursorSet]
    BY <2>1, <1>10
  <2>3. \A k \in Facts : Known'[k] # NoCursor => Known'[k] = at[k]
    BY <1>10
  <2>4. \A k \in Facts : Known[k] # NoCursor => Known[k] = at[k] /\ ~(at[k].e = epoch /\ at[k].n > reader)
    BY DEF Known
  <2>5. \A k \in Facts : Known[k] # NoCursor => Known'[k] = at[k]
    BY <2>1, <2>4, <1>2, <1>5, <1>10
  <2>6. \A k \in Facts : Known'[k] # NoCursor /\ Known[k] = NoCursor => at[k].e = epoch /\ at[k].n > reader /\ at[k].n <= reader'
    <3> SUFFICES ASSUME NEW k \in Facts, Known'[k] # NoCursor, Known[k] = NoCursor
                 PROVE  at[k].e = epoch /\ at[k].n > reader /\ at[k].n <= reader'
      OBVIOUS
    <3>1. at[k] # NoCursor /\ ~(at[k].e = epoch /\ at[k].n > reader')
      BY <1>10
    <3>2. at[k].e = epoch /\ at[k].n > reader
      BY <3>1 DEF Known
    <3> QED
      BY <3>1, <3>2, <2>1, <1>2
  <2> QED
    BY <2>1, <2>2, <2>3, <2>4, <2>5, <2>6
<1>12. Shows(view, Known', missed)
  <2>1. \A r \in Runs : Known[End(r)] # NoCursor => Known'[Begin(r)] = Known[Begin(r)]
    <3> SUFFICES ASSUME NEW r \in Runs, Known[End(r)] # NoCursor PROVE Known'[Begin(r)] = Known[Begin(r)]
      OBVIOUS
    <3>1. Known[Begin(r)] = at[Begin(r)] /\ Begin(r) \in Facts
      BY <1>0, KnownBefore, FactsOf
    <3>2. CASE at[Begin(r)] = NoCursor
      BY <3>1, <3>2, <1>11
    <3>3. CASE at[Begin(r)] # NoCursor
      BY <3>1, <3>3, <1>11
    <3> QED
      BY <3>2, <3>3
  <2>2. PICK c \in [Facts -> CursorSet] : c = Known'
    BY <1>11
  <2>3. Shows(view, c, missed)
    <3>1. /\ \A k \in Facts : Known[k] # NoCursor => c[k] = Known[k]
          /\ \A r \in Runs : Known[End(r)] # NoCursor => c[Begin(r)] = Known[Begin(r)]
          /\ Shows(view, Known, missed)
      BY <2>1, <2>2, <1>0, <1>11 DEF ReachInv
    <3> QED
      BY <3>1, <1>4, <1>11, ShowsMore
  <2> QED
    BY <2>2, <2>3
<1>13. ASSUME NEW k \in Facts, k[2] \in InScope \ missed, Known'[k] # NoCursor PROVE Reaches(k)'
  <2>1. CASE Known[k] # NoCursor
    <3>1. Reaches(k)
      BY <2>1, <1>0, <1>13 DEF ReachInv
    <3> QED
      BY <3>1, <1>3, <1>4 DEF Reaches
  <2>2. CASE Known[k] = NoCursor
    <3>1. at[k].e = epoch /\ at[k].n > reader /\ at[k].n <= reader'
      BY <2>2, <1>11, <1>13
    <3> QED
      BY <3>1, <1>9, <1>13 DEF Reaches
  <2> QED
    BY <2>1, <2>2
<1>14. Due2' = Due2
  <2>1. Ahead' = {k \in Facts : k[2] \in InScope /\ at[k].e = epoch /\ at[k].n > reader'}
    BY <1>3 DEF Ahead
  <2>2. Due2 = {k \in Facts : k \in DOMAIN view \/ k \in Ahead}
    BY <1>4 DEF Due2
  <2>3. Due2' = {k \in Facts : k \in DOMAIN view \/ (\E f \in InBatch' : <<f.what, f.of>> = k) \/ k \in Ahead'}
    BY <1>3, <1>4 DEF Due2
  <2>4. ASSUME NEW k \in Ahead PROVE k \in Ahead' \/ \E f \in InBatch' : <<f.what, f.of>> = k
    <3>1. k \in Facts /\ k[2] \in InScope /\ at[k].e = epoch /\ at[k].n > reader
      BY <2>4 DEF Ahead
    <3>2. at[k].n > reader' \/ at[k].n <= reader'
      BY <3>1, <1>2, <1>11
    <3> QED
      BY <3>1, <3>2, <2>1, <1>9
  <2>5. Ahead' \subseteq Ahead
    BY <2>1, <1>2, <1>5, <1>11 DEF Ahead
  <2>6. ASSUME NEW k \in Facts, NEW f \in InBatch', <<f.what, f.of>> = k PROVE k \in Ahead
    <3>1. f.what # "part" /\ k[2] = f.of /\ f.of \in InScope /\ f.n > reader
      BY <2>6, <1>2, FactsAre DEF Kinds, Unread
    <3>2. at[k].e = epoch /\ at[k].n = f.n
      BY <3>1, <2>6, <1>8
    <3> QED
      BY <3>1, <3>2 DEF Ahead
  <2> QED
    BY <2>2, <2>3, <2>4, <2>5, <2>6
<1>15. ReachInv'
  <2>1. ASSUME followed' # Agent /\ followed' \notin active' PROVE Known'[End(followed')] # NoCursor
    <3>1. Known[End(followed)] # NoCursor /\ End(followed) \in Facts
      BY <2>1, <1>0, <1>3, FactsOf DEF ReachInv, TypeInv
    <3> QED
      BY <3>1, <1>3, <1>11
  <2>2. Shows(view', Known', missed') /\ Shows(Coming', Known', missed')
    BY <1>3, <1>4, <1>12
  <2>3. \A k \in Facts : k[2] \in InScope' \ missed' /\ Known'[k] # NoCursor => Reaches(k)'
    BY <1>3, <1>13
  <2>4. \A k \in Due2' : Above(k) \subseteq Due2'
    BY <1>0, <1>14 DEF ReachInv
  <2>5. \A r \in alive' \cap InScope' : \A k \in {Begin(r), StepBegin(r)} : at'[k] # NoCursor => k \in Due2'
    BY <1>0, <1>3, <1>14 DEF ReachInv
  <2> QED
    BY <2>1, <2>2, <2>3, <2>4, <2>5 DEF ReachInv
<1>16. PartsInv'
  <2>1. ASSUME NEW r \in suppressed'
        PROVE  Known'[StepBegin(r)] # NoCursor /\ \A f \in InBatch' : <<f.what, f.of>> # StepBegin(r)
    <3>1. r \in Runs /\ Known[StepBegin(r)] # NoCursor /\ StepBegin(r) \in Facts
      BY <2>1, <1>0, <1>3, FactsOf DEF PartsInv, TypeInv
    <3>2. ASSUME NEW f \in InBatch', <<f.what, f.of>> = StepBegin(r) PROVE FALSE
      <4>1. f.what # "part"
        BY <3>2 DEF StepBegin
      <4>2. at[StepBegin(r)].e = epoch /\ at[StepBegin(r)].n = f.n /\ reader < f.n /\ f.n \in Nat
        BY <4>1, <3>2, <1>5, <1>6, <1>8
      <4>3. at[StepBegin(r)].n <= reader
        BY <4>2, <3>1, <1>0, KnownTypes
      <4> QED
        BY <4>2, <4>3, <1>5
    <3> QED
      BY <3>1, <3>2, <1>11
  <2>2. ASSUME NEW r \in InScope PROVE Awaited(r)' = Awaited(r)
    <3>1. Unread' = {f \in ring : f.n > reader'}
      BY <1>3 DEF Unread
    <3>2. Awaited(r) = {f \in Unread : f.what = "part" /\ f.of = r}
      BY <1>4 DEF Awaited
    <3>3. Awaited(r)' = {f \in InBatch' \cup Unread' : f.what = "part" /\ f.of = r}
      BY <1>4 DEF Awaited
    <3>4. ASSUME NEW f \in Unread, f.of = r PROVE f \in InBatch' \/ f \in Unread'
      <4>1. f.n <= reader' \/ f.n > reader'
        BY <1>2, <1>5
      <4> QED
        BY <4>1, <3>1, <3>4, <1>2, <1>5
    <3>5. Unread' \subseteq Unread
      <4>1. ASSUME NEW f \in ring, f.n > reader' PROVE f.n > reader
        <5>1. f.n \in Nat
          BY <1>0 DEF TypeInv, FrameSet
        <5> QED
          BY <5>1, <4>1, <1>2, <1>5
      <4> QED
        BY <4>1, <3>1 DEF Unread
    <3> QED
      BY <3>2, <3>3, <3>4, <3>5, <1>6
  <2>3. ASSUME ~lost', NEW r \in InScope' \ suppressed'
        PROVE  /\ \A f \in Awaited(r)' : f.part > heard'[r]
               /\ r \in OpenSteps' \/ Awaited(r)' # {} =>
                    \A p \in heard'[r] + 1 .. parts'[r] : \E f \in Awaited(r)' : f.part = p
    <3>1. Awaited(r)' = Awaited(r)
      BY <2>2, <2>3, <1>3
    <3>2. /\ \A f \in Awaited(r) : f.part > heard[r]
          /\ r \in OpenSteps \/ Awaited(r) # {} =>
                \A p \in heard[r] + 1 .. parts[r] : \E f \in Awaited(r) : f.part = p
      BY <2>3, <1>0, <1>1, <1>3 DEF PartsInv
    <3> QED
      BY <3>1, <3>2, <1>3
  <2> QED
    BY <2>1, <2>3 DEF PartsInv
<1>17. BatchInv'
  <2>1. ASSUME NEW i \in DOMAIN batch'
        PROVE  /\ batch'[i].of \in InScope' /\ batch'[i].n <= reader'
               /\ cursor'.e = epoch' => cursor'.n < batch'[i].n
    <3>1. batch'[i] \in InBatch'
      BY <2>1 DEF InBatch
    <3>2. batch'[i].of \in InScope /\ batch'[i].n <= reader' /\ reader < batch'[i].n /\ batch'[i].n \in Nat
      BY <3>1, <1>2, <1>5
    <3>3. cursor.e = epoch => cursor.n <= reader
      BY <1>0 DEF ReaderInv
    <3>4. cursor.n \in Nat
      BY <1>0 DEF TypeInv, CursorSet
    <3> QED
      BY <3>2, <3>3, <3>4, <1>3, <1>5
  <2> QED
    BY <2>1, <1>2 DEF BatchInv
<1>18. ViewInv'
  BY <1>0, <1>1, <1>3, SameView DEF TypeInv, ViewInv
<1>19. TypeInv' /\ LinkInv' /\ PrefixInv'
  BY <1>0, <1>1, <1>2, <1>3 DEF TypeInv, LinkInv, EndIsComplete, PrefixInv
<1>20. ReaderInv'
  <2>1. floor <= reader' /\ (cursor.e = epoch => cursor.n <= reader')
    BY <1>0, <1>2, <1>5 DEF ReaderInv, TypeInv, CursorSet
  <2> QED
    BY <2>1, <1>0, <1>2, <1>3, <1>4 DEF ReaderInv
<1> QED
  BY <1>3, <1>7, <1>15, <1>16, <1>17, <1>18, <1>19, <1>20 DEF Inv, OpenInv

(***************************************************************************)
(* Replay of what is cached.                                               *)
(***************************************************************************)

(* The frames that may be replayed are recorded, in the scope and after    *)
(* the cursor.                                                             *)
LEMMA ReplayableIs ==
    ASSUME TypeInv, RecordsInv, OrderInv, FramesInv
    PROVE  /\ Replayed \subseteq Replayable /\ Replayable \subseteq ring /\ IsFiniteSet(Replayable)
           /\ \A f \in Replayable :
                 /\ f \in ring /\ f \in FrameSet /\ FrameFits(f) /\ f.n \in Nat /\ f.n <= tail /\ cursor.n < f.n
                 /\ f.of \in InScope /\ f.of \in accepted /\ f.of \in Runs /\ f.what \in Kinds \cup {"part"}
                 /\ f.what # "part" => /\ f \in Replayed /\ <<f.what, f.of>> \in Facts /\ at[<<f.what, f.of>>].e = epoch
                                       /\ at[<<f.what, f.of>>].n = f.n
           /\ \A f, g \in Replayable : f.n = g.n => f = g
<1>1. Replayed \subseteq Replayable /\ Replayable \subseteq ring
  BY DEF Replayed, Replayable, Cache
<1>2. IsFiniteSet(Replayable)
  BY <1>1, FS_Subset DEF FramesInv
<1>3. ASSUME NEW f \in Replayable
      PROVE  /\ f \in ring /\ f \in FrameSet /\ FrameFits(f) /\ f.n \in Nat /\ f.n <= tail /\ cursor.n < f.n
             /\ f.of \in InScope /\ f.of \in accepted /\ f.of \in Runs /\ f.what \in Kinds \cup {"part"}
  <2>1. f \in ring /\ f \in FrameSet /\ FrameFits(f) /\ cursor.n < f.n /\ f.of \in InScope
    BY DEF Replayable, Cache, FramesInv, Frames, TypeInv
  <2> QED
    BY <2>1 DEF FrameFits, FrameSet, TypeInv
<1>4. ASSUME NEW f \in Replayable, f.what # "part"
      PROVE  /\ f \in Replayed /\ <<f.what, f.of>> \in Facts /\ at[<<f.what, f.of>>].e = epoch
             /\ at[<<f.what, f.of>>].n = f.n
  <2>1. f \in FrameSet /\ FrameFits(f)
    BY <1>3
  <2>2. f \in Replayed
    BY <1>4 DEF Replayed
  <2> QED
    BY <2>1, <2>2, <1>4, FitsIs
<1>5. \A f, g \in Replayable : f.n = g.n => f = g
  BY <1>1 DEF FramesInv, Frames
<1> QED
  BY <1>1, <1>2, <1>3, <1>4, <1>5

\* Nothing is replayed whose ancestors come later, or are not known.
LEMMA AncestorsAre ==
    ASSUME TypeInv, RecordsInv, OrderInv, FramesInv, ~Gap, NEW f \in Replayable, NEW k \in Ancestors(f)
    PROVE  /\ k \in Facts /\ k[2] = f.of /\ f \in Needing(k) /\ f.of \in Runs
           /\ k = Begin(f.of) \/ (k = StepBegin(f.of) /\ f.what \in {"step_end", "part"})
           /\ at[k] # NoCursor /\ at[k].e = epoch /\ at[k].n \in Nat /\ at[k].n <= f.n
           /\ k[1] \in {"run_begin", "step_begin"} /\ Rank(k) \in {0, 1}
           /\ Begin(f.of) \in Ancestors(f)
<1>1. f.of \in Runs /\ f.what \in Kinds \cup {"part"}
  BY ReplayableIs
<1>2. /\ k = Begin(f.of) \/ (k = StepBegin(f.of) /\ f.what \in {"step_end", "part"})
      /\ Begin(f.of) \in Ancestors(f)
  BY <1>1 DEF Ancestors, Begin, StepBegin, Kinds
<1>3. k \in Facts /\ k[2] = f.of /\ k[1] \in {"run_begin", "step_begin"} /\ Rank(k) \in {0, 1}
  BY <1>1, <1>2, FactsOf DEF Rank
<1>4. at[k].e = epoch /\ ~(at[k].n > f.n)
  BY DEF Gap
<1>5. at[k].n \in Nat /\ f.n \in Nat /\ at[k] # NoCursor
  <2>1. epoch \in Nat /\ epoch >= 1
    BY DEF RecordsInv, TypeInv
  <2>2. at[k].n \in Nat /\ NoCursor.e = 0
    BY <1>3, KnownTypes
  <2>3. f.n \in Nat
    BY ReplayableIs
  <2>4. at[k] # NoCursor
    BY <2>1, <2>2, <1>4
  <2> QED
    BY <2>2, <2>3, <2>4
<1>6. f \in Needing(k)
  BY DEF Needing
<1> QED
  BY <1>1, <1>2, <1>3, <1>4, <1>5, <1>6

\* The first frame that needs a fact.
First(k) == CHOOSE f \in Needing(k) : \A g \in Needing(k) : f.n <= g.n

\* Of the frames that need a fact there is a first.
LEMMA FirstIs ==
    ASSUME TypeInv, RecordsInv, OrderInv, FramesInv, ~Gap, NEW k, Needing(k) # {}
    PROVE  /\ First(k) \in Needing(k) /\ First(k) \in Replayable /\ k \in Ancestors(First(k))
           /\ First(k).n \in Nat /\ First(k).of = k[2]
           /\ \A g \in Needing(k) : First(k).n <= g.n
<1>1. /\ Needing(k) \subseteq Replayable /\ \A f \in Needing(k) : k \in Ancestors(f)
  BY DEF Needing
<1>2. \A f \in Needing(k) : f.n \in Nat
  BY <1>1, ReplayableIs
<1>3. PICK T \in SUBSET Nat : T = {f.n : f \in Needing(k)}
  BY <1>2
<1>4. T # {}
  BY <1>3
<1>5. PICK x \in T : \A y \in T : x <= y
  BY <1>4, Least
<1>6. \E f \in Needing(k) : \A g \in Needing(k) : f.n <= g.n
  BY <1>3, <1>5
<1>7. First(k) \in Needing(k) /\ \A g \in Needing(k) : First(k).n <= g.n
  BY <1>6 DEF First
<1>8. First(k) \in Replayable /\ k \in Ancestors(First(k))
  BY <1>1, <1>7
<1>9. First(k).of = k[2]
  BY <1>8, AncestorsAre
<1> QED
  BY <1>2, <1>7, <1>8, <1>9

(* A Begin that is inserted is recorded, and has a place before the first  *)
(* frame that needs it.                                                    *)
LEMMA InsertedIs ==
    ASSUME TypeInv, RecordsInv, OrderInv, FramesInv, ~Gap, NEW k \in Inserted
    PROVE  /\ k \in Facts /\ Lacking(k) /\ Needing(k) # {} /\ k[2] \in InScope /\ k[2] \in accepted /\ k[2] \in Runs
           /\ at[k] # NoCursor /\ k \in {Begin(k[2]), StepBegin(k[2])} /\ Rank(k) \in {0, 1}
           /\ BurstPlace(Context(k)) = 3 * First(k).n + Rank(k)
<1>1. k \in Facts /\ Lacking(k) /\ Needing(k) # {}
  BY DEF Inserted
<1>2. First(k) \in Replayable /\ k \in Ancestors(First(k))
  BY <1>1, FirstIs
<1>3. /\ First(k).of = k[2] /\ at[k] # NoCursor /\ k \in {Begin(k[2]), StepBegin(k[2])} /\ Rank(k) \in {0, 1}
  BY <1>2, AncestorsAre
<1>4. k[2] \in InScope /\ k[2] \in accepted /\ k[2] \in Runs
  BY <1>2, <1>3, ReplayableIs
<1>5. BurstPlace(Context(k)) = 3 * First(k).n + Rank(k)
  <2>1. Context(k).type = "context" /\ Context(k).key = k
    BY <1>1, ContextIs
  <2> QED
    BY <2>1 DEF BurstPlace, First
<1> QED
  BY <1>1, <1>3, <1>4, <1>5

\* The frames and the Begins that come before them, in their order.
LEMMA BurstFacts ==
    ASSUME TypeInv, RecordsInv, OrderInv, FramesInv, ~Gap
    PROVE  LET b == InOrder(Burst, [x \in Burst |-> BurstPlace(x)]) IN
           /\ b \in Seq(Burst) /\ \A i \in DOMAIN b : b[i] \in Burst
           /\ \A x \in Burst : \E i \in DOMAIN b : b[i] = x
           /\ \A i, j \in DOMAIN b : i < j <=> BurstPlace(b[i]) < BurstPlace(b[j])
           /\ \A f \in Replayed : BurstPlace(Source(f)) = 3 * f.n + 2
<1> DEFINE place == [x \in Burst |-> BurstPlace(x)]
           b == InOrder(Burst, place)
<1>1. ASSUME NEW f \in Replayed PROVE BurstPlace(Source(f)) = 3 * f.n + 2 /\ f.n \in Nat /\ Source(f).type = "source"
  <2>1. f \in FrameSet /\ f.n \in Nat
    BY ReplayableIs
  <2>2. Source(f).type = "source" /\ Source(f).frame = f
    BY <2>1, SourceIs
  <2> QED
    BY <2>1, <2>2 DEF BurstPlace
<1>2. ASSUME NEW k \in Inserted
      PROVE  /\ BurstPlace(Context(k)) = 3 * First(k).n + Rank(k) /\ First(k).n \in Nat /\ Rank(k) \in {0, 1}
             /\ Context(k).type = "context"
  BY InsertedIs, FirstIs, ContextIs
<1>3. IsFiniteSet(Burst)
  <2>1. IsFiniteSet({Source(f) : f \in Replayed})
    <3>1. IsFiniteSet(Replayed)
      BY ReplayableIs, FS_Subset
    <3>2. PICK g : g = [f \in Replayed |-> Source(f)]
      OBVIOUS
    <3>3. IsFiniteSet({g[f] : f \in Replayed})
      BY <3>1, ImageIsFinite
    <3>4. {g[f] : f \in Replayed} = {Source(f) : f \in Replayed}
      BY <3>2
    <3> QED
      BY <3>3, <3>4
  <2>2. IsFiniteSet({Context(k) : k \in Inserted})
    <3>1. IsFiniteSet(Inserted)
      <4>1. Inserted \in SUBSET Facts /\ \A k \in Inserted : k[2] \in accepted
        BY InsertedIs
      <4>2. accepted \in SUBSET Runs /\ IsFiniteSet(accepted)
        BY DEF TypeInv
      <4> QED
        BY <4>1, <4>2, RecordedIsFinite
    <3>2. PICK g : g = [k \in Inserted |-> Context(k)]
      OBVIOUS
    <3>3. IsFiniteSet({g[k] : k \in Inserted})
      BY <3>1, ImageIsFinite
    <3>4. {g[k] : k \in Inserted} = {Context(k) : k \in Inserted}
      BY <3>2
    <3> QED
      BY <3>3, <3>4
  <2> QED
    BY <2>1, <2>2, FS_Union DEF Burst
<1>4. ASSUME NEW x \in Burst
      PROVE  (\E f \in Replayed : x = Source(f)) \/ (\E k \in Inserted : x = Context(k))
  BY DEF Burst
<1>5. ASSUME NEW x \in Burst PROVE BurstPlace(x) \in Nat
  <2>1. ASSUME NEW f \in Replayed, x = Source(f) PROVE BurstPlace(x) \in Nat
    BY <2>1, <1>1
  <2>2. ASSUME NEW k \in Inserted, x = Context(k) PROVE BurstPlace(x) \in Nat
    BY <2>2, <1>2
  <2> QED
    BY <2>1, <2>2, <1>4
<1>6. ASSUME NEW x \in Burst, NEW y \in Burst, BurstPlace(x) = BurstPlace(y) PROVE x = y
  <2>1. ASSUME NEW f \in Replayed, x = Source(f), NEW g \in Replayed, y = Source(g) PROVE x = y
    <3>1. 3 * f.n + 2 = 3 * g.n + 2 /\ f.n \in Nat /\ g.n \in Nat
      BY <2>1, <1>1, <1>6
    <3>2. f.n = g.n
      BY <3>1
    <3>3. f = g
      BY <3>2, ReplayableIs
    <3> QED
      BY <3>3, <2>1
  <2>2. ASSUME NEW f \in Replayed, NEW k \in Inserted, BurstPlace(Source(f)) = BurstPlace(Context(k)) PROVE FALSE
    <3>1. 3 * f.n + 2 = 3 * First(k).n + Rank(k) /\ f.n \in Nat /\ First(k).n \in Nat /\ Rank(k) \in {0, 1}
      BY <2>2, <1>1, <1>2
    <3> QED
      BY <3>1
  <2>3. ASSUME NEW k \in Inserted, x = Context(k), NEW j \in Inserted, y = Context(j) PROVE x = y
    <3>1. 3 * First(k).n + Rank(k) = 3 * First(j).n + Rank(j)
      BY <2>3, <1>2, <1>6
    <3>2. First(k).n = First(j).n /\ Rank(k) = Rank(j)
      BY <3>1, <1>2
    <3>3. First(k) \in Replayable /\ First(j) \in Replayable /\ First(k).of = k[2] /\ First(j).of = j[2]
      BY InsertedIs, FirstIs
    <3>4. k[2] = j[2]
      BY <3>2, <3>3, ReplayableIs
    <3>5. k \in {Begin(k[2]), StepBegin(k[2])} /\ j \in {Begin(k[2]), StepBegin(k[2])} /\ k[2] \in Runs
      BY <3>4, InsertedIs
    <3>6. Rank(Begin(k[2])) = 0 /\ Rank(StepBegin(k[2])) = 1
      BY DEF Rank, Begin, StepBegin
    <3> QED
      BY <3>2, <3>5, <3>6, <2>3
  <2> QED
    BY <2>1, <2>2, <2>3, <1>4, <1>6
<1>7. place \in [Burst -> Nat] /\ \A x \in Burst : place[x] = BurstPlace(x)
  BY <1>5
<1> HIDE DEF place
<1>8. \A x, y \in Burst : place[x] = place[y] => x = y
  BY <1>6, <1>7
<1>9. /\ b \in Seq(Burst)
      /\ \A x \in Burst : \E i \in DOMAIN b : b[i] = x
      /\ \A i, j \in DOMAIN b : i < j <=> place[b[i]] < place[b[j]]
  BY <1>3, <1>7, <1>8, InOrderFacts
<1>10. \A i \in DOMAIN b : b[i] \in Burst
  BY <1>9, ElementOfSeq
<1>11. \A i, j \in DOMAIN b : i < j <=> BurstPlace(b[i]) < BurstPlace(b[j])
  BY <1>7, <1>9, <1>10
<1> HIDE DEF b
<1>12. \A f \in Replayed : BurstPlace(Source(f)) = 3 * f.n + 2
  BY <1>1
<1> QED
  BY <1>9, <1>10, <1>11, <1>12 DEF b, place

\* What the end of a replay tells of what is open.
LEMMA RemainingFacts ==
    ASSUME TypeInv, NEW what \in Kinds, NEW R \in SUBSET accepted, NEW s, s = Remaining(what, R)
    PROVE  /\ s \in Seq(ContextSet)
           /\ \A i \in DOMAIN s : /\ s[i] = Context(s[i].key) /\ s[i].key \in Facts /\ s[i].key[1] = what /\ s[i].key[2] \in R
                                  /\ Lacking(s[i].key) /\ Needing(s[i].key) = {}
<1> DEFINE K == {k \in {what} \X R : Lacking(k) /\ Needing(k) = {}}
           keys == SetToSeq(K)
<1>1. R \subseteq Runs /\ IsFiniteSet(R)
  BY FS_Subset DEF TypeInv
<1>2. \A k \in K : k \in Facts /\ k[1] = what /\ k[2] \in R /\ Lacking(k) /\ Needing(k) = {}
  BY <1>1 DEF Facts, Kinds
<1>4. s = Contexts(keys)
  BY DEF Remaining
<1> HIDE DEF K
<1>5. IsFiniteSet(K)
  <2>1. R \in SUBSET Runs /\ K \in SUBSET Facts
    BY <1>1, <1>2
  <2> QED
    BY <2>1, <1>1, <1>2, RecordedIsFinite
<1>6. keys \in Seq(K) /\ \A x \in K : \E i \in DOMAIN keys : keys[i] = x
  BY <1>5, SetToSeqFacts
<1>7. \A i \in DOMAIN keys : keys[i] \in K
  BY <1>6, ElementOfSeq
<1>8. keys \in Seq(Facts)
  BY <1>2, <1>6, SeqMonotonic
<1> HIDE DEF keys
<1>9. /\ s \in Seq(ContextSet) /\ DOMAIN s = DOMAIN keys
      /\ \A i \in DOMAIN keys : s[i] = Context(keys[i]) /\ keys[i] \in Facts
  BY <1>4, <1>8, ContextsAre
<1>10. \A i \in DOMAIN s : s[i].key = keys[i]
  BY <1>9, ContextIs
<1>11. \A i \in DOMAIN s : /\ s[i] = Context(s[i].key) /\ s[i].key \in Facts /\ s[i].key[1] = what /\ s[i].key[2] \in R
                           /\ Lacking(s[i].key) /\ Needing(s[i].key) = {}
  BY <1>2, <1>7, <1>9, <1>10
<1> QED
  BY <1>9, <1>11

\* An open Begin that no replayed frame needs is told at the end.
LEMMA RemainingHas ==
    ASSUME TypeInv, NEW what \in Kinds, NEW R \in SUBSET accepted, NEW k \in {what} \X R, Lacking(k), Needing(k) = {}
    PROVE  \E i \in DOMAIN Remaining(what, R) : Remaining(what, R)[i].key = k
<1> DEFINE K == {x \in {what} \X R : Lacking(x) /\ Needing(x) = {}}
           keys == SetToSeq(K)
           s == Remaining(what, R)
<1>1. R \subseteq Runs /\ IsFiniteSet(R)
  BY FS_Subset DEF TypeInv
<1>2. \A x \in K : x \in Facts /\ x[2] \in R
  BY <1>1 DEF Facts, Kinds
<1>3. k \in K
  OBVIOUS
<1>4. s = Contexts(keys)
  BY DEF Remaining
<1> HIDE DEF K
<1>5. IsFiniteSet(K)
  <2>1. R \in SUBSET Runs /\ K \in SUBSET Facts
    BY <1>1, <1>2
  <2> QED
    BY <2>1, <1>1, <1>2, RecordedIsFinite
<1>6. keys \in Seq(K) /\ \E i \in DOMAIN keys : keys[i] = k
  BY <1>3, <1>5, SetToSeqFacts
<1>8. keys \in Seq(Facts)
  BY <1>2, <1>6, SeqMonotonic
<1> HIDE DEF keys, s
<1>9. /\ DOMAIN s = DOMAIN keys
      /\ \A i \in DOMAIN keys : s[i] = Context(keys[i]) /\ keys[i] \in Facts
  BY <1>4, <1>8, ContextsAre
<1>10. \E i \in DOMAIN s : s[i].key = k
  BY <1>6, <1>9, ContextIs
<1> QED
  BY <1>10 DEF s

BurstSeq == InOrder(Burst, [x \in Burst |-> BurstPlace(x)])

\* Whatever is told, or needed, is found among the frames or before them.
LEMMA BurstHas ==
    ASSUME TypeInv, RecordsInv, OrderInv, FramesInv, ~Gap, NEW a \in Facts
    PROVE  /\ ~Lacking(a) => \E g \in Replayed : /\ Key(Source(g)) = a /\ at[a].e = epoch /\ at[a].n = g.n
                                                /\ \E j \in DOMAIN BurstSeq : BurstSeq[j] = Source(g)
           /\ Lacking(a) /\ Needing(a) # {} =>
                 a \in Inserted /\ Key(Context(a)) = a /\ \E j \in DOMAIN BurstSeq : BurstSeq[j] = Context(a)
<1>1. \A x \in Burst : \E i \in DOMAIN BurstSeq : BurstSeq[i] = x
  BY BurstFacts DEF BurstSeq
<1>2. ASSUME ~Lacking(a)
      PROVE  \E g \in Replayed : /\ Key(Source(g)) = a /\ at[a].e = epoch /\ at[a].n = g.n
                                 /\ \E j \in DOMAIN BurstSeq : BurstSeq[j] = Source(g)
  <2>1. PICK g \in Replayable : <<g.what, g.of>> = a
    BY <1>2 DEF Lacking
  <2>2. g.what # "part"
    BY <2>1, FactsAre DEF Kinds
  <2>3. g \in Replayed /\ at[a].e = epoch /\ at[a].n = g.n /\ g \in FrameSet
    BY <2>1, <2>2, ReplayableIs
  <2>4. Key(Source(g)) = a
    BY <2>1, <2>3, SourceIs
  <2>5. Source(g) \in Burst
    BY <2>3 DEF Burst
  <2> QED
    BY <2>3, <2>4, <2>5, <1>1
<1>3. ASSUME Lacking(a), Needing(a) # {}
      PROVE  a \in Inserted /\ Key(Context(a)) = a /\ \E j \in DOMAIN BurstSeq : BurstSeq[j] = Context(a)
  <2>1. a \in Inserted /\ Context(a) \in Burst
    BY <1>3 DEF Inserted, Burst
  <2> QED
    BY <2>1, <1>1, ContextIs
<1> QED
  BY <1>2, <1>3

\* What comes before a frame.
LEMMA BurstBefore ==
    ASSUME TypeInv, RecordsInv, OrderInv, FramesInv, ~Gap,
           NEW i \in DOMAIN BurstSeq, NEW f \in Replayed, BurstSeq[i] = Source(f)
    PROVE  /\ \A a \in Ancestors(f) : \E j \in DOMAIN BurstSeq : j < i /\ Key(BurstSeq[j]) = a
           /\ \A j \in DOMAIN BurstSeq : f.what = "run_end" /\ Key(BurstSeq[j]) = Begin(f.of) => j < i
<1>0. /\ \A j \in DOMAIN BurstSeq : BurstSeq[j] \in Burst
      /\ \A j, k \in DOMAIN BurstSeq : j < k <=> BurstPlace(BurstSeq[j]) < BurstPlace(BurstSeq[k])
      /\ \A g \in Replayed : BurstPlace(Source(g)) = 3 * g.n + 2
  BY BurstFacts DEF BurstSeq
<1>1. f \in Replayable /\ f \in FrameSet /\ f.n \in Nat /\ BurstPlace(BurstSeq[i]) = 3 * f.n + 2
  BY <1>0, ReplayableIs
<1>2. ASSUME NEW a \in Ancestors(f) PROVE <<f.what, f.of>> # a
  <2>1. a = Begin(f.of) \/ (a = StepBegin(f.of) /\ f.what \in {"step_end", "part"})
    BY <1>1, AncestorsAre
  <2>2. f.what # "run_begin"
    BY DEF Ancestors
  <2> QED
    BY <2>1, <2>2 DEF Begin, StepBegin
<1>3. ASSUME NEW a \in Ancestors(f), NEW g \in Replayed, Key(Source(g)) = a, at[a].n = g.n, NEW j \in DOMAIN BurstSeq,
             BurstSeq[j] = Source(g)
      PROVE  j < i
  <2>1. g.n \in Nat /\ g \in Replayable /\ g \in FrameSet
    BY ReplayableIs
  <2>2. <<g.what, g.of>> = a
    BY <2>1, <1>3, SourceIs
  <2>3. g # f /\ g.n <= f.n
    BY <2>2, <1>1, <1>2, <1>3, AncestorsAre
  <2>4. g.n < f.n
    BY <2>1, <2>3, <1>1, ReplayableIs
  <2>5. 3 * g.n + 2 < 3 * f.n + 2
    BY <2>1, <2>4, <1>1
  <2> QED
    BY <2>5, <1>0, <1>1, <1>3
<1>4. ASSUME NEW a \in Ancestors(f), a \in Inserted, NEW j \in DOMAIN BurstSeq, BurstSeq[j] = Context(a)
      PROVE  j < i
  <2>1. f \in Needing(a)
    BY <1>1 DEF Needing
  <2>2. BurstPlace(Context(a)) = 3 * First(a).n + Rank(a) /\ Rank(a) \in {0, 1}
    BY <1>4, InsertedIs
  <2>3. First(a).n \in Nat /\ First(a).n <= f.n
    BY <2>1, FirstIs
  <2>4. 3 * First(a).n + Rank(a) < 3 * f.n + 2
    BY <2>2, <2>3, <1>1
  <2> QED
    BY <2>2, <2>4, <1>0, <1>1, <1>4
<1>5. ASSUME NEW a \in Ancestors(f) PROVE \E j \in DOMAIN BurstSeq : j < i /\ Key(BurstSeq[j]) = a
  <2>1. a \in Facts /\ Needing(a) # {}
    BY <1>1, AncestorsAre
  <2>2. CASE ~Lacking(a)
    <3>1. PICK g \in Replayed : /\ Key(Source(g)) = a /\ at[a].e = epoch /\ at[a].n = g.n
                                /\ \E j \in DOMAIN BurstSeq : BurstSeq[j] = Source(g)
      BY <2>1, <2>2, BurstHas
    <3>2. PICK j \in DOMAIN BurstSeq : BurstSeq[j] = Source(g)
      BY <3>1
    <3> QED
      BY <3>1, <3>2, <1>3
  <2>3. CASE Lacking(a)
    <3>1. a \in Inserted /\ Key(Context(a)) = a /\ \E j \in DOMAIN BurstSeq : BurstSeq[j] = Context(a)
      BY <2>1, <2>3, BurstHas
    <3>2. PICK j \in DOMAIN BurstSeq : BurstSeq[j] = Context(a)
      BY <3>1
    <3> QED
      BY <3>1, <3>2, <1>4
  <2> QED
    BY <2>2, <2>3
<1>6. ASSUME NEW j \in DOMAIN BurstSeq, f.what = "run_end", Key(BurstSeq[j]) = Begin(f.of) PROVE j < i
  <2>1. Begin(f.of) \in Ancestors(f)
    BY <1>6 DEF Ancestors, Begin
  <2>2. BurstSeq[j] \in Burst
    BY <1>0
  <2>3. ASSUME NEW g \in Replayed, BurstSeq[j] = Source(g) PROVE j < i
    <3>1. g \in Replayable /\ g \in FrameSet
      BY ReplayableIs
    <3>2. <<g.what, g.of>> = Begin(f.of)
      BY <3>1, <2>3, <1>6, SourceIs
    <3>3. g.what # "part"
      BY <3>2 DEF Begin
    <3>4. at[Begin(f.of)].n = g.n
      BY <3>1, <3>2, <3>3, ReplayableIs
    <3> QED
      BY <3>4, <2>1, <2>3, <1>3, <1>6
  <2>4. ASSUME NEW a \in Inserted, BurstSeq[j] = Context(a) PROVE j < i
    <3>1. a \in Facts
      BY InsertedIs
    <3>2. a = Begin(f.of)
      BY <3>1, <2>4, <1>6, ContextIs
    <3> QED
      BY <3>2, <2>1, <2>4, <1>4
  <2> QED
    BY <2>2, <2>3, <2>4 DEF Burst
<1> QED
  BY <1>5, <1>6

\* What comes before the Begin of a step.
LEMMA BurstNested ==
    ASSUME TypeInv, RecordsInv, OrderInv, FramesInv, ~Gap,
           NEW i \in DOMAIN BurstSeq, NEW k \in Inserted, BurstSeq[i] = Context(k)
    PROVE  \A a \in Above(k) : \E j \in DOMAIN BurstSeq : j < i /\ Key(BurstSeq[j]) = a
<1>0. /\ \A j \in DOMAIN BurstSeq : BurstSeq[j] \in Burst
      /\ \A j, m \in DOMAIN BurstSeq : j < m <=> BurstPlace(BurstSeq[j]) < BurstPlace(BurstSeq[m])
      /\ \A g \in Replayed : BurstPlace(Source(g)) = 3 * g.n + 2
  BY BurstFacts DEF BurstSeq
<1>1. /\ k \in Facts /\ Needing(k) # {} /\ k[2] \in Runs /\ k \in {Begin(k[2]), StepBegin(k[2])}
      /\ BurstPlace(Context(k)) = 3 * First(k).n + Rank(k)
  BY InsertedIs
<1>2. CASE k = Begin(k[2])
  <2>1. k[1] = "run_begin"
    BY <1>2, <1>1, FactsOf
  <2> QED
    BY <2>1 DEF Above
<1>3. CASE k = StepBegin(k[2])
  <2> DEFINE f == First(k)
             a == Begin(k[2])
  <2>1. k[1] = "step_begin" /\ Above(k) = {a} /\ Rank(k) = 1 /\ a \in Facts /\ Rank(a) = 0 /\ a # k
    <3>1. k[1] = "step_begin" /\ a \in Facts /\ a[1] = "run_begin"
      BY <1>1, <1>3, FactsOf
    <3> QED
      BY <3>1 DEF Above, Rank
  <2>2. f \in Replayable /\ k \in Ancestors(f) /\ f.n \in Nat /\ f.of = k[2]
    BY <1>1, FirstIs
  <2>3. /\ a \in Ancestors(f) /\ f.what \in {"step_end", "part"}
    BY <2>1, <2>2, AncestorsAre
  <2>4. f \in Needing(a) /\ at[a].n <= f.n
    BY <2>2, <2>3, AncestorsAre
  <2> HIDE DEF f, a
  <2>5. BurstPlace(BurstSeq[i]) = 3 * f.n + 1
    BY <1>1, <2>1 DEF f
  <2>6. CASE ~Lacking(a)
    <3>1. PICK g \in Replayed : /\ Key(Source(g)) = a /\ at[a].e = epoch /\ at[a].n = g.n
                                /\ \E j \in DOMAIN BurstSeq : BurstSeq[j] = Source(g)
      BY <2>1, <2>6, BurstHas
    <3>2. PICK j \in DOMAIN BurstSeq : BurstSeq[j] = Source(g)
      BY <3>1
    <3>3. g \in Replayable /\ g \in FrameSet /\ g.n \in Nat
      BY ReplayableIs
    <3>4. <<g.what, g.of>> = a
      BY <3>1, <3>3, SourceIs
    <3>5. g # f
      BY <3>4, <2>3 DEF a, Begin
    <3>6. g.n < f.n
      BY <3>1, <3>3, <3>5, <2>2, <2>4, ReplayableIs
    <3>7. 3 * g.n + 2 < 3 * f.n + 1
      BY <3>3, <3>6, <2>2
    <3>8. j < i
      BY <3>2, <3>7, <2>5, <1>0
    <3> QED
      BY <3>1, <3>2, <3>8, <2>1
  <2>7. CASE Lacking(a)
    <3>1. a \in Inserted /\ Key(Context(a)) = a /\ \E j \in DOMAIN BurstSeq : BurstSeq[j] = Context(a)
      BY <2>1, <2>4, <2>7, BurstHas
    <3>2. PICK j \in DOMAIN BurstSeq : BurstSeq[j] = Context(a)
      BY <3>1
    <3>3. BurstPlace(Context(a)) = 3 * First(a).n + 0 /\ First(a).n \in Nat /\ First(a).n <= f.n
      BY <3>1, <2>1, <2>4, InsertedIs, FirstIs
    <3>4. 3 * First(a).n + 0 < 3 * f.n + 1
      BY <3>3, <2>2
    <3>5. j < i
      BY <3>2, <3>3, <3>4, <2>5, <1>0
    <3> QED
      BY <3>1, <3>2, <3>5, <2>1
  <2> QED
    BY <2>6, <2>7
<1> QED
  BY <1>1, <1>2, <1>3

\* What a frame is nested in is among its ancestors.
LEMMA AboveIsAncestor ==
    ASSUME NEW f, NEW a \in Above(<<f.what, f.of>>)
    PROVE  a \in Ancestors(f)
BY DEF Above, Ancestors, Begin, StepBegin

\* A run with an open step has not ended.
LEMMA OpenIsNotEnded ==
    ASSUME OrderInv, NEW r \in Runs, r \in OpenSteps
    PROVE  r \in accepted /\ r \notin Ended /\ at[StepBegin(r)] # NoCursor
BY DEF OrderInv, OpenSteps, Ended, Happened, StepBegin, StepEnd, End

\* replay(): the frames after the cursor, and what is needed before each of them.
LEMMA ReplayFacts ==
    ASSUME TypeInv, RecordsInv, OrderInv, FramesInv, ~Gap
    PROVE  LET p == Replay IN
           /\ p \in Seq(ItemSet)
           /\ \A i \in DOMAIN p :
                 \/ \E f \in Replayed : p[i] = Source(f)
                 \/ /\ p[i] = Context(p[i].key) /\ p[i].key \in Facts /\ p[i].key[2] \in InScope
                    /\ p[i].key[1] # "run_begin" => at[p[i].key] # NoCursor
           /\ \A f \in Replayed : \E i \in DOMAIN p : p[i] = Source(f)
           /\ \A i, j \in DOMAIN p : i < j /\ p[i].type = "source" /\ p[j].type = "source" => p[i].frame.n < p[j].frame.n
           /\ \A i \in DOMAIN p : \A a \in Above(Key(p[i])) : \E j \in DOMAIN p : j < i /\ Key(p[j]) = a
           /\ \A i, j \in DOMAIN p : \A r \in Runs : Key(p[i]) = End(r) /\ Key(p[j]) = Begin(r) => j < i
<1> DEFINE b == BurstSeq
           s == Remaining("run_begin", Selected \ Ended)
           t == Remaining("step_begin", Selected \cap OpenSteps)
           p == Replay
<1>1. p = b \o s \o t
  BY DEF Replay, BurstSeq
<1>2. Selected \subseteq accepted /\ Selected \subseteq InScope /\ accepted \subseteq Runs
  BY DEF Selected, TypeInv
<1>3. /\ b \in Seq(Burst) /\ (\A i \in DOMAIN b : b[i] \in Burst)
      /\ \A x \in Burst : \E i \in DOMAIN b : b[i] = x
      /\ \A i, j \in DOMAIN b : i < j <=> BurstPlace(b[i]) < BurstPlace(b[j])
      /\ \A f \in Replayed : BurstPlace(Source(f)) = 3 * f.n + 2
  BY BurstFacts DEF BurstSeq
<1>4. /\ s \in Seq(ContextSet)
      /\ \A i \in DOMAIN s : /\ s[i] = Context(s[i].key) /\ s[i].key \in Facts /\ s[i].key[1] = "run_begin"
                             /\ s[i].key[2] \in Selected \ Ended /\ Needing(s[i].key) = {}
  <2>1. PICK R \in SUBSET accepted : R = Selected \ Ended
    BY <1>2
  <2>2. "run_begin" \in Kinds
    BY DEF Kinds
  <2>3. PICK u : u = Remaining("run_begin", R)
    OBVIOUS
  <2>4. /\ u \in Seq(ContextSet)
        /\ \A i \in DOMAIN u : /\ u[i] = Context(u[i].key) /\ u[i].key \in Facts /\ u[i].key[1] = "run_begin" /\ u[i].key[2] \in R
                               /\ Needing(u[i].key) = {}
    BY <2>2, <2>3, RemainingFacts
  <2> QED
    BY <2>1, <2>3, <2>4
<1>5. /\ t \in Seq(ContextSet)
      /\ \A i \in DOMAIN t : /\ t[i] = Context(t[i].key) /\ t[i].key \in Facts /\ t[i].key[1] = "step_begin"
                             /\ t[i].key[2] \in Selected \cap OpenSteps
  <2>1. PICK R \in SUBSET accepted : R = Selected \cap OpenSteps
    BY <1>2
  <2>2. "step_begin" \in Kinds
    BY DEF Kinds
  <2>3. PICK u : u = Remaining("step_begin", R)
    OBVIOUS
  <2>4. /\ u \in Seq(ContextSet)
        /\ \A i \in DOMAIN u : u[i] = Context(u[i].key) /\ u[i].key \in Facts /\ u[i].key[1] = "step_begin" /\ u[i].key[2] \in R
    BY <2>2, <2>3, RemainingFacts
  <2> QED
    BY <2>1, <2>3, <2>4
<1>6. ASSUME NEW x \in Burst
      PROVE  /\ x \in ItemSet
             /\ \/ \E f \in Replayed : x = Source(f)
                \/ x.key \in Inserted /\ x = Context(x.key) /\ x.key \in Facts /\ x.type = "context" /\ Key(x) = x.key
  <2>1. ASSUME NEW f \in Replayed, x = Source(f) PROVE x \in ItemSet
    <3>1. f \in FrameSet
      BY ReplayableIs
    <3> QED
      BY <3>1, <2>1, SourceIs DEF ItemSet
  <2>2. ASSUME NEW k \in Inserted, x = Context(k)
        PROVE  /\ x \in ItemSet
               /\ x.key \in Inserted /\ x = Context(x.key) /\ x.key \in Facts /\ x.type = "context" /\ Key(x) = x.key
    <3>1. k \in Facts
      BY InsertedIs
    <3>2. x \in ContextSet /\ x.key = k /\ x.type = "context" /\ Key(x) = k
      BY <3>1, <2>2, ContextIs
    <3> QED
      BY <3>1, <3>2, <2>2 DEF ItemSet
  <2> QED
    BY <2>1, <2>2 DEF Burst
<1>7. b \in Seq(ItemSet) /\ s \in Seq(ItemSet) /\ t \in Seq(ItemSet)
  <2>1. Burst \subseteq ItemSet
    BY <1>6
  <2>2. ContextSet \subseteq ItemSet
    BY DEF ItemSet
  <2> HIDE DEF b, s, t
  <2> QED
    BY <2>1, <2>2, <1>3, <1>4, <1>5, SeqMonotonic
<1> HIDE DEF b, s, t, p
<1>8. /\ p \in Seq(ItemSet) /\ Len(b) \in Nat /\ Len(s) \in Nat
      /\ DOMAIN b = 1 .. Len(b) /\ DOMAIN s = 1 .. Len(s)
      /\ \A i \in DOMAIN b : i \in DOMAIN p /\ p[i] = b[i]
      /\ \A j \in DOMAIN s : Len(b) + j \in DOMAIN p /\ p[Len(b) + j] = s[j]
      /\ \A j \in DOMAIN t : Len(b) + Len(s) + j \in DOMAIN p /\ p[Len(b) + Len(s) + j] = t[j]
      /\ \A i \in DOMAIN p : \/ i \in DOMAIN b
                             \/ \E j \in DOMAIN s : i = Len(b) + j
                             \/ \E j \in DOMAIN t : i = Len(b) + Len(s) + j
      /\ DOMAIN t = 1 .. Len(t)
  <2>1. PICK q : q = b \o s
    OBVIOUS
  <2>2. /\ q \in Seq(ItemSet) /\ Len(b) \in Nat /\ Len(q) = Len(b) + Len(s)
        /\ DOMAIN b = 1 .. Len(b) /\ DOMAIN s = 1 .. Len(s) /\ DOMAIN q = 1 .. Len(b) + Len(s)
        /\ \A i \in DOMAIN b : i \in DOMAIN q /\ q[i] = b[i]
        /\ \A j \in DOMAIN s : Len(b) + j \in DOMAIN q /\ q[Len(b) + j] = s[j]
        /\ \A i \in DOMAIN q : i \in DOMAIN b \/ \E j \in DOMAIN s : i = Len(b) + j
    BY <2>1, <1>7, ConcatFacts
  <2>3. p = q \o t
    BY <2>1, <1>1
  <2>4. /\ p \in Seq(ItemSet)
        /\ \A i \in DOMAIN q : i \in DOMAIN p /\ p[i] = q[i]
        /\ \A j \in DOMAIN t : Len(q) + j \in DOMAIN p /\ p[Len(q) + j] = t[j]
        /\ \A i \in DOMAIN p : i \in DOMAIN q \/ \E j \in DOMAIN t : i = Len(q) + j
        /\ DOMAIN t = 1 .. Len(t)
    <3>1. q \in Seq(ItemSet) /\ t \in Seq(ItemSet)
      BY <2>2, <1>7
    <3> QED
      BY ONLY <3>1, <2>3, ConcatFacts
  <2>5. Len(s) \in Nat
    BY <1>7, LenProperties
  <2> QED
    BY <2>2, <2>4, <2>5
<1>9. ASSUME NEW i \in DOMAIN p
      PROVE  \/ i \in DOMAIN b /\ \E f \in Replayed : p[i] = Source(f)
             \/ i \in DOMAIN b /\ p[i].key \in Inserted /\ p[i] = Context(p[i].key) /\ p[i].key \in Facts
                /\ p[i].type = "context" /\ Key(p[i]) = p[i].key
             \/ \E j \in DOMAIN s : i = Len(b) + j /\ p[i] = s[j] /\ p[i].type = "context" /\ Key(p[i]) = s[j].key
             \/ \E j \in DOMAIN t : i = Len(b) + Len(s) + j /\ p[i] = t[j] /\ p[i].type = "context" /\ Key(p[i]) = t[j].key
  <2>1. CASE i \in DOMAIN b
    <3>1. b[i] \in Burst /\ p[i] = b[i]
      BY <2>1, <1>3, <1>8
    <3> QED
      BY <3>1, <2>1, <1>6
  <2>2. ASSUME NEW j \in DOMAIN s, i = Len(b) + j PROVE p[i] = s[j] /\ p[i].type = "context" /\ Key(p[i]) = s[j].key
    BY <2>2, <1>4, <1>8, ContextIs
  <2>3. ASSUME NEW j \in DOMAIN t, i = Len(b) + Len(s) + j PROVE p[i] = t[j] /\ p[i].type = "context" /\ Key(p[i]) = t[j].key
    BY <2>3, <1>5, <1>8, ContextIs
  <2> QED
    BY <2>1, <2>2, <2>3, <1>8
<1>10. ASSUME NEW f \in Replayed
       PROVE  /\ f \in FrameSet /\ f \in Replayable /\ f.n \in Nat /\ Source(f).type = "source" /\ Source(f).frame = f
              /\ Key(Source(f)) = <<f.what, f.of>>
  <2>1. f \in FrameSet /\ f \in Replayable /\ f.n \in Nat
    BY ReplayableIs
  <2> QED
    BY <2>1, SourceIs
<1>11. ASSUME NEW i \in DOMAIN p
       PROVE  \/ \E f \in Replayed : p[i] = Source(f)
              \/ /\ p[i] = Context(p[i].key) /\ p[i].key \in Facts /\ p[i].key[2] \in InScope
                 /\ p[i].key[1] # "run_begin" => at[p[i].key] # NoCursor
  <2>1. CASE p[i].key \in Inserted /\ p[i] = Context(p[i].key) /\ p[i].key \in Facts
    BY <2>1, InsertedIs
  <2>2. ASSUME NEW j \in DOMAIN s, p[i] = s[j]
        PROVE  /\ p[i] = Context(p[i].key) /\ p[i].key \in Facts /\ p[i].key[2] \in InScope
               /\ p[i].key[1] = "run_begin"
    BY <2>2, <1>2, <1>4
  <2>3. ASSUME NEW j \in DOMAIN t, p[i] = t[j]
        PROVE  /\ p[i] = Context(p[i].key) /\ p[i].key \in Facts /\ p[i].key[2] \in InScope
               /\ at[p[i].key] # NoCursor
    <3>1. /\ p[i] = Context(p[i].key) /\ p[i].key \in Facts /\ p[i].key[1] = "step_begin"
          /\ p[i].key[2] \in Selected \cap OpenSteps
      BY <2>3, <1>5
    <3>2. p[i].key = StepBegin(p[i].key[2]) /\ p[i].key[2] \in Runs
      BY <3>1, FactsAre DEF StepBegin
    <3>3. at[p[i].key] # NoCursor
      BY <3>1, <3>2, OpenIsNotEnded
    <3> QED
      BY <3>1, <3>3, <1>2
  <2> QED
    BY <2>1, <2>2, <2>3, <1>9
<1>12. ASSUME NEW f \in Replayed PROVE \E i \in DOMAIN p : p[i] = Source(f)
  <2>1. Source(f) \in Burst
    BY DEF Burst
  <2> QED
    BY <2>1, <1>3, <1>8
<1>13. ASSUME NEW i \in DOMAIN p, NEW j \in DOMAIN p, i < j, p[i].type = "source", p[j].type = "source"
       PROVE  p[i].frame.n < p[j].frame.n
  <2>1. PICK f \in Replayed : p[i] = Source(f) /\ i \in DOMAIN b
    BY <1>9, <1>13
  <2>2. PICK g \in Replayed : p[j] = Source(g) /\ j \in DOMAIN b
    BY <1>9, <1>13
  <2>3. b[i] = Source(f) /\ b[j] = Source(g)
    BY <2>1, <2>2, <1>8
  <2>4. 3 * f.n + 2 < 3 * g.n + 2
    BY <2>1, <2>2, <2>3, <1>3, <1>13
  <2>5. f.n < g.n
    BY <2>4, <1>10
  <2> QED
    BY <2>1, <2>2, <2>5, <1>10
<1>14. ASSUME NEW i \in DOMAIN p, NEW a \in Above(Key(p[i])) PROVE \E j \in DOMAIN p : j < i /\ Key(p[j]) = a
  <2>1. ASSUME NEW f \in Replayed, p[i] = Source(f), i \in DOMAIN b PROVE \E j \in DOMAIN p : j < i /\ Key(p[j]) = a
    <3>1. a \in Ancestors(f)
      BY <2>1, <1>10, <1>14, AboveIsAncestor
    <3>2. PICK j \in DOMAIN b : j < i /\ Key(b[j]) = a
      BY <3>1, <2>1, <1>8, BurstBefore DEF b
    <3> QED
      BY <3>2, <1>8
  <2>2. ASSUME i \in DOMAIN b, p[i].key \in Inserted, p[i] = Context(p[i].key), Key(p[i]) = p[i].key
        PROVE  \E j \in DOMAIN p : j < i /\ Key(p[j]) = a
    <3>1. PICK k \in Inserted : k = p[i].key
      BY <2>2
    <3>2. b[i] = Context(k) /\ a \in Above(k)
      BY <3>1, <2>2, <1>8, <1>14
    <3>3. PICK j \in DOMAIN b : j < i /\ Key(b[j]) = a
      BY <3>2, <2>2, BurstNested DEF b
    <3> QED
      BY <3>3, <1>8
  <2>3. ASSUME NEW m \in DOMAIN s, Key(p[i]) = s[m].key PROVE FALSE
    BY <2>3, <1>4, <1>14 DEF Above
  <2>4. ASSUME NEW m \in DOMAIN t, i = Len(b) + Len(s) + m, Key(p[i]) = t[m].key
        PROVE  \E j \in DOMAIN p : j < i /\ Key(p[j]) = a
    <3>1. PICK r : r = t[m].key[2]
      OBVIOUS
    <3>2. t[m].key[1] = "step_begin" /\ t[m].key \in Facts /\ r \in Selected \cap OpenSteps /\ r \in Runs
      BY <3>1, <1>2, <1>5
    <3>3. a = Begin(r) /\ a \in Facts
      BY <3>1, <3>2, <2>4, <1>14, FactsOf DEF Above
    <3>4. r \in Selected \ Ended
      BY <3>2, OpenIsNotEnded
    <3>5. ASSUME NEW x, NEW j \in DOMAIN b, b[j] = x, Key(x) = a PROVE \E jj \in DOMAIN p : jj < i /\ Key(p[jj]) = a
      <4>1. j < i /\ j \in DOMAIN p /\ p[j] = x
        BY <3>5, <2>4, <1>8
      <4> QED
        BY <4>1, <3>5
    <3>6. CASE ~Lacking(a)
      <4>1. \E g \in Replayed : Key(Source(g)) = a /\ \E j \in DOMAIN b : b[j] = Source(g)
        BY <3>3, <3>6, BurstHas DEF b
      <4> QED
        BY <4>1, <3>5
    <3>7. CASE Lacking(a) /\ Needing(a) # {}
      <4>1. Key(Context(a)) = a /\ \E j \in DOMAIN b : b[j] = Context(a)
        BY <3>3, <3>7, BurstHas DEF b
      <4> QED
        BY <4>1, <3>5
    <3>8. CASE Lacking(a) /\ Needing(a) = {}
      <4>1. PICK j \in DOMAIN s : s[j].key = a
        <5>1. Selected \ Ended \in SUBSET accepted /\ "run_begin" \in Kinds
          BY <1>2 DEF Kinds
        <5>2. a \in {"run_begin"} \X (Selected \ Ended)
          BY <3>3, <3>4 DEF Begin
        <5> QED
          BY <5>1, <5>2, <3>8, RemainingHas DEF s
      <4>2. Len(b) + j \in DOMAIN p /\ p[Len(b) + j] = s[j] /\ Len(b) + j < i
        <5>1. j \in 1 .. Len(s) /\ m \in 1 .. Len(t)
          BY <1>8
        <5> QED
          BY <5>1, <2>4, <1>8
      <4>3. Key(s[j]) = a
        BY <4>1, <1>4, ContextIs
      <4> QED
        BY <4>2, <4>3
    <3> QED
      BY <3>6, <3>7, <3>8
  <2> QED
    BY <2>1, <2>2, <2>3, <2>4, <1>9
<1>15. ASSUME NEW i \in DOMAIN p, NEW j \in DOMAIN p, NEW r \in Runs, Key(p[i]) = End(r), Key(p[j]) = Begin(r)
       PROVE  j < i
  <2>1. End(r)[1] = "run_end" /\ Begin(r)[1] = "run_begin" /\ End(r)[2] = r /\ Begin(r)[2] = r
    BY FactsOf
  <2>2. PICK f \in Replayed : p[i] = Source(f) /\ i \in DOMAIN b
    <3>1. p[i].key \in Inserted => p[i].key[1] # "run_end"
      BY InsertedIs DEF Begin, StepBegin
    <3>2. (\A m \in DOMAIN s : s[m].key # End(r)) /\ (\A m \in DOMAIN t : t[m].key # End(r))
      BY <2>1, <1>4, <1>5
    <3> QED
      BY <3>1, <3>2, <2>1, <1>9, <1>15
  <2>3. f.what = "run_end" /\ f.of = r /\ f \in Replayable
    BY <2>2, <1>10, <1>15 DEF End
  <2>4. Needing(Begin(r)) # {}
    <3>1. Begin(r) \in Ancestors(f)
      BY <2>3 DEF Ancestors, Begin
    <3> QED
      BY <3>1, <2>3 DEF Needing
  <2>5. CASE j \in DOMAIN b
    <3>1. b[i] = Source(f) /\ Key(b[j]) = Begin(f.of)
      BY <2>2, <2>3, <2>5, <1>8, <1>15
    <3> QED
      BY <3>1, <2>2, <2>3, <2>5, BurstBefore DEF b
  <2>6. \A m \in DOMAIN s : s[m].key # Begin(r)
    BY <2>4, <1>4
  <2>7. \A m \in DOMAIN t : t[m].key # Begin(r)
    BY <2>1, <1>5
  <2> QED
    BY <2>5, <2>6, <2>7, <1>9, <1>15
<1> QED
  BY <1>8, <1>11, <1>12, <1>13, <1>14, <1>15 DEF p

\* What an attachment has told the client, in the order of the prefix.
LEMMA PrefixIs ==
    ASSUME NEW q \in Seq(ItemSet), NEW n \in Nat, TypeInv, prefix' = q \o <<Checkpoint(n)>>
    PROVE  /\ prefix' \in Seq(ItemSet) /\ prefix' # <<>> /\ prefix'[Len(prefix')] = Checkpoint(n)
           /\ Len(q) \in Nat /\ Len(prefix') = Len(q) + 1 /\ DOMAIN q = 1 .. Len(q) /\ DOMAIN prefix' = 1 .. Len(q) + 1
           /\ \A i \in DOMAIN q : i \in DOMAIN prefix' /\ i # Len(prefix') /\ prefix'[i] = q[i]
           /\ \A i \in DOMAIN prefix' : i # Len(prefix') => i \in DOMAIN q
           /\ Told' = {i \in DOMAIN q : q[i].type \in {"context", "source"}}
           /\ Sources' = {q[i].frame : i \in {j \in DOMAIN q : q[j].type = "source"}}
           /\ \A i \in Told' : i \in DOMAIN q /\ prefix'[i] = q[i]
           /\ prefix'[1].type = "prefill" <=> 1 \in DOMAIN q /\ q[1].type = "prefill"
<1> DEFINE c == Checkpoint(n)
           p == q \o <<c>>
<1>1. c \in ItemSet /\ c.type = "checkpoint"
  BY DEF Checkpoint, ItemSet, Cursor, CursorSet, TypeInv
<1>2. <<c>> \in Seq(ItemSet) /\ Len(<<c>>) = 1 /\ DOMAIN <<c>> = 1 .. 1 /\ <<c>>[1] = c
  BY <1>1
<1> HIDE DEF c
<1>3. /\ p \in Seq(ItemSet) /\ Len(q) \in Nat /\ Len(p) = Len(q) + 1 /\ DOMAIN q = 1 .. Len(q)
      /\ DOMAIN p = 1 .. Len(q) + 1
      /\ \A i \in DOMAIN q : i \in DOMAIN p /\ p[i] = q[i]
      /\ p[Len(q) + 1] = c
  BY <1>2, ConcatFacts
<1>4. prefix' = p
  BY DEF c
<1> HIDE DEF p
<1>5. p # <<>> /\ p[Len(p)] = c /\ \A i \in DOMAIN p : i # Len(p) => i \in DOMAIN q
  BY <1>3
<1>6. \A i \in DOMAIN q : i # Len(p)
  BY <1>3
<1>7. \A i \in DOMAIN p : i \in DOMAIN q \/ p[i].type = "checkpoint"
  BY <1>5, <1>1
<1>8. Told' = {i \in DOMAIN q : q[i].type \in {"context", "source"}}
  BY <1>3, <1>4, <1>7 DEF Told
<1>9. Sources' = {q[i].frame : i \in {j \in DOMAIN q : q[j].type = "source"}}
  BY <1>3, <1>4, <1>7 DEF Sources
<1>10. p[1].type = "prefill" <=> 1 \in DOMAIN q /\ q[1].type = "prefill"
  BY <1>3, <1>7
<1> QED
  BY <1>3, <1>4, <1>5, <1>6, <1>8, <1>9, <1>10 DEF c

\* What every attachment does, whatever it sends.
LEMMA AttachIs ==
    ASSUME Inv, Attach, NEW q \in Seq(ItemSet), prefix' = q \o <<Checkpoint(tail)>>,
           \A i \in DOMAIN q : q[i].type = "source" => q[i].frame \in ring
    PROVE  /\ TypeInv' /\ RecordsInv' /\ OrderInv' /\ FramesInv' /\ ViewInv' /\ LinkInv' /\ ReaderInv' /\ BatchInv'
           /\ UNCHANGED <<source, records, client, followed>> /\ link' = "open" /\ reader' = tail /\ batch' = <<>> /\ mark' = 0
           /\ staged = <<>> /\ staged' = <<>> /\ heard = [r \in Runs |-> 0] /\ InBatch' = {}
           /\ InScope' = InScope /\ OpenSteps' = OpenSteps /\ Ended' = Ended
           /\ Known' = at /\ Ahead' = {} /\ Unread' = {}
           /\ missed \subseteq missed' /\ missed' \subseteq Ended
           /\ cursor # NoCursor \/ followed # Agent => missed' = missed
           /\ cursor = NoCursor /\ followed = Agent => missed' = Ended
           /\ InScope \subseteq Runs /\ Selected \subseteq accepted \cap InScope
           /\ active' = Selected \ Ended
<1>0. TypeInv /\ RecordsInv /\ OrderInv /\ FramesInv /\ ViewInv /\ LinkInv
  BY DEF Inv
<1>1. /\ link = "reserved" /\ followed \in accepted \cup {Agent} /\ link' = "open" /\ reader' = tail /\ lost' = FALSE
      /\ active' = Selected \ Ended /\ mark' = 0
      /\ suppressed' = {r \in Selected : JoinedMidway(r)} \/ suppressed' = Selected \cap OpenSteps
      /\ missed' = (IF cursor = NoCursor /\ followed = Agent THEN Ended ELSE missed)
      /\ UNCHANGED <<source, records, batch, client, cuts, followed>>
  BY DEF Attach
<1>2. /\ epoch' = epoch /\ tail' = tail /\ floor' = floor /\ ring' = ring /\ accepted' = accepted /\ alive' = alive
      /\ at' = at /\ parts' = parts /\ cursor' = cursor /\ view' = view /\ staged' = staged /\ heard' = heard
      /\ batch' = batch /\ followed' = followed
  BY <1>1 DEF source, records, client
<1>3. batch' = <<>> /\ staged = <<>> /\ staged' = <<>> /\ heard = [r \in Runs |-> 0] /\ InBatch' = {}
  BY <1>0, <1>1, <1>2 DEF LinkInv, InBatch
<1>4. InScope' = InScope /\ OpenSteps' = OpenSteps /\ Ended' = Ended
  BY <1>2 DEF InScope, OpenSteps, Ended, Happened
<1>5. InScope \subseteq Runs /\ Selected \subseteq accepted \cap InScope /\ Ended \subseteq accepted /\ accepted \subseteq Runs
  BY <1>0 DEF InScope, Selected, TypeInv, Ended
<1>6. missed \subseteq missed' /\ missed' \subseteq Ended /\ missed \subseteq Runs
  BY <1>0, <1>1 DEF ViewInv, TypeInv
<1>7. prefix' \in Seq(ItemSet) /\ Sources' = {q[i].frame : i \in {j \in DOMAIN q : q[j].type = "source"}}
  BY <1>0, PrefixIs DEF TypeInv
<1>8. TypeInv'
  <2>1. active' \subseteq Runs /\ suppressed' \subseteq Runs /\ missed' \subseteq Runs
    BY <1>1, <1>5, <1>6
  <2> QED
    BY <2>1, <1>0, <1>1, <1>2, <1>7 DEF TypeInv
<1>9. Frames' \subseteq Frames
  BY <1>2, <1>3, <1>7 DEF Frames
<1>10. RecordsInv' /\ OrderInv' /\ FramesInv'
  BY <1>1, <1>9, SameRecords
<1>11. ViewInv'
  <2>1. Shows(view, at, missed')
    BY <1>0, <1>6, ShowsMore DEF ViewInv, TypeInv
  <2>2. CASE missed' = missed
    BY <2>2, <1>0, <1>2, <1>4, <1>6 DEF ViewInv, Shows, ViewIsNested, CursorIsReflected, Passed
  <2>3. CASE cursor = NoCursor /\ followed = Agent
    <3>1. ASSUME NEW k \in Facts PROVE ~Passed(at[k])
      <4>1. at[k] # NoCursor => at[k].e >= 1 /\ at[k].e \in Nat
        BY <1>0 DEF RecordsInv, TypeInv, CursorSet
      <4>2. cursor.e = 0
        BY <2>3 DEF NoCursor, Cursor
      <4> QED
        BY <4>1, <4>2 DEF Passed
    <3>2. CursorIsReflected'
      BY <3>1, <1>2 DEF CursorIsReflected, Passed
    <3>3. ViewIsNested'
      BY <1>0, <1>2 DEF ViewInv, ViewIsNested
    <3>4. Shows(view, at, missed)'
      BY <2>1, <1>2 DEF Shows
    <3> QED
      BY <3>2, <3>3, <3>4, <2>3, <1>0, <1>2, <1>4, <1>6 DEF ViewInv
  <2> QED
    BY <2>2, <2>3, <1>1
<1>12. LinkInv'
  BY <1>0, <1>1, <1>2 DEF LinkInv, EndIsComplete, TypeInv
<1>13. Known' = at /\ Ahead' = {} /\ Unread' = {}
  <2>1. (TypeInv /\ RecordsInv /\ FramesInv /\ reader = tail => Known = at /\ Ahead = {} /\ Unread = {})'
    BY AllKnown, PTL
  <2> QED
    BY <2>1, <1>1, <1>2, <1>8, <1>10
<1>14. ReaderInv'
  BY <1>0, <1>1, <1>2, <1>3 DEF ReaderInv, RecordsInv, ViewInv, TypeInv
<1>15. BatchInv'
  BY <1>3 DEF BatchInv
<1> QED
  BY <1>1, <1>2, <1>3, <1>4, <1>5, <1>6, <1>8, <1>10, <1>11, <1>12, <1>13, <1>14, <1>15

\* What an attachment sends reaches the records it was made from.
LEMMA AttachReach ==
    ASSUME Inv, Attach, NEW q \in Seq(ItemSet), prefix' = q \o <<Checkpoint(tail)>>,
           \A i \in DOMAIN q : q[i].type = "source" => q[i].frame \in ring,
           PrefixInv', Shows(Coming', at, missed'),
           \A k \in DOMAIN Coming' : k \in Facts /\ Above(k) \subseteq DOMAIN Coming',
           \A k \in Facts : k[2] \in InScope \ missed' /\ at[k] # NoCursor => Reaches(k)'
    PROVE  ReachInv'
<1>0. /\ TypeInv /\ RecordsInv /\ ViewInv' /\ prefix' # <<>> /\ at' = at /\ alive' = alive /\ followed' = followed /\ InScope' = InScope
      /\ Known' = at /\ Ahead' = {} /\ InBatch' = {} /\ missed' \subseteq Ended /\ InScope \subseteq Runs
      /\ active' = Selected \ Ended
  BY AttachIs, PrefixIs DEF records, Inv, RecordsInv, TypeInv
<1>1. Shows(view, Known, missed)' /\ Shows(Coming, Known, missed)'
  BY <1>0 DEF ViewInv, Shows
<1>2. ASSUME NEW k \in Facts, k[2] \in InScope' \ missed', Known'[k] # NoCursor PROVE Reaches(k)'
  BY <1>0, <1>2
<1>3. \A k \in Facts : Reaches(k)' => k \in Due2'
  BY <1>0 DEF Reaches, Due2
<1>4. ASSUME NEW k \in Due2' PROVE Above(k) \subseteq Due2'
  <2>0. k \in Facts
    BY DEF Due2
  <2>1. Above(k) \subseteq Facts
    BY <2>0, FactsAre, FactsOf DEF Above
  <2>2. CASE k \in DOMAIN Coming'
    BY <2>1, <2>2 DEF Due2
  <2>3. CASE \E i \in Told' : Key(prefix[i])' = k
    <3>1. PICK i \in Told' : Key(prefix[i])' = k
      BY <2>3
    <3>2. \A a \in Above(k) : a \in DOMAIN Coming' \/ \E j \in Told' : Key(prefix[j])' = a
      <4>1. \A a \in Above(Key(prefix[i]))' : a \in DOMAIN Coming' \/ \E j \in Told' : j < i /\ Key(prefix[j])' = a
        BY <1>0 DEF PrefixInv
      <4> QED
        BY <4>1, <3>1 DEF Above
    <3> QED
      BY <3>2, <2>1 DEF Due2
  <2> QED
    BY <2>2, <2>3, <1>0, <1>4 DEF Due2
<1>5. ASSUME NEW r \in alive' \cap InScope', NEW k \in {Begin(r), StepBegin(r)}, at'[k] # NoCursor PROVE k \in Due2'
  <2>1. r \in Runs /\ r \in alive /\ r \in InScope /\ k \in Facts /\ k[2] = r
    BY <1>0, FactsOf
  <2>2. at[End(r)] = NoCursor
    BY <2>1, <1>0, FactsOf DEF RecordsInv
  <2>3. r \notin missed'
    BY <2>2, <1>0 DEF Ended, Happened, End
  <2> QED
    BY <2>1, <2>3, <1>0, <1>2, <1>3, <1>5
<1>6. ASSUME followed' # Agent, followed' \notin active' PROVE Known'[End(followed)'] # NoCursor
  <2>1. followed \in accepted /\ followed \in InScope
    BY <1>0, <1>6 DEF Attach, InScope
  <2>2. followed \in Selected
    BY <2>1, <1>0, <1>6 DEF Selected
  <2>3. at[End(followed)] # NoCursor
    BY <2>2, <1>0, <1>6 DEF Ended, Happened, End
  <2> QED
    BY <2>3, <1>0 DEF End
<1> QED
  BY <1>1, <1>2, <1>4, <1>5, <1>6 DEF ReachInv

\* An attachment that replays what is cached after the cursor.
LEMMA ReplayIs ==
    ASSUME Inv, Attach, Cached, ~Gap, NEW q, q = Replay
    PROVE  /\ q \in Seq(ItemSet) /\ prefix' = q \o <<Checkpoint(tail)>>
           /\ \A i \in DOMAIN q :
                 \/ q[i].type = "source" /\ q[i].frame \in Replayed /\ q[i] = Source(q[i].frame)
                    /\ Key(q[i]) = <<q[i].frame.what, q[i].frame.of>>
                 \/ /\ q[i].type = "context" /\ q[i] = Context(q[i].key) /\ q[i].key \in Facts /\ q[i].key[2] \in InScope
                    /\ Key(q[i]) = q[i].key
                    /\ q[i].key[1] # "run_begin" => at[q[i].key] # NoCursor
           /\ \A f \in Replayed : \E i \in DOMAIN q : q[i] = Source(f) /\ q[i].type = "source" /\ q[i].frame = f
                                                      /\ Key(q[i]) = <<f.what, f.of>>
           /\ \A i \in DOMAIN q : q[i].type = "source" => q[i].frame \in ring
           /\ \A f \in Replayed : f \in FrameSet /\ f \in ring /\ f.of \in InScope /\ f.n <= tail /\ cursor.n < f.n
           /\ suppressed' = {r \in Selected : JoinedMidway(r)}
           /\ cursor.e = epoch /\ floor <= cursor.n /\ cursor # NoCursor
           /\ Sources' = Replayed /\ Told' = DOMAIN q /\ ~Replacing' /\ Coming' = view
<1>0. TypeInv /\ RecordsInv /\ OrderInv /\ FramesInv /\ LinkInv
  BY DEF Inv
<1>1. /\ q \in Seq(ItemSet)
      /\ \A i \in DOMAIN q :
            \/ \E f \in Replayed : q[i] = Source(f)
            \/ /\ q[i] = Context(q[i].key) /\ q[i].key \in Facts /\ q[i].key[2] \in InScope
               /\ q[i].key[1] # "run_begin" => at[q[i].key] # NoCursor
      /\ \A f \in Replayed : \E i \in DOMAIN q : q[i] = Source(f)
  BY <1>0, ReplayFacts
<1>2. prefix' = q \o <<Checkpoint(tail)>> /\ suppressed' = {r \in Selected : JoinedMidway(r)}
  BY DEF Attach
<1>3. \A f \in Replayed : f \in FrameSet /\ f \in ring /\ f.of \in InScope /\ f.n <= tail /\ cursor.n < f.n
  BY <1>0, ReplayableIs
<1>4. \A f \in Replayed : Source(f).type = "source" /\ Source(f).frame = f /\ Key(Source(f)) = <<f.what, f.of>>
  BY <1>0, <1>3, SourceIs
<1>5. ASSUME NEW i \in DOMAIN q
      PROVE  \/ q[i].type = "source" /\ q[i].frame \in Replayed /\ q[i] = Source(q[i].frame)
                /\ Key(q[i]) = <<q[i].frame.what, q[i].frame.of>>
             \/ /\ q[i].type = "context" /\ q[i] = Context(q[i].key) /\ q[i].key \in Facts /\ q[i].key[2] \in InScope
                /\ Key(q[i]) = q[i].key
                /\ q[i].key[1] # "run_begin" => at[q[i].key] # NoCursor
  <2>1. CASE \E f \in Replayed : q[i] = Source(f)
    <3>1. PICK f \in Replayed : q[i] = Source(f)
      BY <2>1
    <3> QED
      BY <3>1, <1>4
  <2>2. CASE /\ q[i] = Context(q[i].key) /\ q[i].key \in Facts /\ q[i].key[2] \in InScope
             /\ q[i].key[1] # "run_begin" => at[q[i].key] # NoCursor
    <3>1. Context(q[i].key).type = "context" /\ Key(Context(q[i].key)) = q[i].key
      BY <2>2, <1>0, ContextIs
    <3> QED
      BY <3>1, <2>2
  <2> QED
    BY <2>1, <2>2, <1>1
<1>6. ASSUME NEW f \in Replayed
      PROVE  \E i \in DOMAIN q : q[i] = Source(f) /\ q[i].type = "source" /\ q[i].frame = f /\ Key(q[i]) = <<f.what, f.of>>
  BY <1>1, <1>4
<1>7. \A i \in DOMAIN q : q[i].type = "source" => q[i].frame \in ring
  BY <1>3, <1>5
<1>8. /\ Sources' = {q[i].frame : i \in {j \in DOMAIN q : q[j].type = "source"}}
      /\ Told' = {i \in DOMAIN q : q[i].type \in {"context", "source"}}
      /\ prefix'[1].type = "prefill" <=> 1 \in DOMAIN q /\ q[1].type = "prefill"
  BY <1>0, <1>1, <1>2, PrefixIs DEF TypeInv
<1>9. Sources' = Replayed
  <2>1. ASSUME NEW f \in Sources' PROVE f \in Replayed
    BY <2>1, <1>5, <1>8
  <2>2. ASSUME NEW f \in Replayed PROVE f \in Sources'
    BY <1>6, <1>8
  <2> QED
    BY <2>1, <2>2
<1>10. Told' = DOMAIN q
  BY <1>5, <1>8
<1>11. staged' = <<>> /\ view' = view
  BY <1>1, <1>2, <1>7, AttachIs DEF client
<1>12. ~Replacing'
  <2>1. ~(prefix'[1].type = "prefill")
    BY <1>5, <1>8
  <2> QED
    BY <2>1, <1>11 DEF Replacing
<1>13. Coming' = view
  BY <1>11, <1>12 DEF Coming
<1>14. cursor.e = epoch /\ floor <= cursor.n /\ cursor # NoCursor
  <2>1. cursor.e = epoch /\ floor <= cursor.n
    BY DEF Cached, SameEpoch
  <2>2. epoch # 0
    BY <1>0 DEF RecordsInv
  <2> QED
    BY <2>1, <2>2 DEF NoCursor, Cursor
<1> QED
  BY <1>1, <1>2, <1>3, <1>5, <1>6, <1>7, <1>9, <1>10, <1>12, <1>13, <1>14

\* A replay is a prefix as the invariant has it.
LEMMA ReplayPrefix ==
    ASSUME Inv, Attach, Cached, ~Gap
    PROVE  PrefixInv'
<1> DEFINE q == Replay
<1> HIDE DEF q
<1>q. q = Replay
  BY DEF q
<1>0. TypeInv /\ RecordsInv /\ OrderInv /\ FramesInv
  BY DEF Inv
<1>1. /\ q \in Seq(ItemSet) /\ prefix' = q \o <<Checkpoint(tail)>>
      /\ \A i \in DOMAIN q :
            \/ q[i].type = "source" /\ q[i].frame \in Replayed /\ q[i] = Source(q[i].frame)
               /\ Key(q[i]) = <<q[i].frame.what, q[i].frame.of>>
            \/ /\ q[i].type = "context" /\ q[i] = Context(q[i].key) /\ q[i].key \in Facts /\ q[i].key[2] \in InScope
               /\ Key(q[i]) = q[i].key
               /\ q[i].key[1] # "run_begin" => at[q[i].key] # NoCursor
      /\ \A i \in DOMAIN q : q[i].type = "source" => q[i].frame \in ring
      /\ \A f \in Replayed : f \in FrameSet /\ f \in ring /\ f.of \in InScope /\ f.n <= tail /\ cursor.n < f.n
      /\ suppressed' = {r \in Selected : JoinedMidway(r)}
      /\ cursor.e = epoch /\ Told' = DOMAIN q /\ ~Replacing' /\ Coming' = view
  BY <1>q, ReplayIs
<1>2. /\ \A i, j \in DOMAIN q : i < j /\ q[i].type = "source" /\ q[j].type = "source" => q[i].frame.n < q[j].frame.n
      /\ \A i \in DOMAIN q : \A a \in Above(Key(q[i])) : \E j \in DOMAIN q : j < i /\ Key(q[j]) = a
      /\ \A i, j \in DOMAIN q : \A r \in Runs : Key(q[i]) = End(r) /\ Key(q[j]) = Begin(r) => j < i
  BY <1>0, <1>q, ReplayFacts
<1>3. /\ UNCHANGED <<epoch, tail, at, cursor>> /\ reader' = tail /\ batch' = <<>> /\ mark' = 0 /\ Known' = at
      /\ InScope' = InScope /\ staged' = <<>>
  BY <1>1, AttachIs DEF source, records, client
<1>4. /\ prefix' # <<>> /\ prefix'[Len(prefix')] = Checkpoint(tail)
      /\ \A i \in DOMAIN q : i \in DOMAIN prefix' /\ i # Len(prefix') /\ prefix'[i] = q[i]
      /\ \A i \in DOMAIN prefix' : i # Len(prefix') => i \in DOMAIN q
  BY <1>0, <1>1, PrefixIs DEF TypeInv
<1>5. Checkpoint(reader)' = Checkpoint(tail)
  BY <1>3 DEF Checkpoint, Cursor
<1>6. ASSUME NEW i \in DOMAIN q, q[i].type = "source" PROVE SourceFits(prefix[i])'
  <2>1. q[i].frame \in Replayed /\ q[i] = Source(q[i].frame) /\ prefix'[i] = q[i]
    BY <1>1, <1>4, <1>6
  <2> DEFINE f == q[i].frame
  <2>2. f \in FrameSet /\ f.of \in InScope /\ f.n <= tail /\ cursor.n < f.n /\ f.what = "part" => ~JoinedMidway(f.of)
    BY <2>1, <1>1 DEF Replayed
  <2>3. Source(prefix[i].frame)' = q[i]
    BY <2>1, <1>3 DEF Source, Cursor
  <2>4. f.what = "part" => f.of \notin suppressed'
    BY <2>1, <1>1 DEF Replayed
  <2>5. f \in FrameSet /\ f.of \in InScope /\ f.n <= tail /\ cursor.n < f.n
    BY <2>1, <1>1
  <2> QED
    BY <2>1, <2>3, <2>4, <2>5, <1>1, <1>3 DEF SourceFits
<1>7. ASSUME NEW i \in DOMAIN q, q[i].type = "context" PROVE ContextFits(prefix[i])'
  <2>1. /\ q[i] = Context(q[i].key) /\ q[i].key \in Facts /\ q[i].key[2] \in InScope /\ prefix'[i] = q[i]
        /\ q[i].key[1] # "run_begin" => at[q[i].key] # NoCursor
    BY <1>1, <1>4, <1>7
  <2>2. q[i] = [type |-> "context", key |-> q[i].key, at |-> at[q[i].key]]
    BY <2>1 DEF Context
  <2> QED
    BY <2>1, <2>2, <1>3 DEF ContextFits
<1>8. \A i \in DOMAIN prefix' : i # Len(prefix') =>
         \/ prefix'[i].type = "context" /\ ContextFits(prefix[i])'
         \/ prefix'[i].type = "source" /\ ~Replacing' /\ SourceFits(prefix[i])'
  BY <1>1, <1>4, <1>6, <1>7
<1>9. \A i, j \in DOMAIN prefix' :
         i < j /\ prefix'[i].type = "source" /\ prefix'[j].type = "source" => prefix'[i].frame.n < prefix'[j].frame.n
  <2>1. \A i \in DOMAIN prefix' : prefix'[i].type = "source" => i \in DOMAIN q /\ prefix'[i] = q[i]
    BY <1>4 DEF Checkpoint
  <2> QED
    BY <2>1, <1>2
<1>10. \A i \in DOMAIN q : Key(prefix[i])' = Key(q[i])
  BY <1>4 DEF Key
<1>11. \A i \in Told' : \A k \in Above(Key(prefix[i]))' : \E j \in Told' : j < i /\ Key(prefix[j])' = k
  <2>1. \A i \in DOMAIN q : Above(Key(prefix[i]))' = Above(Key(q[i]))
    BY <1>4 DEF Above, Key
  <2>2. \A i \in DOMAIN q : \A k \in Above(Key(prefix[i]))' : \E j \in DOMAIN q : j < i /\ Key(q[j]) = k
    BY <2>1, <1>2
  <2>3. ASSUME NEW i \in Told', NEW k \in Above(Key(prefix[i]))' PROVE \E j \in Told' : j < i /\ Key(prefix[j])' = k
    <3>1. i \in DOMAIN q
      BY <1>1
    <3>2. PICK j \in DOMAIN q : j < i /\ Key(q[j]) = k
      BY <3>1, <2>2
    <3>3. Key(prefix[j])' = k /\ j \in Told'
      BY <3>2, <1>1, <1>10
    <3> QED
      BY <3>2, <3>3
  <2> QED
    BY <2>3
<1>12. \A i, j \in Told' : \A r \in Runs : Key(prefix[i])' = End(r) /\ Key(prefix[j])' = Begin(r) => j < i
  BY <1>1, <1>2, <1>10
<1>13. batch' = <<>> /\ mark' = 0 /\ prefix'[Len(prefix')] = Checkpoint(reader)' /\ ~Replacing' /\ (cursor.e = epoch)'
  BY <1>1, <1>3, <1>4, <1>5
<1>14. \A i \in DOMAIN prefix' : i # Len(prefix') =>
         \/ i = 1 /\ staged' = <<>> /\ prefix'[i].type = "prefill"
         \/ prefix'[i].type = "context" /\ ContextFits(prefix[i])'
         \/ prefix'[i].type = "source" /\ ~Replacing' /\ SourceFits(prefix[i])'
  BY <1>8
<1>15. \A i \in Told' : \A k \in Above(Key(prefix[i]))' :
          k \in DOMAIN Coming' \/ \E j \in Told' : j < i /\ Key(prefix[j])' = k
  BY <1>11
<1> QED
  BY ONLY <1>9, <1>12, <1>13, <1>14, <1>15 DEF PrefixInv, End, Begin

\* After a replay every recorded fact has been told, or was in the view.
LEMMA ReplayReaches ==
    ASSUME Inv, Attach, Cached, ~Gap, NEW k \in Facts, k[2] \in InScope \ missed', at[k] # NoCursor
    PROVE  Reaches(k)'
<1> DEFINE q == Replay
<1> HIDE DEF q
<1>q. q = Replay
  BY DEF q
<1>0. TypeInv /\ RecordsInv /\ OrderInv /\ FramesInv /\ ViewInv
  BY DEF Inv
<1>1. /\ q \in Seq(ItemSet) /\ prefix' = q \o <<Checkpoint(tail)>>
      /\ \A f \in Replayed : \E i \in DOMAIN q : q[i].type = "source" /\ Key(q[i]) = <<f.what, f.of>>
      /\ \A i \in DOMAIN q : q[i].type = "source" => q[i].frame \in ring
      /\ cursor.e = epoch /\ floor <= cursor.n /\ cursor # NoCursor /\ Told' = DOMAIN q /\ Coming' = view
  BY <1>q, ReplayIs
<1>2. missed' = missed /\ at' = at
  BY <1>1, AttachIs DEF records
<1>3. CASE Passed(at[k])
  <2>1. k \in DOMAIN view /\ view[k] = at[k]
    BY <1>0, <1>2, <1>3 DEF ViewInv, CursorIsReflected
  <2> QED
    BY <2>1, <1>1, <1>2 DEF Reaches
<1>4. CASE ~Passed(at[k])
  <2>1. at[k].e = epoch /\ at[k].n > cursor.n /\ at[k].n > floor /\ at[k].n \in Nat /\ at[k].n <= tail
    BY <1>0, <1>1, <1>4 DEF Passed, RecordsInv, TypeInv, CursorSet
  <2> DEFINE f == Frame(at[k].n, k[1], k[2], 0)
  <2>2. f \in ring
    BY <2>1, <1>0 DEF FramesInv
  <2>3. k = <<k[1], k[2]>> /\ k[1] \in Kinds /\ k[2] \in Runs
    BY FactsAre
  <2>4. f.what = k[1] /\ f.of = k[2] /\ f.n = at[k].n /\ f.what # "part"
    BY <2>1, <2>3, FrameIs DEF Kinds
  <2>5. f \in Replayed
    BY <2>1, <2>2, <2>4 DEF Replayed, Replayable, Cache
  <2> HIDE DEF f
  <2>6. PICK i \in DOMAIN q : q[i].type = "source" /\ Key(q[i]) = k
    BY <2>3, <2>4, <2>5, <1>1
  <2>7. i \in Told' /\ prefix'[i] = q[i]
    BY <1>0, <1>1, PrefixIs DEF TypeInv
  <2>8. Key(prefix[i])' = k /\ prefix'[i].type = "source"
    BY <2>6, <2>7 DEF Key
  <2> QED
    BY <2>7, <2>8 DEF Reaches
<1> QED
  BY <1>3, <1>4

(* After a replay the parts of an open step come from the first, or its    *)
(* step is suppressed.                                                     *)
LEMMA ReplayParts ==
    ASSUME Inv, Attach, Cached, ~Gap
    PROVE  PartsInv'
<1> DEFINE q == Replay
<1> HIDE DEF q
<1>q. q = Replay
  BY DEF q
<1>0. TypeInv /\ RecordsInv /\ OrderInv /\ FramesInv /\ ViewInv
  BY DEF Inv
<1>1. /\ q \in Seq(ItemSet) /\ prefix' = q \o <<Checkpoint(tail)>>
      /\ \A i \in DOMAIN q : q[i].type = "source" => q[i].frame \in ring
      /\ suppressed' = {r \in Selected : JoinedMidway(r)}
      /\ floor <= cursor.n /\ Sources' = Replayed
  BY <1>q, ReplayIs
<1>2. /\ parts' = parts /\ at' = at /\ heard' = [r \in Runs |-> 0] /\ InBatch' = {} /\ Unread' = {} /\ Known' = at
      /\ InScope' = InScope /\ OpenSteps' = OpenSteps /\ InScope \subseteq Runs /\ Selected \subseteq accepted \cap InScope
  BY <1>1, AttachIs DEF records, client
<1>3. ASSUME NEW r \in suppressed' PROVE Known'[StepBegin(r)] # NoCursor
  BY <1>1, <1>2, <1>3 DEF JoinedMidway, OpenSteps, Happened, StepBegin
<1>4. \A r : Awaited(r)' = {f \in Replayed : f.what = "part" /\ f.of = r}
  BY <1>1, <1>2 DEF Awaited
<1>5. ASSUME NEW r \in InScope \ suppressed'
      PROVE  /\ \A f \in Awaited(r)' : f.part > heard'[r]
             /\ r \in OpenSteps \/ Awaited(r)' # {} =>
                   \A p \in heard'[r] + 1 .. parts[r] : \E f \in Awaited(r)' : f.part = p
  <2>0. r \in Runs /\ heard'[r] = 0
    BY <1>2
  <2>1. ASSUME NEW f \in Awaited(r)'
        PROVE  /\ f \in FrameSet /\ FrameFits(f) /\ f.what = "part" /\ f.of = r /\ f.part \in Nat /\ f.part > 0
               /\ f \in Replayable
    <3>1. f \in Replayable /\ f.what = "part" /\ f.of = r /\ f \in FrameSet /\ FrameFits(f)
      BY <1>0, <1>4, ReplayableIs
    <3>2. f.part \in 1 .. parts[r] /\ parts[r] \in Nat
      BY <3>1, <1>0, <2>0 DEF FrameFits, TypeInv
    <3> QED
      BY <3>1, <3>2
  <2>2. ASSUME r \in OpenSteps \/ Awaited(r)' # {} PROVE r \in OpenSteps
    <3>1. CASE Awaited(r)' # {}
      <4>1. PICK f \in Awaited(r)' : TRUE
        BY <3>1
      <4>2. at[StepBegin(r)] # NoCursor /\ r \in accepted
        BY <4>1, <2>1, <1>0, FitsIs DEF FrameFits
      <4>3. ~Happened("step_end", r)
        BY <4>1, <2>1 DEF Replayable
      <4> QED
        BY <4>2, <4>3 DEF OpenSteps, Happened, StepBegin
    <3> QED
      BY <3>1, <2>2
  <2>3. ASSUME r \in OpenSteps, NEW p \in 1 .. parts[r] PROVE \E f \in Awaited(r)' : f.part = p
    <3>1. r \in accepted /\ r \notin Ended /\ at[StepBegin(r)] # NoCursor /\ ~Happened("step_end", r)
      BY <2>0, <2>3, <1>0, OpenIsNotEnded DEF OpenSteps
    <3>2. r \in Selected
      BY <3>1, <1>5 DEF Selected
    <3>3. ~JoinedMidway(r)
      BY <3>2, <1>1, <1>5
    <3>4. PICK g \in Cache : g.what = "step_begin" /\ g.of = r
      BY <3>3, <2>3 DEF JoinedMidway
    <3>5. g \in Replayable
      BY <3>4 DEF Replayable
    <3>6. at[StepBegin(r)].e = epoch /\ at[StepBegin(r)].n = g.n /\ g.n \in Nat /\ cursor.n < g.n /\ cursor.n \in Nat
      BY <3>4, <3>5, <1>0, ReplayableIs DEF StepBegin, TypeInv, CursorSet
    <3>7. floor \in Nat /\ at[StepBegin(r)].n > floor
      BY <3>6, <1>0, <1>1 DEF TypeInv
    <3>8. PICK f \in ring : f.what = "part" /\ f.of = r /\ f.part = p
      BY <2>3, <3>6, <3>7, <1>0 DEF FramesInv
    <3>9. f \in FrameSet /\ FrameFits(f)
      BY <1>0 DEF FramesInv, Frames, TypeInv
    <3>10. at[StepBegin(r)].n < f.n /\ f.n \in Nat
      BY <3>8, <3>9, <1>0, FitsIs DEF FrameSet
    <3>11. f \in Replayed
      BY <3>1, <3>3, <3>6, <3>8, <3>10, <1>5 DEF Replayed, Replayable, Cache
    <3> QED
      BY <3>8, <3>11, <1>4
  <2> QED
    BY <2>0, <2>1, <2>2, <2>3
<1> QED
  BY <1>2, <1>3, <1>5 DEF PartsInv

\* An attachment that replays keeps the invariant.
LEMMA AttachReplayKeeps ==
    ASSUME Inv, Attach, Cached, ~Gap
    PROVE  Inv' /\ heard' = heard
<1> DEFINE q == Replay
<1> HIDE DEF q
<1>q. q = Replay
  BY DEF q
<1>1. /\ q \in Seq(ItemSet) /\ prefix' = q \o <<Checkpoint(tail)>>
      /\ \A i \in DOMAIN q : q[i].type = "source" => q[i].frame \in ring
      /\ Coming' = view
  BY <1>q, ReplayIs
<1>2. /\ TypeInv' /\ RecordsInv' /\ OrderInv' /\ FramesInv' /\ ViewInv' /\ LinkInv' /\ ReaderInv' /\ BatchInv'
      /\ at' = at /\ view' = view /\ heard' = heard
  BY <1>1, AttachIs DEF records, client
<1>3. PrefixInv' /\ PartsInv'
  BY ReplayPrefix, ReplayParts
<1>4. Shows(Coming', at, missed')
  BY <1>1, <1>2 DEF ViewInv, Shows
<1>5. ASSUME NEW k \in DOMAIN Coming' PROVE k \in Facts /\ Above(k) \subseteq DOMAIN Coming'
  <2>1. k \in Facts /\ k \in DOMAIN view
    BY <1>1, <1>5 DEF Inv, TypeInv, Views
  <2>2. k[1] \in {"step_begin", "step_end"} => Begin(k[2]) \in DOMAIN view /\ StepBegin(k[2]) \in DOMAIN view
    BY <2>1 DEF Inv, ViewInv, ViewIsNested, Begin, StepBegin
  <2> QED
    BY <2>1, <2>2, <1>1 DEF Above
<1>6. \A k \in Facts : k[2] \in InScope \ missed' /\ at[k] # NoCursor => Reaches(k)'
  BY ReplayReaches
<1>7. ReachInv'
  BY <1>1, <1>3, <1>4, <1>5, <1>6, AttachReach
<1> QED
  BY <1>2, <1>3, <1>7 DEF Inv, OpenInv

\* What a replacement replaces.
Roots == IF cursor # NoCursor /\ ~SameEpoch THEN {Agent} ELSE Selected

\* An attachment that replaces trees by what the records say of them.
LEMMA ReplacementIs ==
    ASSUME Inv, Attach, ~(Cached /\ ~Gap), NEW s, s = Structure(Selected), NEW q, q = <<Prefill(Roots)>> \o s
    PROVE  /\ q \in Seq(ItemSet) /\ prefix' = q \o <<Checkpoint(tail)>>
           /\ \A i \in DOMAIN q : q[i].type = "source" => q[i].frame \in ring
           /\ suppressed' = Selected \cap OpenSteps
           /\ Sources' = {} /\ Replacing' /\ Coming' = Replaced(Roots)
           /\ prefix' # <<>> /\ prefix'[Len(prefix')] = Checkpoint(tail)
           /\ prefix'[1].type = "prefill"
           /\ \A i \in DOMAIN prefix' : i = 1 \/ i = Len(prefix') \/ i \in Told'
           /\ \A i \in Told' : /\ i \in Nat /\ i - 1 \in DOMAIN s /\ prefix'[i] = s[i - 1] /\ prefix'[i].type = "context"
                               /\ Key(prefix[i])' = s[i - 1].key
           /\ \A j \in DOMAIN s : /\ j \in Nat /\ j + 1 \in Told' /\ prefix'[j + 1] = s[j] /\ prefix'[j + 1].type = "context"
                                  /\ Key(prefix[j + 1])' = s[j].key
<1>0. TypeInv /\ RecordsInv /\ OrderInv /\ FramesInv /\ LinkInv
  BY DEF Inv
<1>1. Selected \in SUBSET accepted /\ Selected \subseteq Runs
  BY <1>0 DEF Selected, TypeInv
<1>2. s \in Seq(ContextSet) /\ \A i \in DOMAIN s : s[i] = Context(s[i].key) /\ s[i].key \in Facts
  BY <1>0, <1>1, StructureFacts DEF Recorded
<1>3. ContextSet \subseteq ItemSet
  BY DEF ItemSet
<1>4. s \in Seq(ItemSet)
  BY <1>2, <1>3, SeqMonotonic
<1> DEFINE a == Prefill(Roots)
<1>5. a \in ItemSet /\ a.type = "prefill" /\ a.roots = Roots
  <2>1. Roots \in SUBSET (Runs \cup {Agent}) /\ Here \in CursorSet
    BY <1>0, <1>1 DEF Roots, Here, Cursor, CursorSet, TypeInv
  <2>2. a = [type |-> "prefill", at |-> Here, roots |-> Roots]
    BY DEF Prefill
  <2>3. [type |-> "prefill", at |-> Here, roots |-> Roots] \in [type : {"prefill"}, at : CursorSet, roots : SUBSET (Runs \cup {Agent})]
    BY <2>1
  <2> QED
    BY <2>2, <2>3 DEF ItemSet
<1> DEFINE h == <<a>>
<1>6. h \in Seq(ItemSet) /\ Len(h) = 1 /\ DOMAIN h = 1 .. 1 /\ h[1] = a /\ q = h \o s
  BY <1>5
<1> HIDE DEF a, h
<1>7. /\ q \in Seq(ItemSet) /\ Len(s) \in Nat /\ DOMAIN s = 1 .. Len(s)
      /\ 1 \in DOMAIN q /\ q[1] = a
      /\ \A j \in DOMAIN s : 1 + j \in DOMAIN q /\ q[1 + j] = s[j]
      /\ \A i \in DOMAIN q : i = 1 \/ \E j \in DOMAIN s : i = 1 + j
  <2>1. /\ h \o s \in Seq(ItemSet) /\ Len(s) \in Nat /\ DOMAIN s = 1 .. Len(s)
        /\ \A i \in DOMAIN h : i \in DOMAIN (h \o s) /\ (h \o s)[i] = h[i]
        /\ \A j \in DOMAIN s : Len(h) + j \in DOMAIN (h \o s) /\ (h \o s)[Len(h) + j] = s[j]
        /\ \A i \in DOMAIN (h \o s) : i \in DOMAIN h \/ \E j \in DOMAIN s : i = Len(h) + j
    <3>1. h \in Seq(ItemSet) /\ s \in Seq(ItemSet)
      BY <1>4, <1>6
    <3> QED
      BY ONLY <3>1, ConcatFacts
  <2>2. 1 \in DOMAIN h /\ \A i \in DOMAIN h : i = 1
    BY <1>6
  <2>3. /\ q \in Seq(ItemSet) /\ Len(s) \in Nat /\ DOMAIN s = 1 .. Len(s)
        /\ \A i \in DOMAIN h : i \in DOMAIN q /\ q[i] = h[i]
        /\ \A j \in DOMAIN s : Len(h) + j \in DOMAIN q /\ q[Len(h) + j] = s[j]
        /\ \A i \in DOMAIN q : i \in DOMAIN h \/ \E j \in DOMAIN s : i = Len(h) + j
    BY ONLY <2>1, <1>6
  <2>4. Len(h) = 1 /\ h[1] = a
    BY <1>6
  <2> QED
    BY ONLY <2>2, <2>3, <2>4
<1>8. \A j \in DOMAIN s : s[j].type = "context" /\ Key(s[j]) = s[j].key
  BY <1>0, <1>2, ContextIs
<1>9. \A i \in DOMAIN q : q[i].type # "source"
  BY <1>5, <1>7, <1>8
<1>10. prefix' = q \o <<Checkpoint(tail)>> /\ suppressed' = Selected \cap OpenSteps
  BY DEF Attach, Replacement, Roots
<1>11. /\ prefix' # <<>> /\ prefix'[Len(prefix')] = Checkpoint(tail)
       /\ \A i \in DOMAIN q : i \in DOMAIN prefix' /\ prefix'[i] = q[i]
       /\ \A i \in DOMAIN prefix' : i # Len(prefix') => i \in DOMAIN q
       /\ Told' = {i \in DOMAIN q : q[i].type \in {"context", "source"}}
       /\ Sources' = {q[i].frame : i \in {j \in DOMAIN q : q[j].type = "source"}}
  <2>1. tail \in Nat /\ q \in Seq(ItemSet)
    BY <1>0, <1>7 DEF TypeInv
  <2>2. prefix' = q \o <<Checkpoint(tail)>>
    BY <1>10
  <2> QED
    BY ONLY <1>0, <2>1, <2>2, PrefixIs
<1>12. Sources' = {} /\ prefix'[1] = a /\ prefix'[1].type = "prefill"
  BY <1>5, <1>7, <1>9, <1>11
<1>13. staged' = <<>> /\ view' = view
  BY <1>7, <1>9, <1>10, AttachIs DEF client
<1>14. Replacing'
  BY <1>11, <1>12 DEF Replacing
<1>15. Coming' = Replaced(Roots)
  <2>1. Coming' = Replaced(prefix[1].roots)'
    BY <1>13, <1>14 DEF Coming
  <2>2. prefix'[1].roots = Roots
    BY <1>12, <1>5
  <2> QED
    BY <2>1, <2>2, <1>13 DEF Replaced
<1>16. ASSUME NEW i \in Told'
       PROVE  /\ i \in Nat /\ i - 1 \in DOMAIN s /\ prefix'[i] = s[i - 1] /\ prefix'[i].type = "context"
              /\ Key(prefix[i])' = s[i - 1].key
  <2>1. i \in DOMAIN q /\ q[i].type # "prefill" /\ prefix'[i] = q[i]
    BY <1>11
  <2>2. PICK j \in DOMAIN s : i = 1 + j
    BY <2>1, <1>5, <1>7
  <2>3. j \in Nat /\ i - 1 = j /\ q[i] = s[j]
    BY <2>2, <1>7
  <2>4. prefix'[i] = s[j]
    BY <2>1, <2>3
  <2> QED
    BY <2>2, <2>3, <2>4, <1>8 DEF Key
<1>17. ASSUME NEW j \in DOMAIN s
       PROVE  /\ j \in Nat /\ j + 1 \in Told' /\ prefix'[j + 1] = s[j] /\ prefix'[j + 1].type = "context"
              /\ Key(prefix[j + 1])' = s[j].key
  <2>1. j \in Nat /\ j + 1 = 1 + j
    BY <1>7
  <2>2. j + 1 \in DOMAIN q /\ q[j + 1] = s[j] /\ prefix'[j + 1] = s[j] /\ j + 1 \in Told'
    BY <2>1, <1>7, <1>8, <1>11
  <2> QED
    BY <2>1, <2>2, <1>8 DEF Key
<1>18. \A i \in DOMAIN prefix' : i = 1 \/ i = Len(prefix') \/ i \in Told'
  <2> SUFFICES ASSUME NEW i \in DOMAIN prefix', i # 1, i # Len(prefix') PROVE i \in Told'
    OBVIOUS
  <2>1. PICK j \in DOMAIN s : i = 1 + j
    BY <1>7, <1>11
  <2> QED
    BY <2>1, <1>7, <1>17
<1> QED
  BY <1>7, <1>9, <1>10, <1>11, <1>12, <1>14, <1>15, <1>16, <1>17, <1>18

\* A replacement is a prefix as the invariant has it.
LEMMA ReplacementPrefix ==
    ASSUME Inv, Attach, ~(Cached /\ ~Gap)
    PROVE  PrefixInv'
<1> DEFINE s == Structure(Selected)
           q == <<Prefill(Roots)>> \o s
<1>q. s = Structure(Selected) /\ q = <<Prefill(Roots)>> \o s
  OBVIOUS
<1> HIDE DEF q, s
<1>0. TypeInv /\ RecordsInv /\ OrderInv
  BY DEF Inv
<1>1. /\ q \in Seq(ItemSet) /\ prefix' = q \o <<Checkpoint(tail)>>
      /\ \A i \in DOMAIN q : q[i].type = "source" => q[i].frame \in ring
      /\ Replacing' /\ prefix' # <<>> /\ prefix'[Len(prefix')] = Checkpoint(tail)
      /\ prefix'[1].type = "prefill"
      /\ \A i \in DOMAIN prefix' : i = 1 \/ i = Len(prefix') \/ i \in Told'
      /\ \A i \in Told' : /\ i \in Nat /\ i - 1 \in DOMAIN s /\ prefix'[i] = s[i - 1] /\ prefix'[i].type = "context"
                          /\ Key(prefix[i])' = s[i - 1].key
      /\ \A j \in DOMAIN s : /\ j \in Nat /\ j + 1 \in Told' /\ prefix'[j + 1] = s[j] /\ prefix'[j + 1].type = "context"
                             /\ Key(prefix[j + 1])' = s[j].key
  BY <1>q, ReplacementIs
<1>2. Selected \in SUBSET accepted /\ Selected \subseteq InScope
  BY <1>0 DEF Selected
<1>3. /\ \A i \in DOMAIN s : s[i].key \in Recorded(Selected) /\ s[i] = Context(s[i].key)
      /\ \A i \in DOMAIN s : \A k \in Above(s[i].key) : \E j \in DOMAIN s : j < i /\ s[j].key = k
      /\ \A i, j \in DOMAIN s : \A r \in Runs : s[i].key = End(r) /\ s[j].key = Begin(r) => j < i
  <2>1. LET t == Structure(Selected) IN
        /\ \A i \in DOMAIN t : t[i].key \in Recorded(Selected) /\ t[i] = Context(t[i].key)
        /\ \A i \in DOMAIN t : \A k \in Above(t[i].key) : \E j \in DOMAIN t : j < i /\ t[j].key = k
        /\ \A i, j \in DOMAIN t : \A r \in Runs : t[i].key = End(r) /\ t[j].key = Begin(r) => j < i
    BY <1>0, <1>2, StructureFacts
  <2>2. s = Structure(Selected)
    BY <1>q
  <2> QED
    BY ONLY <2>1, <2>2
<1>4. /\ UNCHANGED <<epoch, tail, at>> /\ reader' = tail /\ batch' = <<>> /\ mark' = 0 /\ Known' = at
      /\ InScope' = InScope /\ staged' = <<>>
  BY <1>1, AttachIs DEF source, records, client
<1>5. Checkpoint(reader)' = Checkpoint(tail)
  BY <1>4 DEF Checkpoint, Cursor
<1>6. ASSUME NEW i \in Told' PROVE ContextFits(prefix[i])'
  <2>1. prefix'[i] = s[i - 1] /\ i - 1 \in DOMAIN s
    BY <1>1
  <2> DEFINE k == s[i - 1].key
  <2>2. k \in Recorded(Selected) /\ s[i - 1] = Context(k)
    BY <2>1, <1>3
  <2>3. k \in Facts /\ k[2] \in InScope /\ (k[1] # "run_begin" => at[k] # NoCursor)
    <3>1. k = <<k[1], k[2]>> /\ k \in Facts
      BY <2>2, FactsAre DEF Recorded
    <3>2. k[2] \in Selected /\ (k[1] = "run_begin" \/ Happened(k[1], k[2]))
      BY <2>2 DEF Recorded
    <3> QED
      BY <3>1, <3>2, <1>2 DEF Happened
  <2>4. s[i - 1] = [type |-> "context", key |-> k, at |-> at[k]]
    BY <2>2 DEF Context
  <2> HIDE DEF k
  <2>5. prefix'[i] = [type |-> "context", key |-> k, at |-> Known'[k]] /\ prefix'[i].key = k
    BY <2>1, <2>4, <1>4
  <2> QED
    BY <2>3, <2>5, <1>4 DEF ContextFits
<1>7. \A i \in DOMAIN prefix' : i # Len(prefix') =>
          \/ i = 1 /\ staged' = <<>> /\ prefix'[i].type = "prefill"
          \/ prefix'[i].type = "context" /\ ContextFits(prefix[i])'
          \/ prefix'[i].type = "source" /\ ~Replacing' /\ SourceFits(prefix[i])'
  BY <1>1, <1>4, <1>6
<1>8. \A i \in DOMAIN prefix' : prefix'[i].type # "source"
  <2>1. Checkpoint(tail).type = "checkpoint"
    BY DEF Checkpoint
  <2> QED
    BY <2>1, <1>1
<1>9. \A i, j \in DOMAIN prefix' :
          i < j /\ prefix'[i].type = "source" /\ prefix'[j].type = "source" => prefix'[i].frame.n < prefix'[j].frame.n
  BY <1>8
<1>10. ASSUME NEW i \in Told', NEW k \in Above(Key(prefix[i]))'
       PROVE  \E j \in Told' : j < i /\ Key(prefix[j])' = k
  <2>1. i \in Nat /\ i - 1 \in DOMAIN s /\ Key(prefix[i])' = s[i - 1].key
    BY <1>1
  <2>2. k \in Above(s[i - 1].key)
    BY <2>1, <1>10 DEF Above
  <2>3. PICK j \in DOMAIN s : j < i - 1 /\ s[j].key = k
    BY <2>1, <2>2, <1>3
  <2>4. j \in Nat /\ j + 1 \in Told' /\ Key(prefix[j + 1])' = k
    BY <2>3, <1>1
  <2>5. j + 1 < i
    BY <2>1, <2>3, <2>4
  <2> QED
    BY <2>4, <2>5
<1>11. ASSUME NEW i \in Told', NEW j \in Told', NEW r \in Runs, Key(prefix[i])' = End(r), Key(prefix[j])' = Begin(r)
       PROVE  j < i
  <2>1. /\ i \in Nat /\ i - 1 \in DOMAIN s /\ s[i - 1].key = End(r)
        /\ j \in Nat /\ j - 1 \in DOMAIN s /\ s[j - 1].key = Begin(r)
    BY <1>1, <1>11
  <2>2. j - 1 < i - 1
    BY <2>1, <1>3
  <2> QED
    BY <2>1, <2>2
<1>12. \A i \in Told' : \A k \in Above(Key(prefix[i]))' :
          k \in DOMAIN Coming' \/ \E j \in Told' : j < i /\ Key(prefix[j])' = k
  BY <1>10
<1>13. \A i, j \in Told' : \A r \in Runs : Key(prefix[i])' = End(r) /\ Key(prefix[j])' = Begin(r) => j < i
  BY <1>11
<1>14. batch' = <<>> /\ mark' = 0 /\ prefix'[Len(prefix')] = Checkpoint(reader)' /\ Replacing'
  BY <1>1, <1>4, <1>5
<1> QED
  BY ONLY <1>7, <1>9, <1>12, <1>13, <1>14 DEF PrefixInv, End, Begin

(* After a replacement every recorded fact is told, or is in a tree that   *)
(* has not changed after the cursor.                                       *)
LEMMA ReplacementReaches ==
    ASSUME Inv, Attach, ~(Cached /\ ~Gap), NEW k \in Facts, k[2] \in InScope \ missed', at[k] # NoCursor
    PROVE  Reaches(k)'
<1> DEFINE s == Structure(Selected)
           q == <<Prefill(Roots)>> \o s
<1>q. s = Structure(Selected) /\ q = <<Prefill(Roots)>> \o s
  OBVIOUS
<1> HIDE DEF q, s
<1>0. TypeInv /\ RecordsInv /\ OrderInv /\ ViewInv
  BY DEF Inv
<1>1. /\ q \in Seq(ItemSet) /\ prefix' = q \o <<Checkpoint(tail)>>
      /\ \A i \in DOMAIN q : q[i].type = "source" => q[i].frame \in ring
      /\ Replacing' /\ Coming' = Replaced(Roots)
      /\ \A j \in DOMAIN s : j + 1 \in Told' /\ Key(prefix[j + 1])' = s[j].key
  BY <1>q, ReplacementIs
<1>2. /\ at' = at /\ Selected \subseteq InScope /\ Selected \in SUBSET accepted
      /\ cursor # NoCursor \/ followed # Agent => missed' = missed
      /\ cursor = NoCursor /\ followed = Agent => missed' = Ended
  BY <1>1, AttachIs DEF records
<1>3. CASE k[2] \in Selected
  <2>1. k \in Recorded(Selected)
    <3>1. k = <<k[1], k[2]>>
      BY FactsAre
    <3> QED
      BY <3>1, <1>3 DEF Recorded, Happened
  <2>2. \E j \in DOMAIN s : s[j].key = k
    <3>1. LET t == Structure(Selected) IN \A x \in Recorded(Selected) : \E i \in DOMAIN t : t[i].key = x
      BY <1>0, <1>2, StructureFacts
    <3> QED
      BY <3>1, <2>1, <1>q
  <2>3. PICK j \in DOMAIN s : s[j].key = k
    BY <2>2
  <2>4. j + 1 \in Told' /\ Key(prefix[j + 1])' = k
    BY <2>3, <1>1
  <2> QED
    BY <2>4, <1>1 DEF Reaches
<1>4. CASE k[2] \notin Selected
  <2>1. k[2] \in accepted \cap InScope
    BY <1>0 DEF RecordsInv
  <2>2. /\ followed = Agent /\ ~(cursor # NoCursor /\ ~SameEpoch) /\ k[2] \in Ended
        /\ ~(SameEpoch /\ ChangedAfter(k[2]))
    BY <2>1, <1>4 DEF Selected
  <2>3. cursor # NoCursor /\ missed' = missed
    BY <2>2, <1>2
  <2>4. cursor.e = epoch /\ ~(at[k].e = epoch /\ at[k].n > cursor.n)
    BY <2>2, <2>3 DEF ChangedAfter, SameEpoch
  <2>5. Passed(at[k])
    <3>1. at[k].e \in Nat /\ at[k].n \in Nat /\ at[k].e <= epoch /\ cursor.n \in Nat /\ epoch \in Nat
      BY <1>0 DEF TypeInv, RecordsInv, CursorSet
    <3> QED
      BY <3>1, <2>4 DEF Passed
  <2>6. k \in DOMAIN view /\ view[k] = at[k]
    BY <2>3, <2>5, <1>0 DEF ViewInv, CursorIsReflected
  <2>7. Roots = Selected /\ k[2] \notin Roots /\ Agent \notin Roots
    <3>1. Selected \subseteq Runs
      BY <1>0, <1>2 DEF TypeInv
    <3> QED
      BY <3>1, <2>2, <1>4, ScopeAssumption DEF Roots
  <2>8. k \in DOMAIN Replaced(Roots) /\ Replaced(Roots)[k] = at[k]
    BY <2>6, <2>7, <1>0, ReplacedIs
  <2> QED
    BY <2>8, <1>1, <1>2 DEF Reaches
<1> QED
  BY <1>3, <1>4

\* An attachment that replaces keeps the invariant.
LEMMA AttachReplacementKeeps ==
    ASSUME Inv, Attach, ~(Cached /\ ~Gap)
    PROVE  Inv' /\ heard' = heard
<1> DEFINE q == <<Prefill(Roots)>> \o Structure(Selected)
<1>q. q = <<Prefill(Roots)>> \o Structure(Selected)
  OBVIOUS
<1> HIDE DEF q
<1>0. TypeInv /\ OrderInv /\ ViewInv
  BY DEF Inv
<1>1. /\ q \in Seq(ItemSet) /\ prefix' = q \o <<Checkpoint(tail)>>
      /\ \A i \in DOMAIN q : q[i].type = "source" => q[i].frame \in ring
      /\ suppressed' = Selected \cap OpenSteps /\ Sources' = {} /\ Coming' = Replaced(Roots)
  BY <1>q, ReplacementIs
<1>2. /\ TypeInv' /\ RecordsInv' /\ OrderInv' /\ FramesInv' /\ ViewInv' /\ LinkInv' /\ ReaderInv' /\ BatchInv'
      /\ at' = at /\ parts' = parts /\ view' = view /\ heard' = heard /\ InBatch' = {} /\ Unread' = {} /\ Known' = at
      /\ InScope' = InScope /\ OpenSteps' = OpenSteps /\ InScope \subseteq Runs
  BY <1>1, AttachIs DEF records, client
<1>3. PrefixInv'
  BY ReplacementPrefix
<1>4. /\ DOMAIN Coming' \subseteq DOMAIN view /\ DOMAIN view \subseteq Facts
      /\ \A k \in DOMAIN Coming' : Coming'[k] = view[k]
  BY <1>0, <1>1, ReplacedIs DEF TypeInv, Views
<1>5. Shows(Coming', at, missed')
  BY <1>2, <1>4 DEF ViewInv, Shows
<1>6. ASSUME NEW k \in DOMAIN Coming' PROVE k \in Facts /\ Above(k) \subseteq DOMAIN Coming'
  <2>1. k \in Facts /\ k \in DOMAIN view /\ k[2] \in Runs
    BY <1>4, <1>6, FactsAre
  <2>2. ASSUME NEW a \in Above(k) PROVE a \in DOMAIN view /\ a[2] = k[2]
    <3>1. k[1] \in {"step_begin", "step_end"} => Begin(k[2]) \in DOMAIN view /\ StepBegin(k[2]) \in DOMAIN view
      BY <2>1, <1>0 DEF ViewInv, ViewIsNested, Begin, StepBegin
    <3>2. k[1] \in {"step_begin", "step_end"} /\ a \in {Begin(k[2]), StepBegin(k[2])}
      BY <2>2 DEF Above
    <3> QED
      BY <2>1, <3>1, <3>2, FactsOf
  <2>3. ~(k[2] \in Roots \/ (Agent \in Roots /\ Begin(k[2]) \in DOMAIN view))
    BY <1>0, <1>1, <1>6, ReplacedIs
  <2>4. ASSUME NEW a \in Above(k) PROVE a \in DOMAIN Coming'
    <3>1. ~(a[2] \in Roots \/ (Agent \in Roots /\ Begin(a[2]) \in DOMAIN view))
      BY <2>2, <2>3
    <3> QED
      BY <2>2, <3>1, <1>0, <1>1, ReplacedIs
  <2> QED
    BY <2>1, <2>4
<1>7. \A k \in Facts : k[2] \in InScope \ missed' /\ at[k] # NoCursor => Reaches(k)'
  BY ReplacementReaches
<1>8. ReachInv'
  BY <1>1, <1>3, <1>5, <1>6, <1>7, AttachReach
<1>9. PartsInv'
  <2>1. \A r : Awaited(r)' = {}
    BY <1>1, <1>2 DEF Awaited
  <2>2. ASSUME NEW r \in suppressed' PROVE Known'[StepBegin(r)] # NoCursor
    BY <2>2, <1>1, <1>2 DEF OpenSteps, Happened, StepBegin
  <2>3. ASSUME NEW r \in InScope \ suppressed' PROVE r \notin OpenSteps
    <3>1. SUFFICES ASSUME r \in OpenSteps PROVE FALSE
      OBVIOUS
    <3>2. r \in accepted /\ r \notin Ended
      BY <2>3, <3>1, <1>0, <1>2, OpenIsNotEnded
    <3> QED
      BY <3>1, <3>2, <2>3, <1>1 DEF Selected
  <2> QED
    BY <2>1, <2>2, <2>3, <1>2 DEF PartsInv
<1> QED
  BY <1>2, <1>3, <1>8, <1>9 DEF Inv, OpenInv

\* The invariant holds before the first process does anything.
LEMMA InitHolds == Init => Inv
<1> SUFFICES ASSUME Init PROVE Inv
  OBVIOUS
<1>1. /\ epoch = 1 /\ tail = 0 /\ floor = 0 /\ ring = {} /\ accepted = {} /\ alive = {}
      /\ at = [k \in Facts |-> NoCursor] /\ parts = [r \in Runs |-> 0]
      /\ link = "off" /\ reader = 0 /\ lost = FALSE /\ prefix = <<>> /\ batch = <<>> /\ mark = 0
      /\ active = {} /\ suppressed = {} /\ cursor = NoCursor /\ view = <<>> /\ staged = <<>>
      /\ heard = [r \in Runs |-> 0] /\ missed = {} /\ followed \in Runs \cup {Agent}
  BY DEF Init
<1>2. NoCursor \in CursorSet /\ NoCursor.e = 0 /\ NoCursor.n = 0
  BY DEF NoCursor, Cursor, CursorSet
<1>3. view \in Views /\ DOMAIN view = {}
  <2>1. <<>> \in [{} -> CursorSet] /\ DOMAIN <<>> = {}
    OBVIOUS
  <2>2. {} \in SUBSET Facts
    OBVIOUS
  <2> QED
    BY <2>1, <2>2, <1>1 DEF Views
<1>4. IsFiniteSet({})
  BY FS_EmptySet
<1>5. TypeInv
  <2>1. prefix \in Seq(ItemSet) /\ batch \in Seq(FrameSet) /\ staged \in Seq(Views)
    BY <1>1, EmptySeq
  <2>2. at \in [Facts -> CursorSet] /\ cursor \in CursorSet
    BY <1>1, <1>2
  <2>3. parts \in [Runs -> Nat] /\ heard \in [Runs -> Nat]
    BY <1>1
  <2> QED
    BY <2>1, <2>2, <2>3, <1>1, <1>3, <1>4 DEF TypeInv
<1>6. RecordsInv /\ OrderInv
  BY <1>1, <1>2, FactsOf DEF RecordsInv, OrderInv
<1>7. FramesInv
  <2>1. Frames = {} /\ OpenSteps = {}
    BY <1>1 DEF Frames, Sources, InBatch, OpenSteps
  <2> QED
    BY <2>1, <1>1, <1>2, <1>4 DEF FramesInv
<1>8. ViewInv
  <2>1. \A k \in Facts : ~Passed(at[k])
    BY <1>1 DEF Passed
  <2>2. CursorIsReflected
    BY <2>1 DEF CursorIsReflected
  <2>3. Shows(view, at, missed) /\ ViewIsNested
    BY <1>3 DEF Shows, ViewIsNested
  <2> QED
    BY <2>2, <2>3, <1>1, <1>2 DEF ViewInv
<1>9. LinkInv
  BY <1>1 DEF LinkInv, EndIsComplete
<1> QED
  BY <1>1, <1>5, <1>6, <1>7, <1>8, <1>9 DEF Inv, OpenInv

\* A client hears the next part of a step, the same as before, or is new.
Hears == \A r \in Runs : heard'[r] \in {0, heard[r], heard[r] + 1}

\* The three ways in which what a client heard of a step may change.
LEMMA HeardOne ==
    ASSUME TypeInv, \/ heard' = heard \/ heard' = [r \in Runs |-> 0]
                    \/ \E f \in FrameSet : f.part = heard[f.of] + 1 /\ heard' = [heard EXCEPT ![f.of] = f.part]
    PROVE  Hears
<1>1. heard \in [Runs -> Nat]
  BY DEF TypeInv
<1>2. CASE heard' = heard \/ heard' = [r \in Runs |-> 0]
  BY <1>1, <1>2 DEF Hears
<1>3. CASE \E f \in FrameSet : f.part = heard[f.of] + 1 /\ heard' = [heard EXCEPT ![f.of] = f.part]
  <2>1. PICK f \in FrameSet : f.part = heard[f.of] + 1 /\ heard' = [heard EXCEPT ![f.of] = f.part]
    BY <1>3
  <2> QED
    BY <2>1, <1>1 DEF Hears
<1> QED
  BY <1>2, <1>3

(* Every step keeps the invariant, and lets the client hear the next part  *)
(* or none.                                                                *)
LEMMA StepHolds == Inv /\ [Next]_vars => Inv' /\ Hears
<1> SUFFICES ASSUME Inv, [Next]_vars PROVE Inv' /\ Hears
  OBVIOUS
<1>0. TypeInv
  BY DEF Inv
<1>1. CASE UNCHANGED vars
  <2>1. /\ UNCHANGED <<epoch, tail, records, link, reader, prefix, batch, mark, active, suppressed, client, missed, followed>>
        /\ ring' = ring /\ floor' = floor /\ lost' = lost
    BY <1>1 DEF vars, source, server
  <2>2. FramesInv /\ floor <= tail /\ floor <= floor
    BY <1>0 DEF Inv, RecordsInv, TypeInv
  <2>3. link = "open" /\ ~lost => floor <= reader
    BY DEF Inv, OpenInv, ReaderInv
  <2>4. RingDrops
    BY <2>1, <2>2, <2>3, <1>0 DEF RingDrops, FramesInv, TypeInv
  <2>5. heard' = heard
    BY <2>1 DEF client
  <2> QED
    BY <2>4, <2>5, <1>0, RingDropsKeeps, HeardOne
<1>2. ASSUME NEW r \in Runs, BeginRun(r) \/ BeginStep(r) \/ FinishStep(r) \/ FinishRun(r) PROVE Inv' /\ Hears
  <2>1. PICK k \in Facts : FactStep(k)
    BY <1>2, FactStepIs
  <2>2. heard' = heard
    BY <2>1 DEF FactStep, client
  <2> QED
    BY <2>1, <2>2, <1>0, FactStepKeeps, HeardOne
<1>3. ASSUME NEW r \in Runs, Emit(r) PROVE Inv' /\ Hears
  <2>1. heard' = heard
    BY <1>3 DEF Emit, Publish, client
  <2> QED
    BY <2>1, <1>0, <1>3, EmitKeeps, HeardOne
<1>4. ASSUME NEW r \in Runs, AcceptRun(r) PROVE Inv' /\ Hears
  <2>1. heard' = heard
    BY <1>4 DEF AcceptRun, client
  <2> QED
    BY <2>1, <1>0, <1>4, AcceptRunKeeps, HeardOne
<1>5. ASSUME RingDrops PROVE Inv' /\ Hears
  <2>1. heard' = heard
    BY <1>5 DEF RingDrops, client
  <2> QED
    BY <2>1, <1>0, <1>5, RingDropsKeeps, HeardOne
<1>6. CASE Reserve
  <2>1. heard' = heard
    BY <1>6 DEF Reserve, client
  <2> QED
    BY <2>1, <1>0, <1>6, ReserveKeeps, HeardOne
<1>7. CASE Attach
  <2>1. Inv' /\ heard' = heard
    BY <1>7, AttachReplayKeeps, AttachReplacementKeeps
  <2> QED
    BY <2>1, <1>0, HeardOne
<1>8. CASE AttachNew
  <2>1. heard' = heard
    BY <1>8 DEF AttachNew, client
  <2> QED
    BY <2>1, <1>0, <1>8, AttachNewKeeps, HeardOne
<1>9. CASE SendPrefix
  BY <1>0, <1>9, SendPrefixKeeps, HeardOne
<1>10. CASE Acquire
  BY <1>0, <1>10, AcquireKeeps, HeardOne
<1>11. CASE Send
  BY <1>0, <1>11, SendKeeps, HeardOne
<1>12. CASE SendCheckpoint
  BY <1>0, <1>12, SendCheckpointKeeps, HeardOne
<1>13. CASE EndStream
  BY <1>0, <1>13, EndStreamKeeps, HeardOne
<1>14. CASE SendOverflow \/ Disconnect
  BY <1>0, <1>14, LostKeeps, HeardOne
<1>15. CASE Restart
  <2>1. heard' = heard \/ heard' = [r \in Runs |-> 0]
    BY <1>15 DEF Restart, Dropped
  <2> QED
    BY <2>1, <1>0, <1>15, RestartKeeps, HeardOne
<1>16. CASE \E r \in Runs : AcceptRun(r) \/ BeginRun(r) \/ BeginStep(r) \/ Emit(r) \/ FinishStep(r) \/ FinishRun(r) \/ Compact(r)
  <2>1. PICK r \in Runs : AcceptRun(r) \/ BeginRun(r) \/ BeginStep(r) \/ Emit(r) \/ FinishStep(r) \/ FinishRun(r) \/ Compact(r)
    BY <1>16
  <2> QED
    BY <2>1, <1>2, <1>3, <1>4, <1>5, CompactDrops
<1>17. CASE Evict \/ Overflow
  BY <1>5, <1>17, EvictDrops, OverflowDrops
<1> QED
  BY <1>1, <1>6, <1>7, <1>8, <1>9, <1>10, <1>11, <1>12, <1>13, <1>14, <1>15, <1>16, <1>17 DEF Next, Serve

(***************************************************************************)
(* The bounds of the model.                                                *)
(***************************************************************************)
Bounded ==
    /\ epoch <= MaxEpochs /\ tail <= MaxTail /\ cuts \in 0 .. MaxCuts
    /\ \A k \in Facts : at[k].n <= MaxTail
    /\ \A r \in Runs : parts[r] <= MaxParts
    /\ cursor.n <= MaxTail
    /\ active \subseteq InScope /\ suppressed \subseteq InScope

\* The bounds hold at first.
LEMMA InitBounded == Init => Bounded
<1> SUFFICES ASSUME Init PROVE Bounded
  OBVIOUS
<1>1. NoCursor.n = 0
  BY DEF NoCursor, Cursor
<1> QED
  BY <1>1, BoundsAssumption DEF Init, Bounded

\* The client's position comes from the stream it reads.
CursorMoves == cursor' = cursor \/ \E n \in Nat : n <= tail /\ cursor' = Cursor(epoch, n)

(* A frame of the prefix moves the cursor to a position of this stream, or *)
(* not at all.                                                             *)
LEMMA SendPrefixMoves ==
    ASSUME Inv, SendPrefix
    PROVE  CursorMoves
<1>0. TypeInv /\ LinkInv
  BY DEF Inv
<1>1. link = "open" /\ prefix # <<>> /\ Feed(prefix[1])
  BY SendPrefixIs
<1>2. cursor' = cursor \/ (prefix[1].type \in {"checkpoint", "source"} /\ cursor' = prefix[1].at)
  BY <1>1 DEF Feed, FeedReplacement, FeedEvent, client
<1>3. reader \in Nat /\ reader <= tail /\ tail \in Nat
  BY <1>0 DEF TypeInv, LinkInv
<1>4. CASE Len(prefix) = 1
  <2>1. prefix[1] = Checkpoint(reader)
    BY <1>1, <1>4, NextIs
  <2>2. prefix[1].at = Cursor(epoch, reader)
    BY <2>1 DEF Checkpoint
  <2> QED
    BY <2>2, <1>2, <1>3 DEF CursorMoves
<1>5. CASE Len(prefix) > 1
  <2>1. prefix[1].type # "checkpoint"
    BY <1>1, <1>5, NextIs
  <2>2. CASE prefix[1].type = "source"
    <3>1. prefix[1].at = Cursor(epoch, prefix[1].frame.n) /\ prefix[1].frame \in FrameSet /\ prefix[1].frame.n <= reader
      BY <1>1, <1>5, <2>2, SourceIsNext
    <3>2. prefix[1].frame.n \in Nat
      BY <3>1 DEF FrameSet
    <3>3. prefix[1].frame.n <= tail
      BY <3>1, <3>2, <1>3
    <3> QED
      BY <3>1, <3>2, <3>3, <1>2 DEF CursorMoves
  <2> QED
    BY <2>1, <2>2, <1>2 DEF CursorMoves
<1> QED
  BY <1>1, <1>4, <1>5, NextIs

\* So does a live frame, and it concerns a run of the scope.
LEMMA SendMoves ==
    ASSUME Inv, Send
    PROVE  CursorMoves /\ active' \subseteq active \cup InScope /\ suppressed' \subseteq suppressed
<1>0. TypeInv /\ LinkInv
  BY DEF Inv
<1>1. /\ BatchStep
      /\ UNCHANGED client \/ cursor' = Cursor(epoch, batch[1].n)
  BY SendIs
<1>2. batch[1] \in FrameSet /\ batch[1].of \in InScope /\ batch[1].n <= reader
  BY <1>1, BatchIs DEF BatchStep
<1>3. batch[1].n \in Nat /\ batch[1].n <= tail
  BY <1>0, <1>2 DEF FrameSet, TypeInv, LinkInv
<1> QED
  BY <1>1, <1>2, <1>3 DEF CursorMoves, BatchStep, client

\* So does every step.
LEMMA StepMoves ==
    ASSUME Inv, [Next]_vars
    PROVE  /\ CursorMoves /\ followed' = followed
           /\ active' \subseteq active \cup InScope /\ suppressed' \subseteq suppressed \cup InScope
<1>0. TypeInv /\ LinkInv
  BY DEF Inv
<1>1. CASE UNCHANGED vars
  BY <1>1 DEF vars, client, server, CursorMoves
<1>2. ASSUME NEW r \in Runs, BeginRun(r) \/ BeginStep(r) \/ FinishStep(r) \/ FinishRun(r) \/ Emit(r)
      PROVE  cursor' = cursor /\ followed' = followed /\ active' = active /\ suppressed' = suppressed
  BY <1>2 DEF BeginRun, BeginStep, FinishStep, FinishRun, Emit, Publish, client, server
<1>3. ASSUME NEW r \in Runs, AcceptRun(r) \/ Compact(r)
      PROVE  cursor' = cursor /\ followed' = followed /\ active' = active /\ suppressed' = suppressed
  BY <1>3 DEF AcceptRun, Compact, client, server
<1>4. CASE Evict \/ Overflow \/ Reserve \/ SendOverflow \/ Disconnect \/ Restart \/ Acquire
  BY <1>4 DEF Evict, Overflow, Reserve, SendOverflow, Disconnect, Restart, Acquire, client, server, CursorMoves
<1>5. CASE Attach
  <2>1. Selected \subseteq InScope
    BY DEF Selected
  <2> QED
    BY <1>5, <2>1 DEF Attach, client, CursorMoves
<1>6. CASE AttachNew
  <2>1. followed \in InScope
    BY <1>6, ScopeAssumption DEF AttachNew, InScope
  <2> QED
    BY <1>6, <2>1 DEF AttachNew, client, CursorMoves
<1>7. CASE SendPrefix
  BY <1>7, SendPrefixMoves DEF SendPrefix
<1>8. CASE Send
  BY <1>8, SendMoves DEF Send
<1>9. ASSUME link = "open", prefix = <<>>, Due, Feed(Checkpoint(mark)) PROVE CursorMoves
  <2>1. cursor' = Cursor(epoch, reader)
    BY <1>9, MarkIs
  <2> QED
    BY <2>1, <1>0 DEF CursorMoves, TypeInv, LinkInv
<1>10. CASE SendCheckpoint
  BY <1>9, <1>10 DEF SendCheckpoint, server
<1>11. CASE EndStream
  BY <1>9, <1>11 DEF EndStream, client, CursorMoves
<1> QED
  BY <1>1, <1>2, <1>3, <1>4, <1>5, <1>6, <1>7, <1>8, <1>10, <1>11 DEF Next, Serve, CursorMoves

\* Every step keeps the bounds.
LEMMA StepBounded == Inv /\ Bounded /\ [Next]_vars => Bounded'
<1> SUFFICES ASSUME Inv, Bounded, [Next]_vars PROVE Bounded'
  OBVIOUS
<1>0. TypeInv /\ Inv' /\ TypeInv'
  BY StepHolds DEF Inv
<1>1. cursor'.n <= MaxTail /\ active' \subseteq InScope' /\ suppressed' \subseteq InScope'
  <2>1. /\ CursorMoves /\ followed' = followed
        /\ active' \subseteq active \cup InScope /\ suppressed' \subseteq suppressed \cup InScope
    BY StepMoves
  <2>2. InScope' = InScope
    BY <2>1 DEF InScope
  <2>3. \A n \in Nat : n <= tail => Cursor(epoch, n).n <= MaxTail
    BY <1>0, BoundsAssumption DEF Bounded, Cursor, TypeInv
  <2> QED
    BY <2>1, <2>2, <2>3 DEF Bounded, CursorMoves
<1> DEFINE B == /\ epoch' <= MaxEpochs /\ tail' <= MaxTail /\ cuts' \in 0 .. MaxCuts
                /\ \A k \in Facts : at'[k].n <= MaxTail
                /\ \A r \in Runs : parts'[r] <= MaxParts
<1>2. /\ epoch \in Nat /\ tail \in Nat /\ at \in [Facts -> CursorSet] /\ parts \in [Runs -> Nat]
      /\ MaxEpochs \in Nat /\ MaxTail \in Nat /\ MaxCuts \in Nat /\ MaxParts \in Nat
  BY <1>0, BoundsAssumption DEF TypeInv
<1>3. ASSUME UNCHANGED <<source, records, cuts>> PROVE B
  BY <1>3 DEF source, records, Bounded
<1>4. ASSUME NEW r \in Runs, NEW what \in Kinds \cup {"part"}, NEW p \in Nat, Publish(what, r, p),
             parts' = parts \/ (parts[r] < MaxParts /\ parts' = [parts EXCEPT ![r] = @ + 1])
      PROVE  B
  <2>1. /\ epoch' = epoch /\ cuts' = cuts /\ tail < MaxTail /\ tail' = tail + 1
        /\ at' = at \/ at' = [at EXCEPT ![<<what, r>>] = Cursor(epoch, tail + 1)]
    BY <1>4 DEF Publish
  <2>2. Cursor(epoch, tail + 1).n <= MaxTail
    BY <2>1, <1>2 DEF Cursor
  <2>3. ASSUME NEW k \in Facts PROVE at'[k].n <= MaxTail
    BY <2>1, <2>2, <1>2 DEF Bounded
  <2>4. ASSUME NEW x \in Runs PROVE parts'[x] <= MaxParts
    BY <1>4, <1>2 DEF Bounded
  <2> QED
    BY <2>1, <2>3, <2>4, <1>2 DEF Bounded
<1>5. ASSUME NEW r \in Runs, BeginRun(r) \/ BeginStep(r) \/ FinishStep(r) \/ FinishRun(r) PROVE B
  <2>1. parts' = parts /\ \E what \in Kinds : Publish(what, r, 0)
    BY <1>5 DEF BeginRun, BeginStep, FinishStep, FinishRun, Kinds
  <2> HIDE DEF B
  <2> QED
    BY <2>1, <1>4
<1>6. ASSUME NEW r \in Runs, Emit(r) PROVE B
  <2>1. /\ Publish("part", r, parts[r] + 1) /\ parts[r] + 1 \in Nat
        /\ parts[r] < MaxParts /\ parts' = [parts EXCEPT ![r] = @ + 1]
    BY <1>2, <1>6 DEF Emit
  <2> HIDE DEF B
  <2> QED
    BY <2>1, <1>4
<1>7. ASSUME NEW r \in Runs, AcceptRun(r) \/ Compact(r) PROVE B
  BY <1>7 DEF AcceptRun, Compact, source, records, Bounded
<1>8. ASSUME \/ Evict \/ Overflow \/ Reserve \/ SendOverflow \/ Acquire \/ Attach \/ AttachNew
             \/ SendPrefix \/ Send \/ SendCheckpoint \/ EndStream
      PROVE  B
  BY <1>8 DEF Evict, Overflow, Reserve, SendOverflow, Acquire, Attach, AttachNew, SendPrefix, Send, SendCheckpoint,
              EndStream, source, records, Bounded
<1>9. ASSUME Disconnect PROVE B
  BY <1>2, <1>9 DEF Disconnect, source, records, Bounded
<1>10. ASSUME Restart PROVE B
  BY <1>2, <1>10 DEF Restart, Bounded
<1>11. ASSUME UNCHANGED vars PROVE B
  BY <1>3, <1>11 DEF vars
<1>12. B
  BY <1>5, <1>6, <1>7, <1>8, <1>9, <1>10, <1>11 DEF Next, Serve
<1> QED
  BY <1>1, <1>12 DEF Bounded

\* The type invariant follows from the invariant and the bounds.
LEMMA BoundedTypes == Inv /\ Bounded => TypeOK
<1> SUFFICES ASSUME Inv, Bounded PROVE TypeOK
  OBVIOUS
<1>0. TypeInv /\ RecordsInv /\ FramesInv /\ ViewInv /\ LinkInv
  BY DEF Inv
<1>1. \A f \in ring : f.n \in floor + 1 .. tail /\ f.of \in accepted
  <2> SUFFICES ASSUME NEW f \in ring PROVE f.n \in floor + 1 .. tail /\ f.of \in accepted
    OBVIOUS
  <2>1. f.n \in 1 .. tail /\ f.of \in accepted /\ floor < f.n /\ floor \in Nat /\ tail \in Nat
    BY <1>0 DEF FramesInv, Frames, FrameFits, TypeInv
  <2> QED
    BY <2>1
<1>2. alive \subseteq accepted \ Ended
  <2>1. ASSUME NEW r \in alive PROVE r \in Runs /\ at[End(r)] = NoCursor
    <3>1. r \in Runs
      BY <1>0 DEF TypeInv
    <3> QED
      BY <3>1, <1>0, FactsOf DEF RecordsInv
  <2> QED
    BY <2>1, <1>0 DEF TypeInv, Ended, Happened, End
<1>3. \A c \in CursorSet : c # NoCursor => c.e \in Nat /\ c.n \in Nat /\ c = [e |-> c.e, n |-> c.n]
  BY DEF CursorSet
<1>4. at \in [Facts -> Cursors]
  <2>1. ASSUME NEW k \in Facts PROVE at[k] \in Cursors
    <3>1. at[k] \in CursorSet /\ at[k].n <= MaxTail
      BY <1>0 DEF TypeInv, Bounded
    <3>2. CASE at[k] # NoCursor
      <4>1. at[k].e \in 1 .. epoch
        BY <1>0, <3>2 DEF RecordsInv
      <4>2. at[k].e \in 1 .. MaxEpochs /\ at[k].n \in 0 .. MaxTail
        BY <3>1, <4>1, <1>0, BoundsAssumption DEF Bounded, TypeInv, CursorSet
      <4> QED
        BY <3>1, <4>2 DEF Cursors, CursorSet
    <3> QED
      BY <3>2 DEF Cursors
  <2> QED
    BY <2>1, <1>0 DEF TypeInv
<1>5. cursor \in Cursors
  <2>1. cursor \in CursorSet /\ cursor.n <= MaxTail
    BY <1>0 DEF TypeInv, Bounded
  <2>2. CASE cursor # NoCursor
    <3>1. cursor.e \in 1 .. epoch
      BY <1>0, <2>2 DEF ViewInv
    <3>2. cursor.e \in 1 .. MaxEpochs /\ cursor.n \in 0 .. MaxTail
      BY <2>1, <3>1, <1>0, BoundsAssumption DEF Bounded, TypeInv, CursorSet
    <3> QED
      BY <2>1, <3>2 DEF Cursors, CursorSet
  <2> QED
    BY <2>2 DEF Cursors
<1>6. parts \in [Runs -> 0 .. MaxParts] /\ heard \in [Runs -> 0 .. MaxParts]
  <2>1. \A r \in Runs : parts[r] \in Nat /\ parts[r] <= MaxParts /\ heard[r] \in Nat /\ heard[r] <= parts[r]
    BY <1>0 DEF TypeInv, Bounded, ViewInv
  <2>2. \A r \in Runs : parts[r] \in 0 .. MaxParts /\ heard[r] \in 0 .. MaxParts
    BY <2>1, BoundsAssumption
  <2> QED
    BY <2>2, <1>0 DEF TypeInv
<1>7. \A f \in ToSet(batch) : f.n <= reader /\ f.of \in InScope
  <2>1. ASSUME NEW f \in ToSet(batch) PROVE \E i \in DOMAIN batch : f = batch[i]
    BY <2>1 DEF ToSet
  <2>2. CASE link = "open"
    BY <2>1, <2>2 DEF Inv, OpenInv, BatchInv
  <2>3. CASE link # "open"
    BY <2>1, <2>3, <1>0 DEF LinkInv
  <2> QED
    BY <2>2, <2>3
<1>8. \A k \in DOMAIN view : k \in Facts /\ view[k] \in {NoCursor, at[k]}
  BY <1>0 DEF ViewInv, Shows, TypeInv, Views
<1>9. /\ epoch \in 1 .. MaxEpochs /\ tail \in 0 .. MaxTail /\ floor \in 0 .. tail /\ reader \in 0 .. tail
      /\ mark \in 0 .. reader /\ cuts \in 0 .. MaxCuts
  BY <1>0, BoundsAssumption DEF TypeInv, RecordsInv, LinkInv, Bounded
<1> QED
  BY <1>0, <1>1, <1>2, <1>4, <1>5, <1>6, <1>7, <1>8, <1>9 DEF TypeOK, TypeInv, Bounded

(***************************************************************************)
(* The theorems.                                                           *)
(***************************************************************************)
LEMMA InvHolds == Spec => []Inv
<1>1. Init => Inv
  BY InitHolds
<1>2. Inv /\ [Next]_vars => Inv'
  BY StepHolds
<1> QED
  BY <1>1, <1>2, PTL DEF Spec

(* The client's view holds, as recorded, every fact at or before its       *)
(* cursor, and no end without its begin, through lost connections,         *)
(* overflows, evictions, replacements and restarts (stream_client.feed     *)
(* against subscriptions.attach and the batches it sends).                 *)
THEOREM ViewHolds == Spec => []ViewIsFaithful
<1>1. Inv => ViewIsFaithful
  BY DEF Inv, ViewInv, ViewIsFaithful
<1> QED
  BY <1>1, InvHolds, PTL

(* A stream of a run that ends by itself has given the client the end of   *)
(* the run (subscriptions.receive ends at through(), never earlier).       *)
THEOREM EndHolds == Spec => []EndIsComplete
<1>1. Inv => EndIsComplete
  BY DEF Inv, LinkInv
<1> QED
  BY <1>1, InvHolds, PTL

(* On one attachment the parts a client is shown of a step are the first,  *)
(* the second and so on (replay() and advance() suppress the progress of a *)
(* step that was joined in the middle).                                    *)
THEOREM PartsHold == Spec => PartsFromTheStart
<1>1. Inv /\ [Next]_vars => [\A r \in Runs : heard'[r] \in {0, heard[r], heard[r] + 1}]_vars
  BY StepHolds DEF Hears
<1> QED
  BY <1>1, InvHolds, PTL DEF Spec, PartsFromTheStart

\* Every variable stays within its type and its bounds.
THEOREM SubscriptionTypes == Spec => []TypeOK
<1>1. Init => Bounded
  BY InitBounded
<1>2. Inv /\ Bounded /\ [Next]_vars => Bounded'
  BY StepBounded
<1>3. Inv /\ Bounded => TypeOK
  BY BoundedTypes
<1> QED
  BY <1>1, <1>2, <1>3, InvHolds, PTL DEF Spec

=============================================================================
