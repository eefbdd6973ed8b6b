---- MODULE CanonicalStreamProofs ----
(***************************************************************************)
(* Proofs about the ring of retained events and its readers, for any       *)
(* number of readers, any limit of the ring and of the batches, and about  *)
(* the loops that keep the limit, for any ring they are called on.         *)
(***************************************************************************)
EXTENDS ReclaimLoop, TLAPS, FiniteSetTheorems, WellFoundedInduction

----------------------------------------------------------------------------
(* Extreme elements *)

(* A nonempty set of naturals has a least element.                         *)
LEMMA LeastElement ==
    ASSUME NEW S \in SUBSET Nat, S # {}
    PROVE  Least(S) \in S /\ \A y \in S : Least(S) <= y
<1>1. PICK b \in S : TRUE
  OBVIOUS
<1> DEFINE R == StrictSubsetOrdering(0 .. b)
           T == {0 .. x : x \in {y \in S : y <= b}}
<1>2. b \in Nat
  OBVIOUS
<1>3. IsWellFoundedOn(R, FiniteSubsetsOf(0 .. b))
  BY FS_StrictSubsetOrderingWellFounded
<1>4. T \subseteq FiniteSubsetsOf(0 .. b)
  <2> SUFFICES ASSUME NEW x \in S, x <= b
               PROVE  0 .. x \in FiniteSubsetsOf(0 .. b)
    OBVIOUS
  <2>1. 0 .. x \in SUBSET (0 .. b)
    BY <1>2
  <2>2. IsFiniteSet(0 .. x)
    BY FS_Interval
  <2> QED
    BY <2>1, <2>2 DEF FiniteSubsetsOf
<1>5. T # {}
  BY <1>2
<1> HIDE DEF T, R
<1>6. PICK m \in T : \A t \in T : ~ (<<t, m>> \in R)
  BY <1>3, <1>4, <1>5, WFMin
<1>7. PICK x \in S : x <= b /\ m = 0 .. x
  BY <1>6 DEF T
<1>8. \A y \in S : x <= y
  <2> SUFFICES ASSUME NEW y \in S, y < x PROVE FALSE
    OBVIOUS
  <2>1. y <= b /\ y \in Nat /\ x \in Nat
    BY <1>2, <1>7
  <2>2. 0 .. y \in T
    BY <2>1 DEF T
  <2>3. <<0 .. y, 0 .. x>> \in R
    <3>1. 0 .. y \in SUBSET (0 .. b) /\ 0 .. x \in SUBSET (0 .. b)
      BY <1>2, <1>7, <2>1
    <3>2. 0 .. y \subseteq 0 .. x /\ x \in 0 .. x /\ x \notin 0 .. y
      BY <2>1
    <3> QED
      BY <3>1, <3>2 DEF R, StrictSubsetOrdering
  <2> QED
    BY <1>6, <1>7, <2>2, <2>3
<1> QED
  BY <1>8 DEF Least

(* A nonempty set of naturals with a bound has a greatest element.         *)
LEMMA GreatestElement ==
    ASSUME NEW S \in SUBSET Nat, S # {}, NEW b \in Nat, \A x \in S : x <= b
    PROVE  Greatest(S) \in S /\ \A y \in S : y <= Greatest(S)
<1> DEFINE D == {b - x : x \in S}
<1>1. D \in SUBSET Nat /\ D # {}
  <2>1. ASSUME NEW x \in S PROVE b - x \in Nat
    <3>1. x \in Nat /\ x <= b
      OBVIOUS
    <3> QED
      BY <3>1
  <2>2. \A d \in D : d \in Nat
    BY <2>1, Zenon
  <2>3. PICK x \in S : TRUE
    OBVIOUS
  <2>4. b - x \in D
    BY <2>3, Zenon
  <2> QED
    BY <2>2, <2>4, Zenon
<1>2. Least(D) \in D /\ \A y \in D : Least(D) <= y
  BY <1>1, LeastElement
<1>3. PICK x \in S : Least(D) = b - x
  BY <1>2
<1>4. \A y \in S : y <= x
  <2> SUFFICES ASSUME NEW y \in S PROVE y <= x
    OBVIOUS
  <2>1. b - y \in D
    OBVIOUS
  <2>2. b - x <= b - y
    BY <1>2, <1>3, <2>1
  <2> QED
    BY <2>2
<1> QED
  BY <1>4 DEF Greatest

----------------------------------------------------------------------------
(* The ring *)

(* What _reclaim works on: frames numbered up to t, readers no further.    *)
RingFacts(F, low, t, seqs) ==
    /\ IsFiniteSet(F)
    /\ t \in Nat
    /\ low \in Nat
    /\ low <= t
    /\ seqs \in SUBSET (0 .. t)
    /\ \A f \in F : f.seq \in Nat /\ low < f.seq /\ f.seq <= t
    /\ \A f, g \in F : f.seq = g.seq => f = g

(* The level at which _reclaim stops is a reader's or the tail; it need    *)
(* not overflow a reader there, and what is unread by any slower reader    *)
(* does not fit.                                                           *)
LEMMA StopLevelFacts ==
    ASSUME NEW F, NEW low, NEW t, NEW seqs, RingFacts(F, low, t, seqs)
    PROVE  LET L == StopLevel(F, t, seqs)
           IN  /\ L \in seqs \cup {t}
               /\ L \in Nat
               /\ Fits(F, L) \/ ~Blocked(F, L)
               /\ \A l \in seqs : l < L => ~Fits(F, l)
<1> DEFINE S == {l \in seqs \cup {t} : Fits(F, l) \/ ~Blocked(F, l)}
<1>1. ~Blocked(F, t)
  BY DEF RingFacts, Blocked, Unread
<1>2. S \in SUBSET Nat /\ S # {}
  <2>1. t \in Nat /\ seqs \subseteq Nat
    BY DEF RingFacts
  <2>2. S \subseteq seqs \cup {t}
    OBVIOUS
  <2>3. t \in S
    BY <1>1
  <2> HIDE DEF S
  <2> QED
    BY <2>1, <2>2, <2>3
<1>3. Least(S) \in S /\ \A y \in S : Least(S) <= y
  BY <1>2, LeastElement
<1>4. StopLevel(F, t, seqs) = Least(S)
  BY DEF StopLevel
<1>5. ASSUME NEW l \in seqs, l < Least(S) PROVE ~Fits(F, l)
  <2>1. l \in Nat /\ Least(S) \in Nat
    BY <1>2, <1>3 DEF RingFacts
  <2>2. l \notin S
    BY <1>3, <1>5, <2>1
  <2> QED
    BY <2>2
<1> QED
  BY <1>2, <1>3, <1>4, <1>5

(* What is kept was there.                                                 *)
LEMMA ReclaimedSubset ==
    ASSUME NEW F, NEW t, NEW seqs
    PROVE  Reclaimed(F, t, seqs) \subseteq F
BY DEF Reclaimed, Newest, Compacted

(* The floor only rises, to the newest evicted frame.                      *)
LEMMA FloorFacts ==
    ASSUME NEW F, NEW low, NEW t, NEW seqs, RingFacts(F, low, t, seqs)
    PROVE  LET up == RaisedFloor(F, low, t, seqs)
           IN  /\ up \in Nat
               /\ low <= up /\ up <= t
               /\ \A f \in Evicted(F, t, seqs) : f.seq <= up
               /\ up = low \/ \E f \in Evicted(F, t, seqs) : f.seq = up
<1> DEFINE S == {low} \cup {f.seq : f \in Evicted(F, t, seqs)}
<1>1. Evicted(F, t, seqs) \subseteq F
  BY DEF Evicted
<1>2. S \in SUBSET Nat /\ S # {} /\ t \in Nat /\ \A x \in S : x <= t
  BY <1>1 DEF RingFacts
<1>3. Greatest(S) \in S /\ \A y \in S : y <= Greatest(S)
  BY <1>2, GreatestElement
<1>4. RaisedFloor(F, low, t, seqs) = Greatest(S)
  BY DEF RaisedFloor
<1> QED
  BY <1>2, <1>3, <1>4

(* Newest keeps no more than it is asked for.                              *)
LEMMA NewestBound ==
    ASSUME NEW S, IsFiniteSet(S), NEW n \in Nat,
           \A f \in S : f.seq \in Nat,
           \A f, g \in S : f.seq = g.seq => f = g
    PROVE  Cardinality(Newest(S, n)) <= n
<1> DEFINE N == Newest(S, n)
<1>1. IsFiniteSet(N) /\ N \subseteq S
  BY FS_Subset DEF Newest
<1>2. CASE N = {}
  BY <1>2, FS_EmptySet
<1>3. CASE N # {}
  <2> DEFINE Q == {f.seq : f \in N}
  <2>1. Q \in SUBSET Nat /\ Q # {}
    BY <1>1, <1>3
  <2>2. Least(Q) \in Q /\ \A y \in Q : Least(Q) <= y
    <3> HIDE DEF Q
    <3> QED
      BY <2>1, LeastElement
  <2>3. PICK f \in N : Least(Q) = f.seq
    BY <2>2
  <2>4. \A g \in N : f.seq <= g.seq
    <3> SUFFICES ASSUME NEW g \in N PROVE f.seq <= g.seq
      OBVIOUS
    <3>1. g.seq \in Q
      OBVIOUS
    <3> QED
      BY <2>2, <2>3, <3>1
  <2>5. N \ {f} \subseteq Unread(S, f.seq)
    <3> SUFFICES ASSUME NEW g \in N, g # f PROVE g \in Unread(S, f.seq)
      OBVIOUS
    <3>1. f.seq # g.seq /\ f.seq <= g.seq /\ f.seq \in Nat /\ g.seq \in Nat
      BY <1>1, <2>4
    <3> QED
      BY <1>1, <3>1 DEF Unread
  <2>6. IsFiniteSet(Unread(S, f.seq)) /\ Cardinality(Unread(S, f.seq)) \in Nat
    <3>1. Unread(S, f.seq) \in SUBSET S
      BY DEF Unread
    <3> QED
      BY <3>1, FS_Subset, FS_CardinalityType
  <2>7. Cardinality(N \ {f}) <= Cardinality(Unread(S, f.seq))
    BY <2>5, <2>6, FS_Subset
  <2>8. Cardinality(Unread(S, f.seq)) < n
    BY DEF Newest
  <2>9. Cardinality(N \ {f}) = Cardinality(N) - 1
    BY <1>1, FS_RemoveElement
  <2>10. Cardinality(N) \in Nat
    BY <1>1, FS_CardinalityType
  <2> QED
    BY <2>6, <2>7, <2>8, <2>9, <2>10
<1> QED
  BY <1>2, <1>3

(* The ring keeps its limit. *)
LEMMA ReclaimedFits ==
    ASSUME NEW F, NEW low, NEW t, NEW seqs, RingFacts(F, low, t, seqs)
    PROVE  Cardinality(Reclaimed(F, t, seqs)) <= Limit
<1> DEFINE S == {f \in Compacted(F, StopLevel(F, t, seqs)) :
                   \A l \in Passed(F, t, seqs) : f.seq > l}
<1>1. CASE Cardinality(F) <= Limit
  BY <1>1 DEF Reclaimed
<1>2. CASE ~(Cardinality(F) <= Limit)
  <2>1. S \in SUBSET F
    BY DEF Compacted
  <2>2. IsFiniteSet(S)
    BY <2>1, FS_Subset DEF RingFacts
  <2>3. /\ \A f \in S : f.seq \in Nat
        /\ \A f, g \in S : f.seq = g.seq => f = g
    BY <2>1 DEF RingFacts
  <2>4. Limit \in Nat
    BY LimitAssumption
  <2>5. Reclaimed(F, t, seqs) = Newest(S, Limit)
    BY <1>2 DEF Reclaimed
  <2> HIDE DEF S
  <2> QED
    BY <2>2, <2>3, <2>4, <2>5, NewestBound
<1> QED
  BY <1>1, <1>2

(* How a frame leaves the ring: with what a passed reader had acquired,    *)
(* with the oldest of the rest, or compacted away.                         *)
LEMMA RemovedHow ==
    ASSUME NEW F, NEW low, NEW t, NEW seqs, RingFacts(F, low, t, seqs),
           NEW f \in F \ Reclaimed(F, t, seqs)
    PROVE  /\ Cardinality(F) > Limit
           /\ \/ Disposable(F, f, StopLevel(F, t, seqs))
              \/ \E l \in Passed(F, t, seqs) : f.seq <= l
              \/ f \in Evicted(F, t, seqs)
<1>1. Cardinality(F) > Limit
  <2>1. Cardinality(F) \in Nat
    BY FS_CardinalityType DEF RingFacts
  <2>2. ~(Cardinality(F) <= Limit)
    BY DEF Reclaimed
  <2> QED
    BY <2>1, <2>2, LimitAssumption
<1> QED
  BY <1>1 DEF Evicted

(* A reader that is not overflowed has acquired whatever leaves the ring.  *)
LEMMA RemovedIsRead ==
    ASSUME NEW F, NEW low, NEW t, NEW seqs, RingFacts(F, low, t, seqs),
           NEW f \in F \ Reclaimed(F, t, seqs),
           NEW l \in seqs, ~Overflows(F, low, t, seqs, l)
    PROVE  f.seq <= l
<1> DEFINE L == StopLevel(F, t, seqs)
           up == RaisedFloor(F, low, t, seqs)
<1>1. /\ Cardinality(F) > Limit
      /\ \/ Disposable(F, f, L)
         \/ \E k \in Passed(F, t, seqs) : f.seq <= k
         \/ f \in Evicted(F, t, seqs)
  BY RemovedHow
<1>2. L \in Nat
  BY StopLevelFacts
<1>3. up \in Nat /\ \A g \in Evicted(F, t, seqs) : g.seq <= up
  BY FloorFacts
<1>4. l \in Nat /\ f.seq \in Nat /\ seqs \subseteq Nat
  BY DEF RingFacts
<1>5. ~(l < L) /\ ~(l < up)
  BY <1>1 DEF Overflows
<1>6. CASE Disposable(F, f, L)
  <2>1. f.seq <= L
    BY <1>6 DEF Disposable, Finished
  <2> QED
    BY <1>2, <1>4, <1>5, <2>1
<1>7. CASE \E k \in Passed(F, t, seqs) : f.seq <= k
  <2>1. PICK k \in seqs : f.seq <= k /\ k < L
    BY <1>7 DEF Passed
  <2> QED
    BY <1>2, <1>4, <1>5, <2>1
<1>8. CASE f \in Evicted(F, t, seqs)
  BY <1>3, <1>4, <1>5, <1>8
<1> QED
  BY <1>1, <1>6, <1>7, <1>8


(* What survives compaction and the passed readers, and is still evicted,  *)
(* has Limit newer frames that survive too.                                *)
LEMMA EvictedHow ==
    ASSUME NEW F, NEW low, NEW t, NEW seqs, RingFacts(F, low, t, seqs),
           Cardinality(F) > Limit,
           NEW f \in Evicted(F, t, seqs)
    PROVE  LET L == StopLevel(F, t, seqs)
               S == {g \in Compacted(F, L) : \A l \in Passed(F, t, seqs) : g.seq > l}
           IN  \/ \E l \in Passed(F, t, seqs) : f.seq <= l
               \/ f \in S /\ ~(Cardinality(Unread(S, f.seq)) < Limit)
<1> DEFINE L == StopLevel(F, t, seqs)
           S == {g \in Compacted(F, L) : \A l \in Passed(F, t, seqs) : g.seq > l}
<1>1. SUFFICES ASSUME ~\E l \in Passed(F, t, seqs) : f.seq <= l
               PROVE  f \in S /\ ~(Cardinality(Unread(S, f.seq)) < Limit)
  OBVIOUS
<1>2. f \in F \ Reclaimed(F, t, seqs) /\ ~Disposable(F, f, L)
  BY <1>1 DEF Evicted
<1>3. f \in S
  <2>1. Passed(F, t, seqs) \subseteq Nat /\ f.seq \in Nat
    <3>1. Passed(F, t, seqs) \subseteq seqs
      BY DEF Passed
    <3>2. seqs \subseteq Nat
      BY DEF RingFacts
    <3>3. f \in F
      BY <1>2
    <3>4. f.seq \in Nat
      BY <3>3 DEF RingFacts
    <3> QED
      BY <3>1, <3>2, <3>4
  <2>2. f \in Compacted(F, L)
    BY <1>2 DEF Compacted
  <2>3. \A l \in Passed(F, t, seqs) : f.seq > l
    BY <1>1, <2>1
  <2> QED
    BY <2>2, <2>3
<1>4. Reclaimed(F, t, seqs) = Newest(S, Limit)
  <2>1. Cardinality(F) \in Nat /\ Limit \in Nat
    BY FS_CardinalityType, LimitAssumption DEF RingFacts
  <2>2. ~(Cardinality(F) <= Limit)
    BY <2>1
  <2> QED
    BY <2>2 DEF Reclaimed
<1> HIDE DEF S
<1>5. f \notin Newest(S, Limit)
  BY <1>2, <1>4
<1> QED
  BY <1>3, <1>5 DEF Newest, S

(* Whatever stays is newer than whatever moved the floor.                  *)
LEMMA RetainedAboveFloor ==
    ASSUME NEW F, NEW low, NEW t, NEW seqs, RingFacts(F, low, t, seqs),
           NEW f \in Reclaimed(F, t, seqs)
    PROVE  RaisedFloor(F, low, t, seqs) < f.seq
<1> DEFINE L == StopLevel(F, t, seqs)
           S == {g \in Compacted(F, L) : \A l \in Passed(F, t, seqs) : g.seq > l}
           up == RaisedFloor(F, low, t, seqs)
<1>1. f \in F /\ f.seq \in Nat /\ low < f.seq /\ low \in Nat
  BY ReclaimedSubset DEF RingFacts
<1>2. up = low \/ \E g \in Evicted(F, t, seqs) : g.seq = up
  BY FloorFacts
<1>3. ASSUME NEW g \in Evicted(F, t, seqs) PROVE g.seq < f.seq
  <2>1. g \in F \ Reclaimed(F, t, seqs) /\ g.seq \in Nat
    BY DEF Evicted, RingFacts
  <2>2. Cardinality(F) > Limit
    BY <2>1, RemovedHow
  <2>3. ~(Cardinality(F) <= Limit)
    BY <2>2, FS_CardinalityType, LimitAssumption DEF RingFacts
  <2>4. f \in Newest(S, Limit)
    BY <2>3 DEF Reclaimed
  <2>5. f \in S /\ Cardinality(Unread(S, f.seq)) < Limit
    BY <2>4 DEF Newest
  <2>6. CASE \E l \in Passed(F, t, seqs) : g.seq <= l
    <3>1. PICK l \in Passed(F, t, seqs) : g.seq <= l
      BY <2>6
    <3>2. f.seq > l /\ l \in Nat
      BY <2>5 DEF RingFacts, Passed
    <3> QED
      BY <1>1, <2>1, <3>1, <3>2
  <2>7. CASE g \in S /\ ~(Cardinality(Unread(S, g.seq)) < Limit)
    <3>1. SUFFICES ASSUME f.seq <= g.seq PROVE FALSE
      BY <1>1, <2>1
    <3>2. S \in SUBSET F
      BY DEF Compacted
    <3> HIDE DEF S
    <3>3. IsFiniteSet(S) /\ \A h \in S : h.seq \in Nat
      BY <3>2, FS_Subset DEF RingFacts
    <3>4. Unread(S, g.seq) \in SUBSET Unread(S, f.seq) /\ Unread(S, f.seq) \in SUBSET S
      BY <1>1, <2>1, <3>1, <3>3 DEF Unread
    <3>5. IsFiniteSet(Unread(S, f.seq))
      BY <3>3, <3>4, FS_Subset
    <3>6. /\ Cardinality(Unread(S, g.seq)) <= Cardinality(Unread(S, f.seq))
          /\ IsFiniteSet(Unread(S, g.seq))
      BY <3>4, <3>5, FS_Subset
    <3>7. Cardinality(Unread(S, g.seq)) \in Nat /\ Cardinality(Unread(S, f.seq)) \in Nat
      BY <3>5, <3>6, FS_CardinalityType
    <3> QED
      BY <2>5, <2>7, <3>6, <3>7, LimitAssumption
  <2> QED
    BY <2>2, <2>6, <2>7, EvictedHow
<1> QED
  BY <1>1, <1>2, <1>3

(* The end of each step follows its progress.                              *)
EndsFollow(F) ==
    \A p, e \in F : p.kind = "part" /\ e.kind = "end" /\ p.of = e.of => p.seq < e.seq

(* What leaves the ring above the floor is the progress of a step whose    *)
(* end stays.                                                              *)
LEMMA RemovedAboveFloor ==
    ASSUME NEW F, NEW low, NEW t, NEW seqs, RingFacts(F, low, t, seqs), EndsFollow(F),
           NEW f \in F \ Reclaimed(F, t, seqs), f.seq > RaisedFloor(F, low, t, seqs)
    PROVE  /\ f.kind = "part"
           /\ \E e \in Reclaimed(F, t, seqs) : e.kind = "end" /\ e.of = f.of
<1> DEFINE L == StopLevel(F, t, seqs)
           up == RaisedFloor(F, low, t, seqs)
<1>1. up \in Nat /\ \A g \in Evicted(F, t, seqs) : g.seq <= up
  BY FloorFacts
<1>2. \A g \in F : g.seq \in Nat
  BY DEF RingFacts
<1>3. f \notin Evicted(F, t, seqs)
  BY <1>1, <1>2
<1>4. Disposable(F, f, L)
  BY <1>3 DEF Evicted
<1>5. PICK e \in F : e.kind = "end" /\ e.of = f.of
  BY <1>4 DEF Disposable, Finished
<1>6. f.kind = "part" /\ f.seq < e.seq
  BY <1>4, <1>5 DEF Disposable, Finished, EndsFollow
<1>7. e \in Reclaimed(F, t, seqs)
  <2>1. SUFFICES ASSUME e \notin Reclaimed(F, t, seqs) PROVE FALSE
    OBVIOUS
  <2>2. ~Disposable(F, e, L)
    BY <1>5 DEF Disposable, Finished
  <2>3. e \in Evicted(F, t, seqs)
    BY <2>1, <2>2 DEF Evicted
  <2> QED
    BY <1>1, <1>2, <1>6, <2>3
<1> QED
  BY <1>5, <1>6, <1>7


(* A reader is overflowed only if more than the limit is retained for it.  *)
LEMMA OverflowedIsSlow ==
    ASSUME NEW F, NEW low, NEW t, NEW seqs, RingFacts(F, low, t, seqs),
           NEW l \in seqs, low <= l, Overflows(F, low, t, seqs, l)
    PROVE  Cardinality(Unread(F, l)) > Limit
<1> DEFINE L == StopLevel(F, t, seqs)
           S == {g \in Compacted(F, L) : \A k \in Passed(F, t, seqs) : g.seq > k}
           up == RaisedFloor(F, low, t, seqs)
<1>1. l \in Nat /\ low \in Nat /\ Limit \in Nat /\ seqs \subseteq Nat
  BY LimitAssumption DEF RingFacts
<1>2. /\ IsFiniteSet(Unread(F, l))
      /\ Cardinality(Unread(F, l)) \in Nat
      /\ \A T \in SUBSET Unread(F, l) :
            IsFiniteSet(T) /\ Cardinality(T) \in Nat /\ Cardinality(T) <= Cardinality(Unread(F, l))
  <2>1. Unread(F, l) \in SUBSET F
    BY DEF Unread
  <2>2. IsFiniteSet(Unread(F, l))
    BY <2>1, FS_Subset DEF RingFacts
  <2> QED
    BY <2>2, FS_Subset, FS_CardinalityType
<1>3. Cardinality(F) > Limit /\ (l < L \/ l < up)
  BY DEF Overflows
<1>4. L \in Nat /\ \A k \in seqs : k < L => ~Fits(F, k)
  BY StopLevelFacts
<1>5. CASE l < L
  <2>1. ~(Cardinality(Unread(Compacted(F, l), l)) <= Limit)
    BY <1>4, <1>5 DEF Fits
  <2>2. Unread(Compacted(F, l), l) \in SUBSET Unread(F, l)
    BY DEF Unread, Compacted
  <2> QED
    BY <1>1, <1>2, <2>1, <2>2
<1>6. CASE ~(l < L)
  <2>1. up \in Nat /\ (up = low \/ \E g \in Evicted(F, t, seqs) : g.seq = up)
    BY FloorFacts
  <2>2. PICK f \in Evicted(F, t, seqs) : f.seq = up
    BY <1>1, <1>3, <1>6, <2>1
  <2>3. f \in F
    BY DEF Evicted
  <2>4. ~\E k \in Passed(F, t, seqs) : f.seq <= k
    <3> SUFFICES ASSUME NEW k \in seqs, k < L, f.seq <= k PROVE FALSE
      BY DEF Passed
    <3> QED
      BY <1>1, <1>3, <1>4, <1>6, <2>1, <2>2
  <2>5. f \in S /\ ~(Cardinality(Unread(S, f.seq)) < Limit)
    BY <1>3, <2>4, EvictedHow
  <2>6. Unread(S, f.seq) \cup {f} \in SUBSET Unread(F, l)
    <3>1. S \subseteq F
      BY DEF Compacted
    <3> HIDE DEF S
    <3> QED
      BY <1>1, <1>3, <1>6, <2>1, <2>2, <2>3, <3>1 DEF Unread, RingFacts
  <2> HIDE DEF S
  <2>7. Unread(S, f.seq) \in SUBSET Unread(F, l)
    BY <2>6
  <2>8. IsFiniteSet(Unread(S, f.seq)) /\ Cardinality(Unread(S, f.seq)) \in Nat
    BY <1>2, <2>7
  <2>9. f \notin Unread(S, f.seq)
    BY <2>1, <2>2 DEF Unread
  <2>10. Cardinality(Unread(S, f.seq) \cup {f}) = Cardinality(Unread(S, f.seq)) + 1
    BY <2>8, <2>9, FS_AddElement
  <2>11. Cardinality(Unread(S, f.seq)) + 1 <= Cardinality(Unread(F, l))
    BY <1>2, <2>6, <2>10
  <2> QED
    BY <1>1, <1>2, <2>5, <2>8, <2>11
<1> QED
  BY <1>5, <1>6

----------------------------------------------------------------------------
(* The invariant *)

(* What a reader that ends without an error has to have acquired.          *)
Complete(r) ==
    IF until[r] = None THEN closed /\ seq[r] = tail ELSE seq[r] >= until[r]

RingInv ==
    /\ IsFiniteSet(ring)
    /\ EndsFollow(ring)
    /\ \A e \in ring : e.kind = "end" => e.of \in ended

PositionInv ==
    \A r \in Readers :
       /\ seq[r] <= tail
       /\ until[r] # None => until[r] <= tail

(* A reader is shut because it is complete, or its consumer was cancelled. *)
ShutInv ==
    \A r \in Readers :
       /\ pc[r] = "idle" => r \notin shut
       /\ r \in shut => pc[r] = "cut" \/ Complete(r)

StreamInv ==
    /\ TypeOK
    /\ Retention
    /\ RingInv
    /\ PositionInv
    /\ ShutInv
    /\ DoneIsComplete

(* One publication, of any kind.                                           *)
Published(kind, s) ==
    /\ kind \in {"part", "end", "other"}
    /\ s \in Steps
    /\ kind \in {"part", "end"} => s \notin ended
    /\ Append(Frame(tail + 1, kind, s))
    /\ ended' = IF kind = "end" THEN ended \cup {s} ELSE ended

(* Only a publication changes what is retained, or drops a reader.         *)
LEMMA StepCases ==
    ASSUME [Next]_vars
    PROVE  \/ \E kind \in {"part", "end", "other"}, s \in Steps : Published(kind, s)
           \/ UNCHANGED <<ring, tail, floor, ended, overflowed>>
<1>1. ASSUME NEW s \in Steps, PublishPart(s)
      PROVE  Published("part", s)
  BY <1>1 DEF PublishPart, Published
<1>2. ASSUME NEW s \in Steps, PublishEnd(s)
      PROVE  Published("end", s)
  BY <1>2 DEF PublishEnd, Published
<1>3. ASSUME NEW s \in Steps, PublishOther(s)
      PROVE  Published("other", s)
  BY <1>3 DEF PublishOther, Published
<1>4. CASE CloseStream
  BY <1>4 DEF CloseStream
<1>5. ASSUME NEW r \in Readers, NEW after \in 0 .. tail, Subscribe(r, after)
      PROVE  UNCHANGED <<ring, tail, floor, ended, overflowed>>
  BY <1>5 DEF Subscribe, stream
<1>6. ASSUME NEW r \in Readers,
             Receive(r) \/ Wake(r) \/ Resume(r) \/ Handled(r) \/ Finish(r) \/ Cancel(r)
      PROVE  UNCHANGED <<ring, tail, floor, ended, overflowed>>
  BY <1>6 DEF Receive, ReceiveOverflow, ReceiveEnd, ReceiveBatch, ReceiveNothing,
              Wake, Resume, Handled, Finish, Cancel, stream, membership
<1>7. CASE UNCHANGED vars
  BY <1>7 DEF vars, stream, membership
<1> QED
  BY <1>1, <1>2, <1>3, <1>4, <1>5, <1>6, <1>7 DEF Next

(* _reclaim finds a ring it can work on.                                   *)
LEMMA AppendedRing ==
    ASSUME StreamInv, NEW kind \in {"part", "end", "other"}, NEW s \in Steps,
           Append(Frame(tail + 1, kind, s))
    PROVE  LET frame == Frame(tail + 1, kind, s)
           IN  /\ RingFacts(ring \cup {frame}, floor, tail + 1, Positions)
               /\ frame.seq = tail + 1 /\ frame.kind = kind /\ frame.of = s
               /\ tail \in Nat /\ tail + 1 \in 1 .. MaxTail
<1> DEFINE frame == Frame(tail + 1, kind, s)
           F == ring \cup {frame}
<1>1. frame.seq = tail + 1 /\ frame.kind = kind /\ frame.of = s
  BY DEF Frame
<1>2. tail \in Nat /\ tail < MaxTail /\ MaxTail \in Nat /\ floor \in 0 .. tail
  <2>1. tail \in 0 .. MaxTail /\ floor \in 0 .. tail
    BY DEF StreamInv, TypeOK
  <2>2. tail < MaxTail
    BY DEF Append
  <2> QED
    BY <2>1, <2>2, TailAssumption
<1>3. \A f \in ring : f.seq \in Nat /\ floor < f.seq /\ f.seq <= tail
  BY DEF StreamInv, TypeOK, Frames
<1>4. \A f \in F : f.seq \in Nat /\ floor < f.seq /\ f.seq <= tail + 1
  BY <1>1, <1>2, <1>3
<1>5. \A f, g \in F : f.seq = g.seq => f = g
  <2>1. \A f, g \in ring : f.seq = g.seq => f = g
    BY DEF StreamInv, TypeOK
  <2>2. \A f \in ring : f.seq # frame.seq
    BY <1>1, <1>2, <1>3
  <2> HIDE DEF frame
  <2> QED
    BY <2>1, <2>2
<1>6. IsFiniteSet(F)
  BY FS_AddElement DEF StreamInv, RingInv
<1>7. Positions \in SUBSET (0 .. tail + 1)
  <2>1. \A r \in registered : seq[r] \in Nat /\ seq[r] <= tail
    BY DEF StreamInv, TypeOK, PositionInv
  <2> QED
    BY <1>2, <2>1 DEF Positions
<1>8. RingFacts(F, floor, tail + 1, Positions)
  <2> HIDE DEF F
  <2> QED
    BY <1>2, <1>4, <1>5, <1>6, <1>7 DEF RingFacts
<1> QED
  BY <1>1, <1>2, <1>8

(* Its frames are in order.                                                *)
LEMMA GrownRing ==
    ASSUME StreamInv, NEW kind \in {"part", "end", "other"}, NEW s \in Steps,
           Published(kind, s)
    PROVE  LET frame == Frame(tail + 1, kind, s)
           IN  /\ RingFacts(ring \cup {frame}, floor, tail + 1, Positions)
               /\ EndsFollow(ring \cup {frame})
               /\ frame.seq = tail + 1 /\ frame.kind = kind /\ frame.of = s
               /\ tail \in Nat /\ tail + 1 \in 1 .. MaxTail
<1> DEFINE frame == Frame(tail + 1, kind, s)
           F == ring \cup {frame}
<1>1. /\ RingFacts(F, floor, tail + 1, Positions)
      /\ frame.seq = tail + 1 /\ frame.kind = kind /\ frame.of = s
      /\ tail \in Nat /\ tail + 1 \in 1 .. MaxTail
  BY AppendedRing DEF Published
<1>2. \A f \in ring : f.seq \in Nat /\ f.seq <= tail
  BY DEF StreamInv, TypeOK, Frames
<1>3. EndsFollow(F)
  <2> SUFFICES ASSUME NEW p \in F, NEW e \in F,
                      p.kind = "part", e.kind = "end", p.of = e.of
               PROVE  p.seq < e.seq
    BY DEF EndsFollow
  <2>1. CASE p \in ring /\ e \in ring
    BY <2>1 DEF StreamInv, RingInv, EndsFollow
  <2>2. CASE p \in ring /\ e = frame
    BY <1>1, <1>2, <2>2
  <2>3. CASE p = frame
    <3>1. kind = "part" /\ s \notin ended
      BY <1>1, <2>3 DEF Published
    <3>2. e \in ring
      BY <1>1, <3>1
    <3> QED
      BY <1>1, <2>3, <3>1, <3>2 DEF StreamInv, RingInv
  <2> QED
    BY <2>1, <2>2, <2>3
<1> QED
  BY <1>1, <1>3

(* What a publication leaves.                                              *)
LEMMA PublishedInv ==
    ASSUME StreamInv, NEW kind \in {"part", "end", "other"}, NEW s \in Steps,
           Published(kind, s)
    PROVE  StreamInv'
<1> DEFINE frame == Frame(tail + 1, kind, s)
           F == ring \cup {frame}
           slow == {r \in registered : Overflows(F, floor, tail + 1, Positions, seq[r])}
<1>1. /\ RingFacts(F, floor, tail + 1, Positions)
      /\ EndsFollow(F)
      /\ frame.seq = tail + 1 /\ frame.kind = kind /\ frame.of = s
      /\ tail \in Nat /\ tail + 1 \in 1 .. MaxTail
  BY GrownRing
<1>2. /\ ~closed
      /\ tail' = tail + 1
      /\ ring' = Reclaimed(F, tail + 1, Positions)
      /\ floor' = RaisedFloor(F, floor, tail + 1, Positions)
      /\ overflowed' = overflowed \cup slow
      /\ registered' = registered \ slow
      /\ connected' = connected \ slow
      /\ scheduled' = scheduled \cup ((slow \cup connected) \ shut)
      /\ UNCHANGED <<closed, shut, seq, until, ready, pc>>
  BY <1>1 DEF Published, Append, Notified, position
<1>3. F \subseteq Frames
  <2>1. ring \subseteq Frames
    BY DEF StreamInv, TypeOK
  <2>2. frame \in Frames
    BY <1>1 DEF Frame, Frames
  <2> QED
    BY <2>1, <2>2
<1> HIDE DEF frame
<1>a. F = ring \cup {frame}
  OBVIOUS
<1> HIDE DEF F, slow
<1>4. ring' \subseteq F
  BY <1>2, ReclaimedSubset
<1>5. TypeOK'
  <2>1. ring' \subseteq Frames /\ tail' \in 0 .. MaxTail
    BY <1>1, <1>2, <1>3, <1>4
  <2>2. floor' \in 0 .. tail'
    BY <1>1, <1>2, FloorFacts
  <2>3. \A f \in ring' : floor' < f.seq /\ f.seq <= tail'
    BY <1>1, <1>2, <1>4, RetainedAboveFloor DEF RingFacts
  <2>4. \A f, g \in ring' : f.seq = g.seq => f = g
    BY <1>1, <1>4 DEF RingFacts
  <2>5. ended' \subseteq Steps
    BY DEF Published, StreamInv, TypeOK
  <2>6. /\ registered' \subseteq Readers /\ connected' \subseteq registered'
        /\ overflowed' \subseteq Readers /\ scheduled' \subseteq Readers
    BY <1>2 DEF StreamInv, TypeOK, slow
  <2>7. /\ closed' \in BOOLEAN /\ shut' \subseteq Readers /\ ready' \subseteq Readers
        /\ seq' \in [Readers -> 0 .. MaxTail]
        /\ until' \in [Readers -> 0 .. MaxTail \cup {None}]
        /\ pc' \in [Readers -> Phases]
    BY <1>2 DEF StreamInv, TypeOK
  <2> QED
    BY <2>1, <2>2, <2>3, <2>4, <2>5, <2>6, <2>7 DEF TypeOK
<1>6. Retention'
  <2>1. Cardinality(ring') <= Limit
    BY <1>1, <1>2, ReclaimedFits
  <2>2. ASSUME NEW r \in registered' PROVE floor' <= seq'[r]
    <3>1. r \in registered /\ ~Overflows(F, floor, tail + 1, Positions, seq[r])
      BY <1>2 DEF slow
    <3>2. seq[r] \in Nat /\ floor <= seq[r] /\ floor' \in Nat
      BY <1>1, <1>2, <3>1, FloorFacts DEF StreamInv, TypeOK, Retention
    <3>3. CASE Cardinality(F) > Limit
      BY <1>2, <3>1, <3>2, <3>3 DEF Overflows
    <3>4. CASE ~(Cardinality(F) > Limit)
      <4>1. Cardinality(F) <= Limit
        BY <1>1, <3>4, FS_CardinalityType, LimitAssumption DEF RingFacts
      <4>2. Evicted(F, tail + 1, Positions) = {}
        BY <4>1 DEF Reclaimed, Evicted
      <4>3. floor' = floor
        BY <1>1, <1>2, <4>2, FloorFacts
      <4> QED
        BY <1>2, <3>2, <4>3
    <3> QED
      BY <3>3, <3>4
  <2> QED
    BY <2>1, <2>2 DEF Retention
<1>7. RingInv'
  <2>1. IsFiniteSet(ring')
    BY <1>1, <1>4, FS_Subset DEF RingFacts
  <2>2. \A p, e \in ring' : p.kind = "part" /\ e.kind = "end" /\ p.of = e.of => p.seq < e.seq
    BY <1>1, <1>4 DEF EndsFollow
  <2>3. ASSUME NEW e \in ring', e.kind = "end" PROVE e.of \in ended'
    BY <1>1, <1>4, <1>a, <2>3 DEF Published, StreamInv, RingInv
  <2> QED
    BY <2>1, <2>2, <2>3 DEF RingInv, EndsFollow
<1>8. PositionInv'
  <2>1. \A r \in Readers : seq[r] \in Nat /\ (until[r] # None => until[r] \in Nat)
    BY DEF StreamInv, TypeOK
  <2> QED
    BY <1>1, <1>2, <2>1 DEF StreamInv, PositionInv
<1>9. ShutInv' /\ DoneIsComplete'
  BY <1>2 DEF StreamInv, ShutInv, DoneIsComplete, Complete
<1> QED
  BY <1>5, <1>6, <1>7, <1>8, <1>9 DEF StreamInv

(* Where a batch takes its reader: forward, and not past the tail.         *)
LEMMA AdvancedFacts ==
    ASSUME StreamInv, NEW r \in Readers, ~Reached(r), seq[r] < tail
    PROVE  Advanced(r) \in Nat /\ seq[r] <= Advanced(r) /\ Advanced(r) <= tail
<1>1. /\ seq[r] \in Nat /\ tail \in Nat
      /\ until[r] # None => until[r] \in Nat /\ ~(seq[r] >= until[r])
  BY DEF StreamInv, TypeOK, Reached
<1>2. CASE Scanned(r) # {}
  <2> DEFINE S == {f.seq : f \in Scanned(r)}
  <2>1. Scanned(r) \subseteq Unread(ring, seq[r])
    BY DEF Scanned
  <2>2. \A f \in Scanned(r) : f.seq \in Nat /\ f.seq > seq[r] /\ f.seq <= tail
    BY <2>1 DEF Unread, StreamInv, TypeOK, Frames
  <2>3. S \in SUBSET Nat /\ S # {} /\ \A x \in S : x <= tail /\ x > seq[r]
    BY <1>2, <2>2
  <2>4. Advanced(r) = Greatest(S)
    BY <1>2 DEF Advanced
  <2> HIDE DEF S
  <2>5. Greatest(S) \in S
    BY <1>1, <2>3, GreatestElement
  <2>6. Advanced(r) \in S
    BY <2>4, <2>5
  <2>7. Advanced(r) \in Nat /\ Advanced(r) <= tail /\ Advanced(r) > seq[r]
    BY <2>3, <2>6
  <2> QED
    BY <1>1, <2>7
<1>3. CASE Scanned(r) = {} /\ until[r] = None
  BY <1>1, <1>3 DEF Advanced
<1>4. CASE Scanned(r) = {} /\ until[r] # None
  <2>1. Advanced(r) = Least({tail, until[r]})
    BY <1>4 DEF Advanced
  <2>2. {tail, until[r]} \in SUBSET Nat
    BY <1>1, <1>4
  <2>3. Least({tail, until[r]}) \in {tail, until[r]} /\ Least({tail, until[r]}) <= tail
    BY <2>2, LeastElement
  <2> QED
    BY <1>1, <1>4, <2>1, <2>3
<1> QED
  BY <1>2, <1>3, <1>4

(* A step of one reader leaves the others where they are.                  *)
LEMMA ReaderInv ==
    ASSUME StreamInv, NEW r \in Readers,
           Receive(r) \/ Wake(r) \/ Resume(r) \/ Handled(r) \/ Finish(r) \/ Cancel(r)
    PROVE  StreamInv'
<1> USE DEF StreamInv
<1>1. /\ tail \in Nat /\ tail <= MaxTail
      /\ \A q \in Readers : /\ seq[q] \in 0 .. MaxTail
                            /\ until[q] \in 0 .. MaxTail \cup {None}
  <2>1. tail \in 0 .. MaxTail
    BY DEF TypeOK
  <2> QED
    BY <2>1, TailAssumption DEF TypeOK
<1>2. /\ UNCHANGED stream
      /\ registered' \subseteq registered
      /\ overflowed' = overflowed
  BY DEF Receive, ReceiveOverflow, ReceiveEnd, ReceiveBatch, ReceiveNothing,
         Wake, Resume, Handled, Finish, Cancel, Shut, stream, membership
<1>3. RingInv'
  BY <1>2 DEF RingInv, EndsFollow, stream
<1>4. CASE ReceiveOverflow(r) \/ Wake(r) \/ Resume(r) \/ Handled(r) \/ ReceiveNothing(r)
  <2>1. /\ UNCHANGED <<registered, connected, shut, seq, until>>
        /\ scheduled' \subseteq Readers /\ ready' \subseteq Readers
        /\ pc' \in [Readers -> Phases]
        /\ \A q \in Readers : /\ pc'[q] = "idle" <=> pc[q] = "idle"
                              /\ pc'[q] = "done" <=> pc[q] = "done"
                              /\ pc'[q] = "cut" <=> pc[q] = "cut"
    BY <1>4 DEF ReceiveOverflow, ReceiveNothing, Wake, Resume, Handled,
                stream, membership, position, wakeup, TypeOK, Phases
  <2>2. TypeOK'
    BY <1>2, <2>1 DEF TypeOK, stream
  <2>3. Retention' /\ PositionInv' /\ ShutInv' /\ DoneIsComplete'
    BY <1>2, <2>1 DEF stream, Retention, PositionInv, ShutInv, DoneIsComplete, Complete
  <2> QED
    BY <1>3, <2>2, <2>3
<1>5. CASE ReceiveEnd(r)
  <2>1. /\ UNCHANGED <<seq, until, ready>>
        /\ shut' = shut \cup {r}
        /\ pc' = [pc EXCEPT ![r] = "done"]
        /\ pc[r] = "calling"
        /\ registered' = registered \ {r} /\ connected' = connected \ {r}
        /\ scheduled' = scheduled \cup ({r} \ shut)
    BY <1>5 DEF ReceiveEnd, Shut, Notified, position
  <2>2. Complete(r)
    <3>1. CASE r \in shut
      BY <2>1, <3>1 DEF ShutInv
    <3>2. CASE Reached(r)
      BY <3>2 DEF Reached, Complete
    <3>3. CASE closed /\ seq[r] = tail
      BY <1>1, <3>3 DEF PositionInv, Complete
    <3> QED
      BY <1>5, <3>1, <3>2, <3>3 DEF ReceiveEnd
  <2>3. TypeOK'
    BY <1>2, <2>1 DEF TypeOK, stream, Phases
  <2>4. Retention' /\ PositionInv'
    BY <1>2, <2>1 DEF stream, Retention, PositionInv
  <2>5. ShutInv' /\ DoneIsComplete'
    BY <1>2, <2>1, <2>2 DEF stream, TypeOK, ShutInv, DoneIsComplete, Complete
  <2> QED
    BY <1>3, <2>3, <2>4, <2>5
<1>6. CASE ReceiveBatch(r)
  <2>1. Advanced(r) \in Nat /\ seq[r] <= Advanced(r) /\ Advanced(r) <= tail
    BY <1>6, AdvancedFacts DEF ReceiveBatch
  <2>2. /\ UNCHANGED <<until, ready>>
        /\ seq' = [seq EXCEPT ![r] = Advanced(r)]
        /\ pc' = [pc EXCEPT ![r] = "handling"]
        /\ pc[r] = "calling" /\ r \notin shut
    BY <1>6 DEF ReceiveBatch
  <2>3. \/ UNCHANGED <<scheduled, shut, connected, registered>>
        \/ /\ until[r] # None /\ Advanced(r) >= until[r]
           /\ shut' = shut \cup {r}
           /\ registered' = registered \ {r} /\ connected' = connected \ {r}
           /\ scheduled' = scheduled \cup ({r} \ shut)
    BY <1>6 DEF ReceiveBatch, Shut, Notified
  <2>4. TypeOK'
    <3>1. seq' \in [Readers -> 0 .. MaxTail]
      BY <1>1, <2>1, <2>2, TailAssumption DEF TypeOK
    <3> QED
      BY <1>2, <2>2, <2>3, <3>1 DEF TypeOK, stream, Phases
  <2>5. Retention'
    <3>1. \A q \in registered : floor <= seq[q]
      BY DEF Retention
    <3>2. \A q \in registered' : floor <= seq'[q]
      BY <1>1, <1>2, <2>1, <2>2, <3>1 DEF TypeOK
    <3> QED
      BY <1>2, <3>2 DEF stream, Retention
  <2>6. PositionInv'
    BY <1>2, <2>1, <2>2 DEF stream, TypeOK, PositionInv
  <2>7. ShutInv' /\ DoneIsComplete'
    BY <1>2, <2>2, <2>3 DEF stream, TypeOK, ShutInv, DoneIsComplete, Complete
  <2> QED
    BY <1>3, <2>4, <2>5, <2>6, <2>7
<1>7. CASE Finish(r)
  <2>1. /\ UNCHANGED <<seq, ready, pc>>
        /\ until' = [until EXCEPT ![r] = tail]
        /\ pc[r] \in {"calling", "waiting", "handling"}
        /\ r \notin shut
    BY <1>7 DEF Finish
  <2>2. \/ /\ seq[r] >= tail
           /\ shut' = shut \cup {r}
           /\ registered' = registered \ {r} /\ connected' = connected \ {r}
           /\ scheduled' = scheduled \cup ({r} \ shut)
        \/ /\ UNCHANGED <<shut, connected, registered>>
           /\ scheduled' = scheduled \cup ({r} \ shut)
    BY <1>7 DEF Finish, Shut, Notified, membership
  <2>3. TypeOK'
    <3>1. until' \in [Readers -> 0 .. MaxTail \cup {None}]
      BY <1>1, <2>1, TailAssumption DEF TypeOK
    <3> QED
      BY <1>2, <2>1, <2>2, <3>1 DEF TypeOK, stream
  <2>4. Retention'
    BY <1>2, <2>1, <2>2 DEF stream, Retention
  <2>5. PositionInv'
    BY <1>1, <1>2, <2>1 DEF stream, TypeOK, PositionInv
  <2>6. ShutInv' /\ DoneIsComplete'
    BY <1>1, <1>2, <2>1, <2>2, NoneAssumption
       DEF stream, TypeOK, ShutInv, DoneIsComplete, Complete
  <2> QED
    BY <1>3, <2>3, <2>4, <2>5, <2>6
<1>8. CASE Cancel(r)
  <2>1. /\ UNCHANGED <<seq, until, ready>>
        /\ pc' = [pc EXCEPT ![r] = "cut"]
        /\ shut' = shut \cup {r}
    BY <1>8 DEF Cancel, Shut, position
  <2>2. \/ UNCHANGED <<scheduled, connected, registered>>
        \/ /\ registered' = registered \ {r} /\ connected' = connected \ {r}
           /\ scheduled' = scheduled \cup ({r} \ shut)
    BY <1>8 DEF Cancel, Shut, Notified
  <2>3. TypeOK'
    BY <1>2, <2>1, <2>2 DEF TypeOK, stream, Phases
  <2>4. Retention' /\ PositionInv'
    BY <1>2, <2>1 DEF stream, Retention, PositionInv
  <2>5. ShutInv' /\ DoneIsComplete'
    BY <1>2, <2>1 DEF stream, TypeOK, ShutInv, DoneIsComplete, Complete
  <2> QED
    BY <1>3, <2>3, <2>4, <2>5
<1> QED
  BY <1>4, <1>5, <1>6, <1>7, <1>8 DEF Receive

LEMMA InitInv == Init => StreamInv
<1> SUFFICES ASSUME Init PROVE StreamInv
  OBVIOUS
<1>1. TypeOK
  <2>1. 0 \in 0 .. MaxTail /\ tail = 0 /\ floor = 0
    BY TailAssumption DEF Init
  <2>2. /\ seq \in [Readers -> 0 .. MaxTail]
        /\ until \in [Readers -> 0 .. MaxTail \cup {None}]
        /\ pc \in [Readers -> Phases]
    BY <2>1 DEF Init, Phases
  <2>3. tail \in 0 .. MaxTail /\ floor \in 0 .. tail
    BY <2>1
  <2>4. /\ ring \subseteq Frames
        /\ \A f \in ring : floor < f.seq /\ f.seq <= tail
        /\ \A f, g \in ring : f.seq = g.seq => f = g
    BY DEF Init
  <2>5. /\ closed \in BOOLEAN /\ ended \subseteq Steps
        /\ registered \subseteq Readers /\ connected \subseteq registered
        /\ overflowed \subseteq Readers /\ shut \subseteq Readers
        /\ scheduled \subseteq Readers /\ ready \subseteq Readers
    BY DEF Init
  <2> QED
    BY <2>2, <2>3, <2>4, <2>5 DEF TypeOK
<1>2. Retention
  BY FS_EmptySet, LimitAssumption DEF Init, Retention
<1>3. RingInv
  BY FS_EmptySet DEF Init, RingInv, EndsFollow
<1>4. PositionInv /\ ShutInv /\ DoneIsComplete
  BY NoneAssumption DEF Init, PositionInv, ShutInv, DoneIsComplete
<1> QED
  BY <1>1, <1>2, <1>3, <1>4 DEF StreamInv

LEMMA StepInv == StreamInv /\ [Next]_vars => StreamInv'
<1> SUFFICES ASSUME StreamInv, [Next]_vars PROVE StreamInv'
  OBVIOUS
<1>1. ASSUME NEW s \in Steps, PublishPart(s) \/ PublishEnd(s) \/ PublishOther(s)
      PROVE  StreamInv'
  <2>1. Published("part", s) \/ Published("end", s) \/ Published("other", s)
    BY <1>1 DEF PublishPart, PublishEnd, PublishOther, Published
  <2> QED
    BY <2>1, PublishedInv
<1>2. CASE CloseStream
  <2>1. /\ UNCHANGED <<ring, tail, floor, ended, registered, overflowed, shut, seq, until, ready, pc>>
        /\ closed' = TRUE /\ connected' = {}
        /\ scheduled' = scheduled \cup (connected \ shut)
    BY <1>2 DEF CloseStream, Notified, position
  <2>2. TypeOK' /\ Retention'
    BY <2>1 DEF StreamInv, TypeOK, Retention
  <2>3. RingInv' /\ PositionInv'
    BY <2>1 DEF StreamInv, RingInv, EndsFollow, PositionInv
  <2>4. ShutInv' /\ DoneIsComplete'
    BY <1>2, <2>1 DEF StreamInv, ShutInv, DoneIsComplete, Complete
  <2> QED
    BY <2>2, <2>3, <2>4 DEF StreamInv
<1>3. ASSUME NEW r \in Readers, NEW after \in 0 .. tail, Subscribe(r, after)
      PROVE  StreamInv'
  <2>1. /\ UNCHANGED <<ring, tail, floor, closed, ended, until, overflowed, shut, scheduled, ready>>
        /\ floor <= after /\ after <= tail
        /\ seq' = [seq EXCEPT ![r] = after]
        /\ registered' = registered \cup {r}
        /\ connected' \subseteq connected \cup {r}
        /\ pc[r] = "idle"
        /\ pc' = [pc EXCEPT ![r] = "calling"]
    BY <1>3 DEF Subscribe, stream, wakeup
  <2>2. after \in 0 .. MaxTail /\ tail \in Nat /\ floor \in Nat
    <3>1. tail \in 0 .. MaxTail /\ floor \in 0 .. tail
      BY DEF StreamInv, TypeOK
    <3> QED
      BY <3>1, TailAssumption
  <2>3. TypeOK'
    BY <2>1, <2>2 DEF StreamInv, TypeOK, Phases
  <2>4. Retention'
    <3>1. \A q \in registered' : floor <= seq'[q]
      BY <2>1, <2>2 DEF StreamInv, TypeOK, Retention
    <3> QED
      BY <2>1, <3>1 DEF StreamInv, Retention
  <2>5. RingInv'
    BY <2>1 DEF StreamInv, RingInv, EndsFollow
  <2>6. PositionInv'
    BY <2>1 DEF StreamInv, TypeOK, PositionInv
  <2>7. ShutInv' /\ DoneIsComplete'
    BY <2>1 DEF StreamInv, TypeOK, ShutInv, DoneIsComplete, Complete
  <2> QED
    BY <2>3, <2>4, <2>5, <2>6, <2>7 DEF StreamInv
<1>4. ASSUME NEW r \in Readers,
             Receive(r) \/ Wake(r) \/ Resume(r) \/ Handled(r) \/ Finish(r) \/ Cancel(r)
      PROVE  StreamInv'
  BY <1>4, ReaderInv
<1>5. CASE UNCHANGED vars
  BY <1>5 DEF vars, stream, membership, position, wakeup, StreamInv, TypeOK, Retention,
              RingInv, EndsFollow, PositionInv, ShutInv, DoneIsComplete, Complete
<1> QED
  BY <1>1, <1>2, <1>3, <1>4, <1>5 DEF Next

LEMMA InvHolds == Spec => []StreamInv
BY InitInv, StepInv, PTL DEF Spec

----------------------------------------------------------------------------
(* What holds of every behaviour *)

(* Every variable keeps its type; the retained frames lie between the      *)
(* floor and the tail, and none has the number of another.                 *)
THEOREM StreamTypesHold == Spec => []TypeOK
<1>1. StreamInv => TypeOK
  BY DEF StreamInv
<1> QED BY <1>1, InvHolds, PTL

(* _reclaim keeps the ring within its limit, and no registered reader      *)
(* behind the floor, wherever the readers are.                             *)
THEOREM RingIsBounded == Spec => []Retention
<1>1. StreamInv => Retention
  BY DEF StreamInv
<1> QED BY <1>1, InvHolds, PTL

(* receive() ends without an error only when the reader has everything.    *)
THEOREM EndsAreComplete == Spec => []DoneIsComplete
<1>1. StreamInv => DoneIsComplete
  BY DEF StreamInv
<1> QED BY <1>1, InvHolds, PTL

(* No reader that stays registered loses a frame it has not acquired, with *)
(* any number of readers and of frames, whatever _reclaim has to drop.     *)
THEOREM ReadersMissNothing == Spec => UnreadIsKept
<1>1. StreamInv /\ [Next]_vars =>
        [\A f \in ring \ ring' : \A r \in registered' : f.seq <= seq[r]]_vars
  <2> SUFFICES ASSUME StreamInv, [Next]_vars,
                      NEW f \in ring \ ring', NEW r \in registered'
               PROVE  f.seq <= seq[r]
    OBVIOUS
  <2>1. PICK kind \in {"part", "end", "other"}, s \in Steps : Published(kind, s)
    BY StepCases
  <2> DEFINE F == ring \cup {Frame(tail + 1, kind, s)}
  <2>2. RingFacts(F, floor, tail + 1, Positions) /\ Frame(tail + 1, kind, s).seq = tail + 1
    BY <2>1, GrownRing
  <2>3. /\ ring' = Reclaimed(F, tail + 1, Positions)
        /\ r \in registered /\ ~Overflows(F, floor, tail + 1, Positions, seq[r])
    BY <2>1, <2>2 DEF Published, Append
  <2>4. f \in F \ Reclaimed(F, tail + 1, Positions) /\ seq[r] \in Positions
    BY <2>3 DEF Positions
  <2> HIDE DEF F
  <2> QED
    BY <2>2, <2>3, <2>4, RemovedIsRead
<1>2. Spec => [][\A f \in ring \ ring' : \A r \in registered' : f.seq <= seq[r]]_vars
  BY <1>1, InvHolds, PTL DEF Spec
<1> QED BY <1>2 DEF UnreadIsKept

(* Compaction drops nothing a resuming reader would need: only progress    *)
(* whose step's end is retained.                                           *)
THEOREM CompactionIsFinal == Spec => RemovedIsFinal
<1> DEFINE A == \A f \in ring \ ring' :
                  f.seq > floor' => /\ f.kind = "part"
                                    /\ \E e \in ring' : e.kind = "end" /\ e.of = f.of
<1>1. StreamInv /\ [Next]_vars => [A]_vars
  <2> SUFFICES ASSUME StreamInv, [Next]_vars,
                      NEW f \in ring \ ring', f.seq > floor'
               PROVE  f.kind = "part" /\ \E e \in ring' : e.kind = "end" /\ e.of = f.of
    OBVIOUS
  <2>1. PICK kind \in {"part", "end", "other"}, s \in Steps : Published(kind, s)
    BY StepCases
  <2> DEFINE F == ring \cup {Frame(tail + 1, kind, s)}
  <2>2. /\ RingFacts(F, floor, tail + 1, Positions) /\ EndsFollow(F)
        /\ Frame(tail + 1, kind, s).seq = tail + 1
    BY <2>1, GrownRing
  <2>3. /\ ring' = Reclaimed(F, tail + 1, Positions)
        /\ floor' = RaisedFloor(F, floor, tail + 1, Positions)
    BY <2>1, <2>2 DEF Published, Append
  <2>4. f \in F \ Reclaimed(F, tail + 1, Positions)
    BY <2>3
  <2> HIDE DEF F
  <2> QED
    BY <2>2, <2>3, <2>4, RemovedAboveFloor
<1>2. Spec => [][A]_vars
  BY <1>1, InvHolds, PTL DEF Spec
<1> QED BY <1>2 DEF RemovedIsFinal

(* A reader is overflowed only when the ring is full of what it has not    *)
(* read.                                                                   *)
THEOREM OverflowIsEarned == Spec => OnlySlowOverflow
<1> DEFINE A == \A r \in overflowed' \ overflowed :
                  Cardinality(Unread(ring, seq[r])) >= Limit
<1>1. StreamInv /\ [Next]_vars => [A]_vars
  <2> SUFFICES ASSUME StreamInv, [Next]_vars, NEW r \in overflowed' \ overflowed
               PROVE  Cardinality(Unread(ring, seq[r])) >= Limit
    OBVIOUS
  <2>1. PICK kind \in {"part", "end", "other"}, s \in Steps : Published(kind, s)
    BY StepCases
  <2> DEFINE frame == Frame(tail + 1, kind, s)
             F == ring \cup {frame}
             U == Unread(ring, seq[r])
             G == Unread(F, seq[r])
  <2>2. RingFacts(F, floor, tail + 1, Positions) /\ frame.seq = tail + 1
    BY <2>1, GrownRing
  <2>3. r \in registered /\ Overflows(F, floor, tail + 1, Positions, seq[r])
    BY <2>1, <2>2 DEF Published, Append
  <2>4. seq[r] \in Positions /\ floor <= seq[r]
    BY <2>3 DEF Positions, StreamInv, Retention
  <2>5. IsFiniteSet(U) /\ Cardinality(U) \in Nat
    <3>1. U \in SUBSET ring
      BY DEF Unread
    <3> QED
      BY <3>1, FS_Subset, FS_CardinalityType DEF StreamInv, RingInv
  <2>6. G \in SUBSET (U \cup {frame})
    BY DEF Unread
  <2> HIDE DEF frame, F
  <2>7. Cardinality(G) > Limit
    BY <2>2, <2>3, <2>4, OverflowedIsSlow
  <2> HIDE DEF U, G
  <2>8. /\ IsFiniteSet(U \cup {frame})
        /\ \/ Cardinality(U \cup {frame}) = Cardinality(U)
           \/ Cardinality(U \cup {frame}) = Cardinality(U) + 1
    BY <2>5, FS_AddElement
  <2>9. Cardinality(G) <= Cardinality(U \cup {frame}) /\ Cardinality(G) \in Nat
    BY <2>6, <2>8, FS_Subset, FS_CardinalityType
  <2> QED
    BY <2>5, <2>7, <2>8, <2>9, LimitAssumption DEF U
<1>2. Spec => [][A]_vars
  BY <1>1, InvHolds, PTL DEF Spec
<1> QED BY <1>2 DEF OnlySlowOverflow

----------------------------------------------------------------------------
(* Wakeups *)

(* Whoever may wait is reached by the signal, until it is shut, overflowed *)
(* or the stream is closed, each of which notifies it once more.           *)
ConnectedInv ==
    /\ \A r \in registered : r \notin shut
    /\ \A r \in Readers :
          pc[r] \in {"calling", "waiting", "handling"} /\ ~closed =>
             r \in connected \cup shut \cup overflowed

WakeInv == ConnectedInv /\ NoLostWakeup

LEMMA WakeInit == Init => WakeInv
BY DEF Init, WakeInv, ConnectedInv, NoLostWakeup

LEMMA WakePublished ==
    ASSUME StreamInv, WakeInv, NEW frame, Append(frame)
    PROVE  WakeInv'
<1> PICK slow \in SUBSET registered :
       /\ ~closed
       /\ overflowed' = overflowed \cup slow
       /\ registered' = registered \ slow
       /\ connected' = connected \ slow
       /\ scheduled' = scheduled \cup ((slow \cup connected) \ shut)
       /\ UNCHANGED <<closed, shut, seq, until, ready, pc>>
  BY DEF Append, Notified, position
<1>1. ConnectedInv'
  BY DEF WakeInv, ConnectedInv
<1>2. ASSUME NEW r \in Readers, pc[r] = "waiting"
      PROVE  r \in scheduled' \cup ready'
  <2>1. CASE r \in connected \ shut
    BY <2>1
  <2>2. CASE r \in shut \cup overflowed
    BY <1>2, <2>2 DEF WakeInv, NoLostWakeup, Wanted
  <2> QED
    BY <1>2, <2>1, <2>2 DEF WakeInv, ConnectedInv
<1> QED
  BY <1>1, <1>2 DEF WakeInv, NoLostWakeup

LEMMA WakeReader ==
    ASSUME StreamInv, WakeInv, NEW r \in Readers,
           Receive(r) \/ Wake(r) \/ Resume(r) \/ Handled(r) \/ Finish(r) \/ Cancel(r)
    PROVE  WakeInv'
<1> USE DEF WakeInv
<1>1. /\ UNCHANGED <<tail, closed, overflowed>>
      /\ pc \in [Readers -> Phases] /\ seq \in [Readers -> 0 .. MaxTail]
      /\ until \in [Readers -> 0 .. MaxTail \cup {None}]
  BY DEF StreamInv, TypeOK, Receive, ReceiveOverflow, ReceiveEnd, ReceiveBatch,
         ReceiveNothing, Wake, Resume, Handled, Finish, Cancel, Shut, stream, membership
<1>2. ConnectedInv'
  <2>1. \/ UNCHANGED <<registered, connected, shut>>
        \/ /\ shut' = shut \cup {r}
           /\ registered' = registered \ {r} /\ connected' = connected \ {r}
    BY DEF Receive, ReceiveOverflow, ReceiveEnd, ReceiveBatch, ReceiveNothing, Wake,
           Resume, Handled, Finish, Cancel, Shut, membership
  <2>2. \A q \in Readers :
           pc'[q] \in {"calling", "waiting", "handling"} =>
              pc[q] \in {"calling", "waiting", "handling"}
    BY <1>1 DEF Receive, ReceiveOverflow, ReceiveEnd, ReceiveBatch, ReceiveNothing, Wake,
                Resume, Handled, Finish, Cancel
  <2> QED
    BY <1>1, <2>1, <2>2 DEF ConnectedInv
<1>3. ASSUME NEW q \in Readers, q # r, pc'[q] = "waiting", Wanted(q)'
      PROVE  q \in scheduled' \cup ready'
  <2>1. /\ pc[q] = "waiting" /\ seq'[q] = seq[q] /\ until'[q] = until[q]
        /\ q \in shut' <=> q \in shut
        /\ q \in scheduled => q \in scheduled'
        /\ q \in ready => q \in ready'
    BY <1>1, <1>3 DEF Receive, ReceiveOverflow, ReceiveEnd, ReceiveBatch, ReceiveNothing,
                Wake, Resume, Handled, Finish, Cancel, Shut, Notified, stream, membership,
                position, wakeup
  <2>2. Wanted(q)
    BY <1>1, <1>3, <2>1 DEF Wanted, Reached
  <2> QED
    BY <2>1, <2>2 DEF NoLostWakeup
<1>4. ASSUME pc'[r] = "waiting", Wanted(r)'
      PROVE  r \in scheduled' \cup ready'
  <2>1. CASE ReceiveNothing(r)
    BY <1>1, <1>4, <2>1 DEF ReceiveNothing, Wanted, Reached, stream, membership, position
  <2>2. CASE Wake(r)
    BY <2>2 DEF Wake
  <2>3. CASE Finish(r)
    BY <2>3 DEF Finish, Shut, Notified
  <2>4. ~Resume(r) /\ ~Handled(r) /\ ~Cancel(r)
    BY <1>1, <1>4 DEF Resume, Handled, Cancel
  <2>5. ~ReceiveOverflow(r) /\ ~ReceiveEnd(r) /\ ~ReceiveBatch(r)
    BY <1>1, <1>4 DEF ReceiveOverflow, ReceiveEnd, ReceiveBatch
  <2> QED
    BY <2>1, <2>2, <2>3, <2>4, <2>5 DEF Receive
<1> QED
  BY <1>2, <1>3, <1>4 DEF NoLostWakeup

LEMMA WakeStep == StreamInv /\ WakeInv /\ [Next]_vars => WakeInv'
<1> SUFFICES ASSUME StreamInv, WakeInv, [Next]_vars PROVE WakeInv'
  OBVIOUS
<1>1. ASSUME NEW s \in Steps, PublishPart(s) \/ PublishEnd(s) \/ PublishOther(s)
      PROVE  WakeInv'
  BY <1>1, WakePublished DEF PublishPart, PublishEnd, PublishOther
<1>2. CASE CloseStream
  <2>1. /\ UNCHANGED <<registered, overflowed, shut, pc>>
        /\ closed' = TRUE /\ ready' = ready /\ ~closed
        /\ scheduled' = scheduled \cup (connected \ shut)
    BY <1>2 DEF CloseStream, Notified
  <2>2. ASSUME NEW r \in Readers, pc[r] = "waiting"
        PROVE  r \in scheduled' \cup ready'
    <3>1. CASE r \in shut \cup overflowed
      BY <2>1, <2>2, <3>1 DEF WakeInv, NoLostWakeup, Wanted
    <3> QED
      BY <2>1, <2>2, <3>1 DEF WakeInv, ConnectedInv
  <2> QED
    BY <2>1, <2>2 DEF WakeInv, ConnectedInv, NoLostWakeup
<1>3. ASSUME NEW r \in Readers, NEW after \in 0 .. tail, Subscribe(r, after)
      PROVE  WakeInv'
  <2>1. /\ UNCHANGED <<tail, closed, until, overflowed, shut, scheduled, ready>>
        /\ pc[r] = "idle" /\ r \notin shut
        /\ registered' = registered \cup {r}
        /\ connected' = IF closed THEN connected ELSE connected \cup {r}
        /\ pc' = [pc EXCEPT ![r] = "calling"]
        /\ seq' = [seq EXCEPT ![r] = after]
        /\ pc \in [Readers -> Phases] /\ seq \in [Readers -> 0 .. MaxTail]
    BY <1>3 DEF Subscribe, stream, wakeup, StreamInv, TypeOK, ShutInv
  <2>2. ConnectedInv'
    BY <2>1 DEF WakeInv, ConnectedInv
  <2>3. NoLostWakeup'
    <3> SUFFICES ASSUME NEW q \in Readers, pc'[q] = "waiting", Wanted(q)'
                 PROVE  q \in scheduled' \cup ready'
      BY DEF NoLostWakeup
    <3>1. q # r /\ pc[q] = "waiting" /\ seq'[q] = seq[q]
      BY <2>1
    <3>2. Wanted(q)
      BY <2>1, <3>1 DEF Wanted, Reached
    <3> QED
      BY <2>1, <3>1, <3>2 DEF WakeInv, NoLostWakeup
  <2> QED
    BY <2>2, <2>3 DEF WakeInv
<1>4. ASSUME NEW r \in Readers,
             Receive(r) \/ Wake(r) \/ Resume(r) \/ Handled(r) \/ Finish(r) \/ Cancel(r)
      PROVE  WakeInv'
  BY <1>4, WakeReader
<1>5. CASE UNCHANGED vars
  BY <1>5 DEF vars, stream, membership, position, wakeup, WakeInv, ConnectedInv,
              NoLostWakeup, Wanted, Reached
<1> QED
  BY <1>1, <1>2, <1>3, <1>4, <1>5 DEF Next

(* No reader waits for something that is there without a wakeup that has   *)
(* come or is on its way: publications, closes, overflows and finishes may *)
(* fall anywhere between its check and its wait.                           *)
THEOREM WakeupsArrive == Spec => []NoLostWakeup
<1>1. StreamInv /\ StreamInv' /\ WakeInv /\ [Next]_vars => WakeInv'
  BY WakeStep
<1>2. WakeInv => NoLostWakeup
  BY DEF WakeInv
<1> QED BY <1>1, <1>2, WakeInit, InvHolds, PTL DEF Spec

(* The two together: receive() neither ends early nor waits in vain.       *)
THEOREM EveryReaderIsServed == Spec => []ReadersAreServed
<1>1. DoneIsComplete /\ NoLostWakeup => ReadersAreServed
  BY DEF ReadersAreServed
<1> QED BY <1>1, EndsAreComplete, WakeupsArrive, PTL

(* The three facts about what _reclaim and _compact take away.             *)
THEOREM LossesAreEarned == Spec => LossIsEarned
  BY ReadersMissNothing, CompactionIsFinal, OverflowIsEarned, PTL DEF LossIsEarned

----------------------------------------------------------------------------
(* The loops *)

(* Induction: a set of numbers with 0 and with the successor of each of    *)
(* its members is all of them.                                             *)
LEMMA SetInduction ==
    ASSUME NEW S \in SUBSET Nat, 0 \in S, \A n \in S : n + 1 \in S
    PROVE  S = Nat
<1> SUFFICES ASSUME Nat \ S # {} PROVE FALSE
  OBVIOUS
<1>1. /\ Least(Nat \ S) \in Nat \ S
      /\ \A y \in Nat \ S : Least(Nat \ S) <= y
  BY LeastElement
<1> DEFINE m == Least(Nat \ S)
<1> HIDE DEF m
<1>2. m \in Nat /\ m \notin S /\ \A y \in Nat \ S : m <= y
  BY <1>1 DEF m
<1>3. m - 1 \in Nat
  BY <1>2
<1>4. m - 1 \in S
  BY <1>2, <1>3
<1>5. (m - 1) + 1 \in S
  BY <1>4
<1> QED
  BY <1>2, <1>5

(* h has the states of a loop that begins with s, up to its turn k.        *)
StatesOf(h, turn, s, k) == h = [n \in 0 .. k |-> IF n = 0 THEN s ELSE turn[h[n - 1]]]

(* A loop over the states St, whose turn is a function, has a state after  *)
(* any number of turns.                                                    *)
LEMMA LoopExists ==
    ASSUME NEW St, NEW turn \in [St -> St], NEW s \in St, NEW k \in Nat
    PROVE  \E h : StatesOf(h, turn, s, k)
<1> DEFINE After(j, h) == StatesOf(h, turn, s, j)
           S == {j \in Nat : \E h : After(j, h)}
<1>1. 0 \in S
  <2>1. After(0, [n \in 0 .. 0 |-> s])
    BY DEF StatesOf
  <2> QED
    BY <2>1
<1>2. ASSUME NEW j \in S PROVE j + 1 \in S
  <2>1. PICK g : After(j, g)
    OBVIOUS
  <2> DEFINE h == [n \in 0 .. j + 1 |-> IF n = j + 1 THEN turn[g[j]] ELSE g[n]]
  <2>2. j \in Nat
    OBVIOUS
  <2>3. \A n \in 0 .. j + 1 : h[n] = IF n = 0 THEN s ELSE turn[h[n - 1]]
    <3> SUFFICES ASSUME NEW n \in 0 .. j + 1
                 PROVE  h[n] = IF n = 0 THEN s ELSE turn[h[n - 1]]
      OBVIOUS
    <3>1. CASE n = 0
      BY <3>1, <2>1, <2>2 DEF StatesOf
    <3>2. CASE n = j + 1
      <4>1. h[n] = turn[g[j]] /\ n # 0 /\ n - 1 = j
        BY <3>2, <2>2
      <4>2. h[j] = g[j]
        BY <2>2
      <4> QED
        BY <4>1, <4>2
    <3>3. CASE n # 0 /\ n # j + 1
      <4>1. n \in 0 .. j /\ n - 1 \in 0 .. j /\ n - 1 # j + 1
        BY <3>3, <2>2
      <4>2. h[n] = g[n] /\ h[n - 1] = g[n - 1]
        BY <4>1, <3>3, <2>2
      <4>3. g[n] = turn[g[n - 1]]
        BY <2>1, <4>1, <3>3 DEF StatesOf
      <4> QED
        BY <4>2, <4>3, <3>3
    <3> QED
      BY <3>1, <3>2, <3>3
  <2>4. After(j + 1, h)
    <3>1. h = [n \in 0 .. j + 1 |-> h[n]]
      OBVIOUS
    <3> HIDE DEF h
    <3> QED
      BY <3>1, <2>3 DEF StatesOf
  <2> HIDE DEF h, After
  <2> QED
    BY <2>2, <2>4
<1>3. S = Nat
  <2>1. S \in SUBSET Nat
    OBVIOUS
  <2> HIDE DEF S
  <2> QED
    BY <1>1, <1>2, <2>1, SetInduction
<1> QED
  BY <1>3

(* If every turn that changes the state makes it smaller, the loop has     *)
(* ended after as many turns as the size of the state it began with.       *)
LEMMA LoopEnds ==
    ASSUME NEW St, NEW turn \in [St -> St], NEW size \in [St -> Nat],
           \A x \in St : turn[x] = x \/ size[turn[x]] < size[x],
           NEW s \in St, NEW h, StatesOf(h, turn, s, size[s])
    PROVE  /\ \A n \in 0 .. size[s] : h[n] \in St
           /\ turn[h[size[s]]] = h[size[s]]
<1> DEFINE k == size[s]
           Ended(n) == turn[h[n]] = h[n] \/ size[h[n]] + n <= k
           S == {n \in Nat : n <= k => h[n] \in St /\ Ended(n)}
<1>1. k \in Nat
  OBVIOUS
<1>a. /\ h[0] = s
      /\ \A n \in 0 .. k : n # 0 => h[n] = turn[h[n - 1]]
  BY <1>1 DEF StatesOf
<1>2. 0 \in S
  BY <1>1, <1>a
<1>3. ASSUME NEW n \in S PROVE n + 1 \in S
  <2> SUFFICES ASSUME n + 1 <= k PROVE h[n + 1] \in St /\ Ended(n + 1)
    OBVIOUS
  <2>1. n \in Nat /\ n <= k /\ h[n] \in St /\ Ended(n)
    BY <1>1
  <2>2. h[n + 1] = turn[h[n]]
    <3>1. n + 1 \in 0 .. k /\ n + 1 # 0 /\ (n + 1) - 1 = n
      BY <1>1, <2>1
    <3> QED
      BY <1>a, <3>1
  <2>3. h[n + 1] \in St
    BY <2>1, <2>2
  <2>4. Ended(n + 1)
    <3>1. CASE turn[h[n]] = h[n]
      BY <3>1, <2>2
    <3>2. CASE turn[h[n]] # h[n]
      <4>1. size[h[n + 1]] < size[h[n]] /\ size[h[n]] + n <= k
        BY <3>2, <2>1, <2>2
      <4>2. size[h[n + 1]] \in Nat /\ size[h[n]] \in Nat
        BY <2>1, <2>3
      <4> QED
        BY <4>1, <4>2, <1>1, <2>1
    <3> QED
      BY <3>1, <3>2
  <2> QED
    BY <2>3, <2>4
<1>4. S = Nat
  <2>1. S \in SUBSET Nat
    OBVIOUS
  <2> HIDE DEF S
  <2> QED
    BY <1>2, <1>3, <2>1, SetInduction
<1>5. ASSUME NEW n \in 0 .. k PROVE h[n] \in St /\ Ended(n)
  <2>1. n \in Nat /\ n <= k
    BY <1>1
  <2>2. n \in S
    BY <1>4, <2>1
  <2> QED
    BY <2>1, <2>2
<1>6. h[k] \in St /\ Ended(k)
  BY <1>1, <1>5
<1>7. turn[h[k]] = h[k]
  <2> SUFFICES ASSUME turn[h[k]] # h[k] PROVE FALSE
    OBVIOUS
  <2>1. size[h[k]] + k <= k /\ size[turn[h[k]]] < size[h[k]]
    BY <1>6
  <2>2. PICK a \in Nat, b \in Nat : a = size[h[k]] /\ b = size[turn[h[k]]]
    BY <1>6
  <2>3. a + k <= k /\ b < a
    BY <2>1, <2>2
  <2> HIDE DEF k
  <2> QED
    BY <2>3, <1>1
<1> QED
  BY <1>5, <1>7

(* What the first loop computes, for any set of states that its turns do   *)
(* not leave.                                                              *)
LEMMA ConsumedLoop ==
    ASSUME NEW completed, NEW end, NEW St, NEW s \in St,
           \A x \in St : /\ MaxTurns(x) \in Nat
                         /\ ConsumedTurn(x, completed, end) \in St
                         /\ \/ ConsumedTurn(x, completed, end) = x
                            \/ MaxTurns(ConsumedTurn(x, completed, end)) < MaxTurns(x)
    PROVE  LET left == EvictConsumed(s, completed, end)
           IN  left \in St /\ ConsumedTurn(left, completed, end) = left
<1> DEFINE turn == [x \in St |-> ConsumedTurn(x, completed, end)]
           size == [x \in St |-> MaxTurns(x)]
           k == MaxTurns(s)
           After(h) == h = [n \in 0 .. k |-> IF n = 0 THEN s
                                             ELSE ConsumedTurn(h[n - 1], completed, end)]
           after == CHOOSE h : After(h)
<1>1. /\ turn \in [St -> St] /\ size \in [St -> Nat] /\ k \in Nat /\ size[s] = k
      /\ \A x \in St : turn[x] = x \/ size[turn[x]] < size[x]
      /\ \A x \in St : turn[x] = ConsumedTurn(x, completed, end)
  OBVIOUS
<1> HIDE DEF turn, size
<1> HIDE DEF k
<1>2. PICK g : StatesOf(g, turn, s, k)
  <2>1. turn \in [St -> St] /\ k \in Nat /\ s \in St
    BY <1>1
  <2> QED
    BY <2>1, LoopExists
<1>3. \A n \in 0 .. k : g[n] \in St
  <2>1. StatesOf(g, turn, s, size[s])
    BY <1>1, <1>2
  <2> QED
    BY <1>1, <2>1, LoopEnds
<1>4. After(g)
  <2>1. \A n \in 0 .. k : n # 0 => turn[g[n - 1]] = ConsumedTurn(g[n - 1], completed, end)
    <3> SUFFICES ASSUME NEW n \in 0 .. k, n # 0
                 PROVE  turn[g[n - 1]] = ConsumedTurn(g[n - 1], completed, end)
      OBVIOUS
    <3>1. n - 1 \in 0 .. k
      BY <1>1
    <3> QED
      BY <1>1, <1>3, <3>1
  <2> QED
    BY <1>2, <2>1 DEF StatesOf
<1>5. After(after)
  BY <1>4
<1>6. EvictConsumed(s, completed, end) = after[k]
  BY DEF EvictConsumed, k
<1> HIDE DEF after
<1> DEFINE S == {n \in Nat : n <= k => after[n] \in St}
<1>7. 0 \in S
  BY <1>1, <1>5
<1>8. ASSUME NEW n \in S PROVE n + 1 \in S
  <2> SUFFICES ASSUME n + 1 <= k PROVE after[n + 1] \in St
    OBVIOUS
  <2>1. n \in Nat /\ n + 1 \in 0 .. k /\ (n + 1) - 1 = n /\ n + 1 # 0
    BY <1>1
  <2>2. after[n] \in St
    BY <1>1, <2>1
  <2>3. after[n + 1] = ConsumedTurn(after[n], completed, end)
    BY <1>5, <2>1
  <2> QED
    BY <2>2, <2>3
<1>9. S = Nat
  <2>1. S \in SUBSET Nat
    OBVIOUS
  <2> HIDE DEF S
  <2> QED
    BY <1>7, <1>8, <2>1, SetInduction
<1>10. ASSUME NEW n \in 0 .. k PROVE after[n] \in St
  <2>1. n \in Nat /\ n <= k
    BY <1>1
  <2>2. n \in S
    BY <1>9, <2>1
  <2> QED
    BY <2>1, <2>2
<1>11. StatesOf(after, turn, s, size[s])
  <2>1. \A n \in 0 .. k : n # 0 => turn[after[n - 1]] = ConsumedTurn(after[n - 1], completed, end)
    <3> SUFFICES ASSUME NEW n \in 0 .. k, n # 0
                 PROVE  turn[after[n - 1]] = ConsumedTurn(after[n - 1], completed, end)
      OBVIOUS
    <3>1. n - 1 \in 0 .. k
      BY <1>1
    <3> QED
      BY <1>1, <1>10, <3>1
  <2> QED
    BY <1>1, <1>5, <2>1 DEF StatesOf
<1>12. turn[after[k]] = after[k]
  <2>1. turn[after[size[s]]] = after[size[s]]
    BY <1>1, <1>11, LoopEnds
  <2> QED
    BY <1>1, <2>1
<1>13. after[k] \in St
  BY <1>1, <1>10
<1> QED
  BY <1>1, <1>6, <1>12, <1>13

(* The same of the second loop.                                            *)
LEMMA UnreadLoop ==
    ASSUME NEW St, NEW s \in St,
           \A x \in St : /\ MaxTurns(x) \in Nat
                         /\ UnreadTurn(x) \in St
                         /\ UnreadTurn(x) = x \/ MaxTurns(UnreadTurn(x)) < MaxTurns(x)
    PROVE  LET left == EvictUnread(s) IN left \in St /\ UnreadTurn(left) = left
<1> DEFINE turn == [x \in St |-> UnreadTurn(x)]
           size == [x \in St |-> MaxTurns(x)]
           k == MaxTurns(s)
           After(h) == h = [n \in 0 .. k |-> IF n = 0 THEN s ELSE UnreadTurn(h[n - 1])]
           after == CHOOSE h : After(h)
<1>1. /\ turn \in [St -> St] /\ size \in [St -> Nat] /\ k \in Nat /\ size[s] = k
      /\ \A x \in St : turn[x] = x \/ size[turn[x]] < size[x]
      /\ \A x \in St : turn[x] = UnreadTurn(x)
  OBVIOUS
<1> HIDE DEF turn, size
<1> HIDE DEF k
<1>2. PICK g : StatesOf(g, turn, s, k)
  <2>1. turn \in [St -> St] /\ k \in Nat /\ s \in St
    BY <1>1
  <2> QED
    BY <2>1, LoopExists
<1>3. \A n \in 0 .. k : g[n] \in St
  <2>1. StatesOf(g, turn, s, size[s])
    BY <1>1, <1>2
  <2> QED
    BY <1>1, <2>1, LoopEnds
<1>4. After(g)
  <2>1. \A n \in 0 .. k : n # 0 => turn[g[n - 1]] = UnreadTurn(g[n - 1])
    <3> SUFFICES ASSUME NEW n \in 0 .. k, n # 0
                 PROVE  turn[g[n - 1]] = UnreadTurn(g[n - 1])
      OBVIOUS
    <3>1. n - 1 \in 0 .. k
      BY <1>1
    <3> QED
      BY <1>1, <1>3, <3>1
  <2> QED
    BY <1>2, <2>1 DEF StatesOf
<1>5. After(after)
  BY <1>4
<1>6. EvictUnread(s) = after[k]
  BY DEF EvictUnread, k
<1> HIDE DEF after
<1> DEFINE S == {n \in Nat : n <= k => after[n] \in St}
<1>7. 0 \in S
  BY <1>1, <1>5
<1>8. ASSUME NEW n \in S PROVE n + 1 \in S
  <2> SUFFICES ASSUME n + 1 <= k PROVE after[n + 1] \in St
    OBVIOUS
  <2>1. n \in Nat /\ n + 1 \in 0 .. k /\ (n + 1) - 1 = n /\ n + 1 # 0
    BY <1>1
  <2>2. after[n] \in St
    BY <1>1, <2>1
  <2>3. after[n + 1] = UnreadTurn(after[n])
    BY <1>5, <2>1
  <2> QED
    BY <2>2, <2>3
<1>9. S = Nat
  <2>1. S \in SUBSET Nat
    OBVIOUS
  <2> HIDE DEF S
  <2> QED
    BY <1>7, <1>8, <2>1, SetInduction
<1>10. ASSUME NEW n \in 0 .. k PROVE after[n] \in St
  <2>1. n \in Nat /\ n <= k
    BY <1>1
  <2>2. n \in S
    BY <1>9, <2>1
  <2> QED
    BY <2>1, <2>2
<1>11. StatesOf(after, turn, s, size[s])
  <2>1. \A n \in 0 .. k : n # 0 => turn[after[n - 1]] = UnreadTurn(after[n - 1])
    <3> SUFFICES ASSUME NEW n \in 0 .. k, n # 0
                 PROVE  turn[after[n - 1]] = UnreadTurn(after[n - 1])
      OBVIOUS
    <3>1. n - 1 \in 0 .. k
      BY <1>1
    <3> QED
      BY <1>1, <1>10, <3>1
  <2> QED
    BY <1>1, <1>5, <2>1 DEF StatesOf
<1>12. turn[after[k]] = after[k]
  <2>1. turn[after[size[s]]] = after[size[s]]
    BY <1>1, <1>11, LoopEnds
  <2> QED
    BY <1>1, <2>1
<1>13. after[k] \in St
  BY <1>1, <1>10
<1> QED
  BY <1>1, <1>6, <1>12, <1>13

(* What a loop works on: some of the frames F and of the readers seqs.     *)
LoopStates(F, t, seqs) == [frames : SUBSET F, floor : 0 .. t, readers : SUBSET seqs]

(* A state is finite, and as large as its parts.                           *)
LEMMA StateFacts ==
    ASSUME NEW F, NEW low, NEW t, NEW seqs, RingFacts(F, low, t, seqs),
           NEW s \in LoopStates(F, t, seqs)
    PROVE  /\ IsFiniteSet(s.frames) /\ Cardinality(s.frames) \in Nat
           /\ IsFiniteSet(s.readers) /\ Cardinality(s.readers) \in Nat
           /\ MaxTurns(s) \in Nat
           /\ s.frames \in SUBSET F /\ s.readers \in SUBSET seqs /\ s.floor \in 0 .. t
<1>1. s.frames \in SUBSET F /\ s.readers \in SUBSET seqs /\ s.floor \in 0 .. t
  BY DEF LoopStates
<1>2. IsFiniteSet(F) /\ seqs \in SUBSET (0 .. t) /\ t \in Nat
  BY DEF RingFacts
<1>3. IsFiniteSet(0 .. t)
  BY <1>2, FS_Interval
<1>4. IsFiniteSet(s.frames) /\ IsFiniteSet(s.readers)
  <2>1. s.readers \in SUBSET (0 .. t)
    BY <1>1, <1>2
  <2> QED
    BY <1>1, <1>2, <1>3, <2>1, FS_Subset
<1>5. Cardinality(s.frames) \in Nat /\ Cardinality(s.readers) \in Nat
  BY <1>4, FS_CardinalityType
<1> QED
  BY <1>1, <1>4, <1>5 DEF MaxTurns

(* The oldest frame, of a ring that has more than its limit.               *)
LEMMA FirstFacts ==
    ASSUME NEW F, NEW low, NEW t, NEW seqs, RingFacts(F, low, t, seqs),
           NEW s \in LoopStates(F, t, seqs), OverLimit(s)
    PROVE  First(s) \in s.frames /\ \A g \in s.frames : First(s).seq <= g.seq
<1>1. s.frames \in SUBSET F /\ Cardinality(s.frames) \in Nat
  BY StateFacts
<1>2. s.frames # {}
  BY LimitAssumption, FS_EmptySet DEF OverLimit
<1> DEFINE Q == {f.seq : f \in s.frames}
<1>3. Q \in SUBSET Nat /\ Q # {}
  BY <1>1, <1>2 DEF RingFacts
<1>4. Least(Q) \in Q /\ \A y \in Q : Least(Q) <= y
  <2> HIDE DEF Q
  <2> QED
    BY <1>3, LeastElement
<1>5. PICK f \in s.frames : f.seq = Least(Q)
  BY <1>4
<1>6. \A g \in s.frames : f.seq <= g.seq
  <2> SUFFICES ASSUME NEW g \in s.frames PROVE f.seq <= g.seq
    OBVIOUS
  <2>1. g.seq \in Q
    OBVIOUS
  <2> QED
    BY <1>4, <1>5, <2>1
<1>7. \E f_1 \in s.frames : \A g \in s.frames : f_1.seq <= g.seq
  BY <1>6
<1> QED
  BY <1>7 DEF First

(* The floor of the readers: the slowest one's place, or the tail.         *)
LEMMA ReadFloorFacts ==
    ASSUME NEW F, NEW low, NEW t, NEW seqs, RingFacts(F, low, t, seqs),
           NEW s \in LoopStates(F, t, seqs)
    PROVE  LET l == ReadFloor(s, t)
           IN  /\ l \in seqs \cup {t} /\ l \in Nat /\ l <= t
               /\ \A k \in s.readers : l <= k
               /\ s.readers = {} => l = t
               /\ s.readers # {} => l \in s.readers
<1>1. s.readers \subseteq seqs /\ t \in Nat /\ \A k \in seqs : k \in Nat /\ k <= t
  <2>1. s.readers \in SUBSET seqs
    BY StateFacts
  <2>2. t \in Nat /\ \A k \in seqs : k \in 0 .. t
    BY DEF RingFacts
  <2> QED
    BY <2>1, <2>2
<1>2. CASE s.readers = {}
  BY <1>1, <1>2 DEF ReadFloor
<1>3. CASE s.readers # {}
  <2>1. \A k \in s.readers : k \in Nat
    BY <1>1
  <2>2. Least(s.readers) \in s.readers /\ \A y \in s.readers : Least(s.readers) <= y
    <3>1. s.readers \in SUBSET Nat
      BY <2>1
    <3> QED
      BY <1>3, <3>1, LeastElement
  <2>3. ReadFloor(s, t) = Least(s.readers)
    BY <1>3 DEF ReadFloor
  <2> QED
    BY <1>1, <1>3, <2>2, <2>3
<1> QED
  BY <1>2, <1>3

(* What is disposable for a reader is for a faster one.                    *)
LEMMA DisposableRises ==
    ASSUME NEW F, NEW low, NEW t, NEW seqs, RingFacts(F, low, t, seqs),
           NEW f \in F, NEW l \in Nat, NEW k \in Nat, l <= k, Disposable(F, f, l)
    PROVE  Disposable(F, f, k)
<1>1. \A g \in F : g.seq \in Nat
  BY DEF RingFacts
<1> QED
  BY <1>1 DEF Disposable

(* completed has the last Part of each finished step.                      *)
LEMMA BoundaryFacts ==
    ASSUME NEW F, NEW low, NEW t, NEW seqs, RingFacts(F, low, t, seqs),
           NEW f \in F, Finished(F, f)
    PROVE  /\ f.of \in DOMAIN Boundaries(F)
           /\ \E g \in F : g.kind = "part" /\ g.of = f.of /\ g.seq = Boundaries(F)[f.of]
           /\ \A g \in F : g.kind = "part" /\ g.of = f.of => g.seq <= Boundaries(F)[f.of]
<1> DEFINE P == PartsOf(F, f.of)
<1>1. P \in SUBSET Nat /\ P # {} /\ t \in Nat /\ \A x \in P : x <= t
  BY DEF RingFacts, PartsOf, Finished
<1>2. Greatest(P) \in P /\ \A y \in P : y <= Greatest(P)
  <2> HIDE DEF P
  <2> QED
    BY <1>1, GreatestElement
<1>3. f.of \in DOMAIN Boundaries(F) /\ Boundaries(F)[f.of] = Greatest(P)
  BY <1>1 DEF Boundaries, Finished
<1>4. \A g \in F : g.kind = "part" /\ g.of = f.of => g.seq \in P
  BY DEF PartsOf
<1>5. \A x \in P : \E g \in F : g.kind = "part" /\ g.of = f.of /\ g.seq = x
  BY DEF PartsOf
<1> HIDE DEF P
<1> QED
  BY <1>2, <1>3, <1>4, <1>5

(* A step of completed is one that is finished.                            *)
LEMMA BoundaryIsFinished ==
    ASSUME NEW F, NEW low, NEW t, NEW seqs, RingFacts(F, low, t, seqs),
           NEW step \in DOMAIN Boundaries(F)
    PROVE  \E f \in F : f.of = step /\ Finished(F, f) /\ f.seq = Boundaries(F)[step]
<1>1. PICK e \in F : e.kind = "end" /\ e.of = step /\ PartsOf(F, step) # {}
  BY DEF Boundaries
<1>2. PICK g \in F : g.kind = "part" /\ g.of = step
  BY <1>1 DEF PartsOf
<1>3. Finished(F, g)
  BY <1>1, <1>2 DEF Finished
<1>4. PICK f \in F : f.kind = "part" /\ f.of = step /\ f.seq = Boundaries(F)[step]
  BY <1>2, <1>3, BoundaryFacts
<1>5. Finished(F, f)
  BY <1>1, <1>4 DEF Finished
<1> QED
  BY <1>4, <1>5

(* _compact drops the disposable frames, and a reader is blocked at a      *)
(* boundary that it has not acquired.                                      *)
LEMMA CompactIs ==
    ASSUME NEW F, NEW low, NEW t, NEW seqs, RingFacts(F, low, t, seqs),
           NEW s \in LoopStates(F, t, seqs), NEW l \in Nat
    PROVE  /\ Compact(s, Boundaries(F), l) = [s EXCEPT !.frames = {f \in s.frames : ~Disposable(F, f, l)}]
           /\ BlockedAt(Boundaries(F), l) <=> Blocked(F, l)
<1>1. s.frames \in SUBSET F /\ \A f \in F : f.seq \in Nat
  <2>1. s.frames \in SUBSET F
    BY StateFacts
  <2> QED
    BY <2>1 DEF RingFacts
<1>2. ASSUME NEW f \in F
      PROVE  (f.kind = "part" /\ f.of \in DOMAIN Boundaries(F) /\ Boundaries(F)[f.of] <= l)
                <=> Disposable(F, f, l)
  <2>1. ASSUME Disposable(F, f, l)
        PROVE  f.kind = "part" /\ f.of \in DOMAIN Boundaries(F) /\ Boundaries(F)[f.of] <= l
    <3>1. Finished(F, f) /\ f.kind = "part"
      BY <2>1 DEF Disposable, Finished
    <3>2. PICK g \in F : g.kind = "part" /\ g.of = f.of /\ g.seq = Boundaries(F)[f.of]
      BY <3>1, BoundaryFacts
    <3>3. g.seq <= l
      BY <2>1, <3>2 DEF Disposable
    <3> QED
      BY <3>1, <3>2, <3>3, BoundaryFacts
  <2>2. ASSUME f.kind = "part", f.of \in DOMAIN Boundaries(F), Boundaries(F)[f.of] <= l
        PROVE  Disposable(F, f, l)
    <3>1. PICK h \in F : h.of = f.of /\ Finished(F, h) /\ h.seq = Boundaries(F)[f.of]
      BY <2>2, BoundaryIsFinished
    <3>2. Finished(F, f)
      BY <2>2, <3>1 DEF Finished
    <3>3. \A g \in F : g.kind = "part" /\ g.of = f.of => g.seq <= Boundaries(F)[f.of]
      BY <3>2, BoundaryFacts
    <3>4. \A g \in F : g.kind = "part" /\ g.of = f.of => g.seq <= l
      BY <1>1, <2>2, <3>1, <3>3
    <3> QED
      BY <3>2, <3>4 DEF Disposable
  <2> QED
    BY <2>1, <2>2
<1>3. Compact(s, Boundaries(F), l) = [s EXCEPT !.frames = {f \in s.frames : ~Disposable(F, f, l)}]
  <2>1. {f \in s.frames : ~(f.kind = "part" /\ f.of \in DOMAIN Boundaries(F) /\ Boundaries(F)[f.of] <= l)}
        = {f \in s.frames : ~Disposable(F, f, l)}
    BY <1>1, <1>2
  <2> QED
    BY <2>1 DEF Compact
<1>4. ASSUME BlockedAt(Boundaries(F), l) PROVE Blocked(F, l)
  <2>1. PICK step \in DOMAIN Boundaries(F) : Boundaries(F)[step] > l
    BY <1>4 DEF BlockedAt
  <2>2. PICK f \in F : Finished(F, f) /\ f.seq = Boundaries(F)[step]
    BY <2>1, BoundaryIsFinished
  <2> QED
    BY <2>1, <2>2 DEF Blocked, Unread
<1>5. ASSUME Blocked(F, l) PROVE BlockedAt(Boundaries(F), l)
  <2>1. PICK f \in F : Finished(F, f) /\ f.seq > l
    BY <1>5 DEF Blocked, Unread
  <2>2. f.kind = "part" /\ f.of \in DOMAIN Boundaries(F) /\ f.seq <= Boundaries(F)[f.of]
    BY <2>1, BoundaryFacts DEF Finished
  <2>3. \E g \in F : g.seq = Boundaries(F)[f.of]
    BY <2>1, BoundaryFacts
  <2>4. Boundaries(F)[f.of] > l
    BY <1>1, <2>1, <2>2, <2>3
  <2> QED
    BY <2>2, <2>4 DEF BlockedAt
<1> QED
  BY <1>3, <1>4, <1>5

(* What is left of F when the readers below l have been passed.            *)
Base(F, seqs, l) == {f \in Compacted(F, l) : \A k \in seqs : k < l => f.seq > k}

(* The readers below l had to be passed.                                   *)
Slow(F, seqs, l) == \A k \in seqs : k < l => ~Fits(F, k) /\ Blocked(F, k)

(* The state of a loop at level l: the frames above the floor are left and *)
(* the readers that need no other; the floor is where it was, or at a      *)
(* frame that was evicted, the newest that a passed reader had acquired    *)
(* included; and it rose past no frame that there was room for.            *)
Going(F, low, t, seqs, l, s) ==
    /\ s.frames = {f \in Base(F, seqs, l) : f.seq > s.floor}
    /\ s.readers = {k \in seqs : l <= k /\ s.floor <= k}
    /\ low <= s.floor
    /\ \/ s.floor = low
       \/ \E f \in F, k \in seqs \cup {t} :
             f.seq = s.floor /\ k <= l /\ ~Disposable(F, f, k) /\ (k < l => f.seq <= k)
    /\ \A f \in F, k \in seqs :
          k < l /\ f.seq <= k /\ ~Disposable(F, f, k) => f.seq <= s.floor
    /\ \/ \A f \in Base(F, seqs, l) : f.seq > s.floor
       \/ Cardinality(s.frames) >= Limit

(* The states of the first loop, whose level is that of its readers.       *)
Consuming(F, low, t, seqs) ==
    {s \in LoopStates(F, t, seqs) :
        /\ Slow(F, seqs, ReadFloor(s, t))
        /\ Going(F, low, t, seqs, ReadFloor(s, t), s)
        /\ s.floor <= ReadFloor(s, t)}

(* Evicting the oldest frame, and the readers that needed it.              *)
LEMMA EvictKeeps ==
    ASSUME NEW F, NEW low, NEW t, NEW seqs, RingFacts(F, low, t, seqs),
           NEW s \in LoopStates(F, t, seqs), OverLimit(s),
           NEW l \in seqs \cup {t}, Going(F, low, t, seqs, l, s),
           NEW x, x.frames = s.frames \ {First(s)}, x.floor = First(s).seq,
           x.readers = {k \in s.readers : x.floor <= k}
    PROVE  /\ x.frames \in SUBSET F /\ x.floor \in 0 .. t /\ x.readers \in SUBSET seqs
           /\ Going(F, low, t, seqs, l, x)
           /\ MaxTurns(x) < MaxTurns(s)
<1> DEFINE f == First(s)
           B == Base(F, seqs, l)
<1>1. f \in s.frames /\ \A g \in s.frames : f.seq <= g.seq
  BY FirstFacts
<1> HIDE DEF f
<1>2. /\ s.frames \in SUBSET F /\ s.readers \in SUBSET seqs /\ s.floor \in Nat
      /\ IsFiniteSet(s.frames) /\ IsFiniteSet(s.readers)
      /\ Cardinality(s.frames) \in Nat /\ Cardinality(s.readers) \in Nat
  BY StateFacts
<1>3. /\ \A g \in F : g.seq \in Nat /\ g.seq <= t
      /\ \A g, h \in F : g.seq = h.seq => g = h
      /\ \A k \in seqs : k \in Nat
      /\ low \in Nat /\ t \in Nat
  BY DEF RingFacts
<1>4. /\ s.frames = {g \in B : g.seq > s.floor}
      /\ s.readers = {k \in seqs : l <= k /\ s.floor <= k}
      /\ low <= s.floor
  BY DEF Going
<1>5. B \subseteq F /\ \A g \in B : ~Disposable(F, g, l)
  BY DEF Base, Compacted
<1> HIDE DEF B
<1>6. f \in F /\ f \in B /\ f.seq \in Nat /\ f.seq <= t /\ s.floor < f.seq
  BY <1>1, <1>2, <1>3, <1>4
<1>7. x.frames = s.frames \ {f} /\ x.floor = f.seq
  BY DEF f
<1>8. x.frames \in SUBSET F /\ x.floor \in 0 .. t /\ x.readers \in SUBSET seqs
  BY <1>2, <1>3, <1>6, <1>7
<1>9. x.frames = {g \in B : g.seq > x.floor}
  <2>1. ASSUME NEW g \in x.frames PROVE g \in B /\ g.seq > x.floor
    <3>1. g \in s.frames /\ g # f /\ g \in F /\ f.seq <= g.seq
      BY <1>1, <1>2, <1>7, <2>1
    <3>2. g.seq # f.seq /\ g.seq \in Nat
      BY <1>3, <1>6, <3>1
    <3> QED
      BY <1>4, <1>6, <1>7, <3>1, <3>2
  <2>2. ASSUME NEW g \in B, g.seq > x.floor PROVE g \in x.frames
    <3>1. g.seq \in Nat /\ g.seq > f.seq /\ g # f
      BY <1>3, <1>5, <1>6, <1>7, <2>2
    <3>2. g.seq > s.floor
      BY <1>2, <1>6, <3>1
    <3> QED
      BY <1>4, <1>7, <3>1, <3>2
  <2> QED
    BY <2>1, <2>2
<1>10. x.readers = {k \in seqs : l <= k /\ x.floor <= k}
  <2>1. \A k \in seqs : x.floor <= k => s.floor <= k
    BY <1>2, <1>3, <1>6, <1>7
  <2> QED
    BY <1>4, <2>1
<1>11. low <= x.floor
  BY <1>2, <1>3, <1>4, <1>6, <1>7
<1>12. \E g \in F, k \in seqs \cup {t} :
          g.seq = x.floor /\ k <= l /\ ~Disposable(F, g, k) /\ (k < l => g.seq <= k)
  <2>1. l <= l /\ ~(l < l)
    BY <1>3
  <2> QED
    BY <2>1, <1>5, <1>6, <1>7
<1>13. \A g \in F, k \in seqs :
          k < l /\ g.seq <= k /\ ~Disposable(F, g, k) => g.seq <= x.floor
  <2>1. \A g \in F, k \in seqs :
           k < l /\ g.seq <= k /\ ~Disposable(F, g, k) => g.seq <= s.floor
    BY DEF Going
  <2>2. \A g \in F : g.seq <= s.floor => g.seq <= x.floor
    BY <1>2, <1>3, <1>6, <1>7
  <2> QED
    BY <2>1, <2>2
<1>14. Cardinality(x.frames) = Cardinality(s.frames) - 1
  <2>1. Cardinality(s.frames \ {f}) = Cardinality(s.frames) - 1
    BY ONLY <1>1, <1>2, FS_RemoveElement
  <2> QED
    BY ONLY <2>1, <1>7
<1>15. Cardinality(x.frames) >= Limit
  BY <1>2, <1>14, LimitAssumption DEF OverLimit
<1>16. Cardinality(x.readers) <= Cardinality(s.readers) /\ Cardinality(x.readers) \in Nat
  <2>1. x.readers \in SUBSET s.readers
    OBVIOUS
  <2>2. IsFiniteSet(x.readers)
    BY <1>2, <2>1, FS_Subset
  <2> QED
    BY <1>2, <2>1, <2>2, FS_Subset, FS_CardinalityType
<1>17. MaxTurns(x) < MaxTurns(s)
  BY <1>2, <1>14, <1>16 DEF MaxTurns
<1>18. Going(F, low, t, seqs, l, x)
  BY <1>9, <1>10, <1>11, <1>12, <1>13, <1>15 DEF Going, B
<1> QED
  BY <1>8, <1>17, <1>18

(* Dropping the slowest readers, at a boundary they have not acquired.     *)
LEMMA DropKeeps ==
    ASSUME NEW F, NEW low, NEW t, NEW seqs, RingFacts(F, low, t, seqs),
           NEW s \in Consuming(F, low, t, seqs), OverLimit(s),
           ~(First(s).seq <= ReadFloor(s, t)), Blocked(F, ReadFloor(s, t))
    PROVE  LET x == DropSlowest(s, Boundaries(F), t)
           IN  x \in Consuming(F, low, t, seqs) /\ MaxTurns(x) < MaxTurns(s)
<1> DEFINE l == ReadFloor(s, t)
           faster == [s EXCEPT !.readers = s.readers \ {l}]
           m == ReadFloor(faster, t)
           x == DropSlowest(s, Boundaries(F), t)
<1>1. s \in LoopStates(F, t, seqs) /\ Slow(F, seqs, l) /\ Going(F, low, t, seqs, l, s)
      /\ s.floor <= l
  BY DEF Consuming
<1>2. /\ s.frames \in SUBSET F /\ s.readers \in SUBSET seqs /\ s.floor \in Nat
      /\ IsFiniteSet(s.frames) /\ IsFiniteSet(s.readers) /\ s.floor \in 0 .. t
      /\ Cardinality(s.frames) \in Nat /\ Cardinality(s.readers) \in Nat
  BY <1>1, StateFacts
<1>3. /\ \A g \in F : g.seq \in Nat /\ g.seq <= t
      /\ \A k \in seqs : k \in Nat
      /\ low \in Nat /\ t \in Nat
  BY DEF RingFacts
<1>4. First(s) \in s.frames /\ \A g \in s.frames : First(s).seq <= g.seq
  BY <1>1, FirstFacts
<1>5. /\ l \in seqs \cup {t} /\ l \in Nat /\ l <= t
      /\ \A k \in s.readers : l <= k
      /\ s.readers = {} => l = t
      /\ s.readers # {} => l \in s.readers
  BY <1>1, ReadFloorFacts
<1>6. \A g \in s.frames : g.seq > l
  BY <1>2, <1>3, <1>4, <1>5
<1>7. l \in s.readers
  <2>1. First(s).seq <= t /\ First(s).seq > l /\ First(s).seq \in Nat
    BY <1>2, <1>3, <1>4, <1>6
  <2>2. l # t
    BY <1>3, <1>5, <2>1
  <2> QED
    BY <1>5, <2>2
<1> HIDE DEF l
<1>8. faster \in LoopStates(F, t, seqs) /\ faster.readers = s.readers \ {l}
      /\ faster.frames = s.frames /\ faster.floor = s.floor
  BY <1>1 DEF LoopStates
<1> HIDE DEF faster
<1>9. x = [faster EXCEPT !.frames = {f \in s.frames : ~Disposable(F, f, m)}] /\ m \in Nat
  <2>1. m \in Nat
    BY <1>8, ReadFloorFacts
  <2>2. x = Compact(faster, Boundaries(F), m)
    BY DEF DropSlowest, l, faster
  <2> QED
    BY <1>8, <2>1, <2>2, CompactIs
<1>10. /\ m \in seqs \cup {t} /\ m \in Nat /\ m <= t
       /\ \A k \in s.readers \ {l} : m <= k
       /\ s.readers \ {l} = {} => m = t
       /\ s.readers \ {l} # {} => m \in s.readers \ {l}
  <2>1. /\ m \in seqs \cup {t} /\ m \in Nat /\ m <= t
        /\ \A k \in faster.readers : m <= k
        /\ faster.readers = {} => m = t
        /\ faster.readers # {} => m \in faster.readers
    BY <1>8, ReadFloorFacts
  <2> QED
    BY <1>8, <2>1
<1>11. /\ x.frames = {f \in s.frames : ~Disposable(F, f, m)}
       /\ x.readers = s.readers \ {l} /\ x.floor = s.floor
       /\ x \in LoopStates(F, t, seqs)
  BY <1>2, <1>8, <1>9 DEF LoopStates
<1>12. ReadFloor(x, t) = m
  BY <1>8, <1>11 DEF ReadFloor, m
<1> HIDE DEF m, x
<1>13. l < m
  <2>1. CASE s.readers \ {l} = {}
    <3>1. m = t
      BY <1>10, <2>1
    <3>2. First(s).seq <= t /\ First(s).seq > l /\ First(s).seq \in Nat
      BY <1>2, <1>3, <1>4, <1>6
    <3> QED
      BY <3>1, <3>2, <1>3, <1>5
  <2>2. CASE s.readers \ {l} # {}
    <3>1. m \in s.readers /\ m # l /\ l <= m
      BY <1>5, <1>10, <2>2
    <3> QED
      BY <3>1, <1>5, <1>10
  <2> QED
    BY <2>1, <2>2
<1>14. /\ s.frames = {f \in Base(F, seqs, l) : f.seq > s.floor}
       /\ s.readers = {k \in seqs : l <= k /\ s.floor <= k}
       /\ low <= s.floor
  BY <1>1 DEF Going
<1>15. ASSUME NEW k \in seqs PROVE k < m <=> k < l \/ k = l
  <2>1. k \in Nat
    BY <1>3
  <2>2. ASSUME k < m, ~(k < l), k # l PROVE FALSE
    <3>1. l <= k /\ s.floor <= k
      BY <1>1, <1>2, <1>5, <2>1, <2>2 DEF l
    <3>2. k \in s.readers \ {l}
      BY <1>14, <2>2, <3>1
    <3> QED
      BY <1>10, <2>1, <2>2, <3>2
  <2> QED
    BY <1>5, <1>10, <1>13, <2>1, <2>2
<1>16. \A f \in F : Disposable(F, f, l) => Disposable(F, f, m)
  <2>1. l <= m
    BY <1>5, <1>10, <1>13
  <2> QED
    BY <1>5, <1>10, <2>1, DisposableRises
<1>17. \A f \in F, k \in seqs : k < l /\ Disposable(F, f, k) => Disposable(F, f, l)
  <2>1. \A k \in seqs : k < l => k <= l /\ k \in Nat
    BY <1>3, <1>5
  <2> QED
    BY <1>5, <2>1, DisposableRises
<1>18. Slow(F, seqs, m)
  <2>1. ~Fits(F, l)
    <3>1. s.frames \subseteq Unread(Compacted(F, l), l)
      BY <1>6, <1>14 DEF Base, Unread
    <3>2. IsFiniteSet(Unread(Compacted(F, l), l))
      <4>1. Unread(Compacted(F, l), l) \in SUBSET F /\ IsFiniteSet(F)
        BY DEF Unread, Compacted, RingFacts
      <4> QED
        BY <4>1, FS_Subset
    <3>3. /\ Cardinality(s.frames) <= Cardinality(Unread(Compacted(F, l), l))
          /\ Cardinality(Unread(Compacted(F, l), l)) \in Nat
      BY <3>1, <3>2, FS_Subset, FS_CardinalityType
    <3> QED
      BY <1>2, <3>3, LimitAssumption DEF Fits, OverLimit
  <2>2. Blocked(F, l)
    BY DEF l
  <2> QED
    BY <1>1, <1>15, <2>1, <2>2 DEF Slow, l
<1>19. Going(F, low, t, seqs, m, x)
  <2>1. x.frames = {f \in Base(F, seqs, m) : f.seq > x.floor}
    <3>1. ASSUME NEW f \in x.frames PROVE f \in Base(F, seqs, m) /\ f.seq > x.floor
      <4>1. f \in s.frames /\ f \in F /\ ~Disposable(F, f, m) /\ f.seq > l
        BY <1>2, <1>6, <1>11
      <4>2. \A k \in seqs : k < l => f.seq > k
        BY <1>14, <4>1 DEF Base
      <4>3. \A k \in seqs : k < m => f.seq > k
        BY <1>15, <4>1, <4>2
      <4> QED
        BY <1>11, <1>14, <4>1, <4>3 DEF Base, Compacted
    <3>2. ASSUME NEW f \in Base(F, seqs, m), f.seq > x.floor PROVE f \in x.frames
      <4>1. f \in F /\ ~Disposable(F, f, m) /\ \A k \in seqs : k < m => f.seq > k
        BY DEF Base, Compacted
      <4>2. ~Disposable(F, f, l) /\ \A k \in seqs : k < l => f.seq > k
        BY <1>15, <1>16, <4>1
      <4>3. f \in s.frames
        BY <1>11, <1>14, <3>2, <4>1, <4>2 DEF Base, Compacted
      <4> QED
        BY <1>11, <4>1, <4>3
    <3> QED
      BY <3>1, <3>2
  <2>2. x.readers = {k \in seqs : m <= k /\ x.floor <= k}
    <3>1. ASSUME NEW k \in x.readers PROVE k \in seqs /\ m <= k /\ x.floor <= k
      BY <1>10, <1>11, <1>14
    <3>2. ASSUME NEW k \in seqs, m <= k, x.floor <= k PROVE k \in x.readers
      <4>1. l <= k /\ k # l
        <5>1. k \in Nat /\ l \in Nat /\ m \in Nat /\ l < m /\ m <= k
          BY <1>3, <1>5, <1>10, <1>13, <3>2
        <5> QED
          BY ONLY <5>1
      <4> QED
        BY <1>11, <1>14, <3>2, <4>1
    <3> QED
      BY <3>1, <3>2
  <2>3. low <= x.floor
    BY <1>11, <1>14
  <2>4. \/ x.floor = low
        \/ \E f \in F, k \in seqs \cup {t} :
              f.seq = x.floor /\ k <= m /\ ~Disposable(F, f, k) /\ (k < m => f.seq <= k)
    <3>1. CASE s.floor = low
      BY <1>11, <3>1
    <3>2. CASE s.floor # low
      <4>1. PICK f \in F, k \in seqs \cup {t} :
                f.seq = s.floor /\ k <= l /\ ~Disposable(F, f, k) /\ (k < l => f.seq <= k)
        BY <1>1, <3>2 DEF Going
      <4>2. k \in Nat /\ k <= m
        <5>1. k \in Nat
          BY <1>3
        <5>2. l \in Nat /\ m \in Nat /\ l < m /\ k <= l
          BY <1>5, <1>10, <1>13, <4>1
        <5> QED
          BY ONLY <5>1, <5>2
      <4>3. f.seq <= k
        <5>1. CASE k < l
          BY <4>1, <5>1
        <5>2. CASE k = l
          BY <1>1, <4>1, <5>2 DEF l
        <5> QED
          BY <1>5, <4>1, <4>2, <5>1, <5>2
      <4> QED
        BY <1>11, <4>1, <4>2, <4>3
    <3> QED
      BY <3>1, <3>2
  <2>5. ASSUME NEW f \in F, NEW k \in seqs, k < m, f.seq <= k, ~Disposable(F, f, k)
        PROVE  f.seq <= x.floor
    <3>1. \A g \in F, j \in seqs :
              j < l /\ g.seq <= j /\ ~Disposable(F, g, j) => g.seq <= s.floor
      BY <1>1 DEF Going
    <3>2. CASE k < l
      BY <1>11, <2>5, <3>1, <3>2
    <3>3. CASE k = l
      <4>1. CASE \E j \in seqs : j < l /\ f.seq <= j
        <5>1. PICK j \in seqs : j < l /\ f.seq <= j
          BY <4>1
        <5>2. ~Disposable(F, f, j)
          BY <1>17, <2>5, <3>3, <5>1
        <5> QED
          BY <1>11, <3>1, <5>1, <5>2
      <4>2. CASE ~\E j \in seqs : j < l /\ f.seq <= j
        <5>1. \A j \in seqs : j < l => f.seq > j
          BY <1>3, <4>2
        <5>2. f \in Base(F, seqs, l)
          BY <2>5, <3>3, <5>1 DEF Base, Compacted
        <5>3. ~(f.seq > l)
          BY <1>3, <1>5, <2>5, <3>3
        <5>4. ~(f.seq > s.floor)
          BY <1>6, <1>14, <5>2, <5>3
        <5> QED
          BY <1>2, <1>3, <1>11, <5>4
      <4> QED
        BY <4>1, <4>2
    <3> QED
      BY <1>15, <2>5, <3>2, <3>3
  <2>6. \A f \in Base(F, seqs, m) : f.seq > x.floor
    <3> SUFFICES ASSUME NEW f \in Base(F, seqs, m) PROVE f.seq > x.floor
      OBVIOUS
    <3>1. f \in F /\ \A k \in seqs : k < m => f.seq > k
      BY DEF Base, Compacted
    <3>2. l \in seqs
      BY <1>2, <1>7
    <3>3. f.seq > l
      BY <1>13, <3>1, <3>2
    <3>4. s.floor <= l
      BY <1>1 DEF l
    <3> QED
      BY <1>2, <1>3, <1>5, <1>11, <3>1, <3>3, <3>4
  <2> QED
    BY <2>1, <2>2, <2>3, <2>4, <2>5, <2>6 DEF Going
<1>20. x.floor <= m
  BY <1>1, <1>2, <1>5, <1>10, <1>11, <1>13 DEF l
<1>21. x \in Consuming(F, low, t, seqs)
  BY <1>11, <1>12, <1>18, <1>19, <1>20 DEF Consuming
<1>22. MaxTurns(x) < MaxTurns(s)
  <2>1. Cardinality(s.readers \ {l}) = Cardinality(s.readers) - 1
    BY ONLY <1>2, <1>7, FS_RemoveElement
  <2>2. Cardinality(x.readers) = Cardinality(s.readers) - 1
    BY ONLY <2>1, <1>11
  <2>3. Cardinality(x.frames) <= Cardinality(s.frames) /\ Cardinality(x.frames) \in Nat
    <3>1. x.frames \in SUBSET s.frames
      BY <1>11
    <3>2. IsFiniteSet(x.frames)
      BY <1>2, <3>1, FS_Subset
    <3> QED
      BY <1>2, <3>1, <3>2, FS_Subset, FS_CardinalityType
  <2> QED
    BY <1>2, <2>2, <2>3 DEF MaxTurns
<1> QED
  BY <1>21, <1>22 DEF x

(* A turn of the first loop stays in it, and changes nothing or makes the  *)
(* state smaller.                                                          *)
LEMMA ConsumedTurnKeeps ==
    ASSUME NEW F, NEW low, NEW t, NEW seqs, RingFacts(F, low, t, seqs),
           NEW s \in Consuming(F, low, t, seqs)
    PROVE  LET x == ConsumedTurn(s, Boundaries(F), t)
           IN  /\ x \in Consuming(F, low, t, seqs)
               /\ x = s \/ MaxTurns(x) < MaxTurns(s)
<1> DEFINE l == ReadFloor(s, t)
           x == ConsumedTurn(s, Boundaries(F), t)
<1>1. s \in LoopStates(F, t, seqs) /\ Slow(F, seqs, l) /\ Going(F, low, t, seqs, l, s)
      /\ s.floor <= l
  BY DEF Consuming
<1>2. l \in seqs \cup {t} /\ l \in Nat /\ \A k \in s.readers : l <= k
  BY <1>1, ReadFloorFacts
<1>3. CASE ~OverLimit(s)
  BY <1>3 DEF ConsumedTurn
<1>4. CASE OverLimit(s) /\ First(s).seq <= l
  <2>1. x = EvictFirst(s)
    BY <1>4 DEF ConsumedTurn
  <2>2. s.frames \in SUBSET F /\ s.readers \in SUBSET seqs /\ s.floor \in 0 .. t
    BY <1>1, StateFacts
  <2>3. /\ x.frames = s.frames \ {First(s)} /\ x.floor = First(s).seq
        /\ x.readers = s.readers
    BY <1>1, <2>1 DEF EvictFirst, LoopStates
  <2>a. x = [frames |-> x.frames, floor |-> x.floor, readers |-> x.readers]
    BY <1>1, <2>1 DEF EvictFirst, LoopStates
  <2> HIDE DEF x
  <2>4. x.readers = {k \in s.readers : x.floor <= k}
    <3>1. First(s) \in F
      BY <1>1, <1>4, <2>2, FirstFacts
    <3>2. First(s).seq \in Nat /\ \A k \in s.readers : k \in Nat
      <4>1. \A k \in seqs : k \in Nat
        BY DEF RingFacts
      <4> QED
        BY <2>2, <3>1, <4>1 DEF RingFacts
    <3>3. \A k \in s.readers : First(s).seq <= k
      BY <1>2, <1>4, <3>2
    <3> QED
      BY <2>3, <3>3
  <2> HIDE DEF l
  <2>5. /\ x.frames \in SUBSET F /\ x.floor \in 0 .. t /\ x.readers \in SUBSET seqs
        /\ Going(F, low, t, seqs, l, x)
        /\ MaxTurns(x) < MaxTurns(s)
    BY <1>1, <1>2, <1>4, <2>3, <2>4, EvictKeeps
  <2>6. x \in LoopStates(F, t, seqs)
    BY <2>5, <2>a DEF LoopStates
  <2>7. ReadFloor(x, t) = l
    BY <2>3 DEF ReadFloor, l
  <2>8. x \in Consuming(F, low, t, seqs)
    BY <1>1, <1>4, <2>3, <2>5, <2>6, <2>7 DEF Consuming
  <2> QED
    BY <2>5, <2>8 DEF x
<1>5. CASE OverLimit(s) /\ ~(First(s).seq <= l) /\ Blocked(F, l)
  <2>1. BlockedAt(Boundaries(F), l)
    BY <1>1, <1>2, <1>5, CompactIs
  <2>2. x = DropSlowest(s, Boundaries(F), t)
    BY <1>5, <2>1 DEF ConsumedTurn
  <2> QED
    BY <1>5, <2>2, DropKeeps
<1>6. CASE OverLimit(s) /\ ~(First(s).seq <= l) /\ ~Blocked(F, l)
  <2>1. ~BlockedAt(Boundaries(F), l)
    BY <1>1, <1>2, <1>6, CompactIs
  <2> QED
    BY <1>6, <2>1 DEF ConsumedTurn
<1> QED
  BY <1>3, <1>4, <1>5, <1>6

(* Where the first loop ends, the level is the one that EventRing names.   *)
LEMMA ConsumedStops ==
    ASSUME NEW F, NEW low, NEW t, NEW seqs, RingFacts(F, low, t, seqs),
           NEW s \in Consuming(F, low, t, seqs),
           ConsumedTurn(s, Boundaries(F), t) = s
    PROVE  ReadFloor(s, t) = StopLevel(F, t, seqs)
<1> DEFINE l == ReadFloor(s, t)
<1>1. s \in LoopStates(F, t, seqs) /\ Slow(F, seqs, l) /\ Going(F, low, t, seqs, l, s)
      /\ s.floor <= l
  BY DEF Consuming
<1>2. l \in seqs \cup {t} /\ l \in Nat /\ l <= t
  BY <1>1, ReadFloorFacts
<1>3. s.frames \in SUBSET F /\ s.floor \in Nat /\ IsFiniteSet(s.frames)
      /\ Cardinality(s.frames) \in Nat /\ MaxTurns(s) \in Nat
  BY <1>1, StateFacts
<1>4. Fits(F, l) \/ ~Blocked(F, l)
  <2>1. CASE ~OverLimit(s)
    <3>1. Unread(Compacted(F, l), l) \subseteq s.frames
      <4> SUFFICES ASSUME NEW f \in F, ~Disposable(F, f, l), f.seq > l
                   PROVE  f \in s.frames
        BY DEF Unread, Compacted
      <4>1. f.seq \in Nat /\ \A k \in seqs : k \in Nat
        BY DEF RingFacts
      <4>2. f \in Base(F, seqs, l)
        BY <1>2, <4>1 DEF Base, Compacted
      <4>3. f.seq > s.floor
        BY <1>1, <1>2, <1>3, <4>1
      <4> QED
        BY <1>1, <4>2, <4>3 DEF Going
    <3>2. Cardinality(Unread(Compacted(F, l), l)) <= Cardinality(s.frames)
          /\ Cardinality(Unread(Compacted(F, l), l)) \in Nat
      <4>1. IsFiniteSet(Unread(Compacted(F, l), l))
        BY <1>3, <3>1, FS_Subset
      <4> QED
        BY <1>3, <3>1, <4>1, FS_Subset, FS_CardinalityType
    <3> QED
      BY <1>3, <2>1, <3>2, LimitAssumption DEF Fits, OverLimit
  <2>2. CASE OverLimit(s) /\ First(s).seq <= l
    <3>1. ConsumedTurn(s, Boundaries(F), t) = EvictFirst(s)
      BY <2>2 DEF ConsumedTurn
    <3>2. EvictFirst(s).frames = s.frames \ {First(s)}
      BY <1>1 DEF EvictFirst, LoopStates
    <3>3. First(s) \in s.frames
      BY <1>1, <2>2, FirstFacts
    <3> QED
      BY <3>1, <3>2, <3>3
  <2>3. CASE OverLimit(s) /\ ~(First(s).seq <= l) /\ Blocked(F, l)
    <3>1. BlockedAt(Boundaries(F), l)
      BY <1>1, <1>2, <2>3, CompactIs
    <3>2. ConsumedTurn(s, Boundaries(F), t) = DropSlowest(s, Boundaries(F), t)
      BY <2>3, <3>1 DEF ConsumedTurn
    <3>3. MaxTurns(s) < MaxTurns(s)
      BY <2>3, <3>2, DropKeeps
    <3> QED
      BY <1>3, <3>3
  <2> QED
    BY <2>1, <2>2, <2>3
<1>5. \A k \in seqs \cup {t} : k < l => ~(Fits(F, k) \/ ~Blocked(F, k))
  <2>1. ~(t < l)
    BY <1>2 DEF RingFacts
  <2> QED
    BY <1>1, <2>1 DEF Slow
<1> DEFINE S == {k \in seqs \cup {t} : Fits(F, k) \/ ~Blocked(F, k)}
<1>6. S \in SUBSET Nat /\ l \in S
  <2>1. t \in Nat /\ \A k \in seqs : k \in Nat
    BY DEF RingFacts
  <2>2. S \subseteq seqs \cup {t}
    OBVIOUS
  <2>3. l \in S
    BY <1>2, <1>4
  <2> HIDE DEF S
  <2> QED
    BY <2>1, <2>2, <2>3
<1>7. Least(S) \in S /\ \A y \in S : Least(S) <= y
  <2> HIDE DEF S
  <2> QED
    BY <1>6, LeastElement
<1>8. Least(S) = l
  <2>1. ~(Least(S) < l)
    BY <1>5, <1>7
  <2>2. Least(S) <= l /\ Least(S) \in Nat
    BY <1>6, <1>7
  <2> QED
    BY <1>2, <2>1, <2>2
<1> QED
  BY <1>8 DEF StopLevel

(* The state in which the first loop begins.                               *)
LEMMA ReclaimBegins ==
    ASSUME NEW F, NEW low, NEW t, NEW seqs, RingFacts(F, low, t, seqs),
           \A k \in seqs : low <= k,
           NEW s \in LoopStates(F, t, seqs), s.frames = F, s.floor = low, s.readers = seqs
    PROVE  Compact(s, Boundaries(F), ReadFloor(s, t)) \in Consuming(F, low, t, seqs)
<1> DEFINE l == ReadFloor(s, t)
           x == Compact(s, Boundaries(F), l)
<1>1. low \in Nat /\ t \in Nat /\ low <= t /\ \A f \in F : f.seq \in Nat /\ low < f.seq
  BY DEF RingFacts
<1>2. s \in LoopStates(F, t, seqs)
  OBVIOUS
<1>3. /\ l \in seqs \cup {t} /\ l \in Nat /\ l <= t
      /\ \A k \in s.readers : l <= k
  BY <1>2, ReadFloorFacts
<1> HIDE DEF l
<1>4. x = [s EXCEPT !.frames = {f \in s.frames : ~Disposable(F, f, l)}]
  <2>1. l \in Nat
    BY <1>3
  <2> QED
    BY <1>2, <2>1, CompactIs
<1>5. /\ x.frames = {f \in F : ~Disposable(F, f, l)} /\ x.floor = low /\ x.readers = seqs
      /\ x \in LoopStates(F, t, seqs)
  BY <1>1, <1>4 DEF LoopStates
<1>6. ReadFloor(x, t) = l
  BY <1>5 DEF ReadFloor, l
<1>7. \A k \in seqs : l <= k /\ ~(k < l)
  <2>1. \A k \in seqs : k \in Nat
    BY DEF RingFacts
  <2> QED
    BY <1>3, <2>1
<1> HIDE DEF x
<1>8. Slow(F, seqs, l)
  BY <1>7 DEF Slow
<1>9. \A f \in Base(F, seqs, l) : f.seq > low
  BY <1>1 DEF Base, Compacted
<1>10. x.frames = {f \in Base(F, seqs, l) : f.seq > x.floor}
  BY <1>1, <1>5, <1>7 DEF Base, Compacted
<1>11. x.readers = {k \in seqs : l <= k /\ x.floor <= k}
  BY <1>5, <1>7
<1>12. Going(F, low, t, seqs, l, x)
  <2>1. low <= low
    BY <1>1
  <2> QED
    BY <1>5, <1>7, <1>9, <1>10, <1>11, <2>1 DEF Going
<1>13. low <= l
  BY <1>1, <1>3
<1>14. x \in Consuming(F, low, t, seqs)
  BY <1>5, <1>6, <1>8, <1>12, <1>13 DEF Consuming
<1> QED
  BY <1>14 DEF x, l

(* The states of the second loop.                                          *)
Evicting(F, low, t, seqs) ==
    {s \in LoopStates(F, t, seqs) : Going(F, low, t, seqs, StopLevel(F, t, seqs), s)}

(* A turn of the second loop.                                              *)
LEMMA UnreadTurnKeeps ==
    ASSUME NEW F, NEW low, NEW t, NEW seqs, RingFacts(F, low, t, seqs),
           NEW s \in Evicting(F, low, t, seqs)
    PROVE  /\ UnreadTurn(s) \in Evicting(F, low, t, seqs)
           /\ UnreadTurn(s) = s \/ MaxTurns(UnreadTurn(s)) < MaxTurns(s)
           /\ OverLimit(s) => MaxTurns(UnreadTurn(s)) < MaxTurns(s)
<1> DEFINE l == StopLevel(F, t, seqs)
           x == UnreadTurn(s)
<1>1. s \in LoopStates(F, t, seqs) /\ Going(F, low, t, seqs, l, s)
  BY DEF Evicting
<1>2. l \in seqs \cup {t}
  BY StopLevelFacts
<1>3. CASE ~OverLimit(s)
  BY <1>3 DEF UnreadTurn
<1>4. CASE OverLimit(s)
  <2>1. /\ x.frames = s.frames \ {First(s)} /\ x.floor = First(s).seq
        /\ x.readers = {k \in s.readers : k >= x.floor}
        /\ x = [frames |-> x.frames, floor |-> x.floor, readers |-> x.readers]
    BY <1>1, <1>4 DEF UnreadTurn, EvictFirst, LoopStates
  <2>2. x.readers = {k \in s.readers : x.floor <= k}
    BY <2>1
  <2> HIDE DEF x, l
  <2>3. /\ x.frames \in SUBSET F /\ x.floor \in 0 .. t /\ x.readers \in SUBSET seqs
        /\ Going(F, low, t, seqs, l, x)
        /\ MaxTurns(x) < MaxTurns(s)
    BY <1>1, <1>2, <1>4, <2>1, <2>2, EvictKeeps
  <2>4. x \in LoopStates(F, t, seqs)
    BY <2>1, <2>3 DEF LoopStates
  <2>5. x \in Evicting(F, low, t, seqs)
    BY <2>3, <2>4 DEF Evicting, l
  <2> QED
    BY <2>3, <2>5 DEF x
<1> QED
  BY <1>3, <1>4

(* What is left when the second loop has ended.                            *)
LEMMA UnreadLeaves ==
    ASSUME NEW F, NEW low, NEW t, NEW seqs, RingFacts(F, low, t, seqs),
           Cardinality(F) > Limit,
           NEW s \in Evicting(F, low, t, seqs), ~OverLimit(s)
    PROVE  /\ s.frames = Reclaimed(F, t, seqs)
           /\ s.floor = RaisedFloor(F, low, t, seqs)
           /\ s.readers = {l \in seqs : ~Overflows(F, low, t, seqs, l)}
<1> DEFINE L == StopLevel(F, t, seqs)
           B == Base(F, seqs, L)
<1>1. s \in LoopStates(F, t, seqs) /\ Going(F, low, t, seqs, L, s)
  BY DEF Evicting
<1>2. s.frames \in SUBSET F /\ s.floor \in Nat /\ IsFiniteSet(s.frames)
      /\ Cardinality(s.frames) \in Nat
  BY <1>1, StateFacts
<1>3. L \in seqs \cup {t} /\ L \in Nat
  BY StopLevelFacts
<1> HIDE DEF L
<1>4. /\ \A f \in F : f.seq \in Nat
      /\ \A k \in seqs : k \in Nat
      /\ IsFiniteSet(F) /\ low \in Nat
  BY DEF RingFacts
<1>5. B \in SUBSET F /\ IsFiniteSet(B)
  <2>1. B \in SUBSET F
    BY DEF Base, Compacted
  <2> QED
    BY <1>4, <2>1, FS_Subset
<1>6. s.frames = {f \in B : f.seq > s.floor}
  BY <1>1 DEF Going
<1>7. Reclaimed(F, t, seqs) = Newest(B, Limit)
  <2>1. B = {f \in Compacted(F, L) : \A k \in Passed(F, t, seqs) : f.seq > k}
    BY DEF Base, Passed, L
  <2>2. ~(Cardinality(F) <= Limit)
    BY <1>4, FS_CardinalityType, LimitAssumption
  <2> HIDE DEF B
  <2> QED
    BY <2>1, <2>2 DEF Reclaimed, L
<1> HIDE DEF B
<1>8. ASSUME NEW f \in B PROVE IsFiniteSet(Unread(B, f.seq)) /\ Cardinality(Unread(B, f.seq)) \in Nat
  <2>1. Unread(B, f.seq) \in SUBSET B
    BY DEF Unread
  <2> QED
    BY <1>5, <2>1, FS_Subset, FS_CardinalityType
<1>9. s.frames = Newest(B, Limit)
  <2>1. ASSUME NEW f \in s.frames PROVE f \in Newest(B, Limit)
    <3>1. f \in B /\ f.seq \in Nat /\ f.seq > s.floor
      BY <1>2, <1>4, <1>6
    <3>2. Unread(B, f.seq) \subseteq s.frames \ {f}
      <4>1. \A g \in B : g.seq \in Nat
        BY <1>4, <1>5
      <4> QED
        BY <1>2, <1>6, <3>1, <4>1 DEF Unread
    <3>3. Cardinality(s.frames \ {f}) = Cardinality(s.frames) - 1 /\ IsFiniteSet(s.frames \ {f})
      BY ONLY <1>2, <2>1, FS_RemoveElement
    <3>4. Cardinality(Unread(B, f.seq)) <= Cardinality(s.frames \ {f})
      BY <3>2, <3>3, FS_Subset
    <3>5. Cardinality(Unread(B, f.seq)) < Limit
      BY <1>2, <1>8, <3>1, <3>3, <3>4, LimitAssumption DEF OverLimit
    <3> QED
      BY <3>1, <3>5 DEF Newest
  <2>2. ASSUME NEW f \in Newest(B, Limit) PROVE f \in s.frames
    <3>1. f \in B /\ f \in F /\ f.seq \in Nat /\ Cardinality(Unread(B, f.seq)) < Limit
      BY <1>4, <1>5 DEF Newest
    <3>2. CASE \A g \in B : g.seq > s.floor
      BY <1>6, <3>1, <3>2
    <3>3. CASE Cardinality(s.frames) >= Limit
      <4> SUFFICES ASSUME ~(f.seq > s.floor) PROVE FALSE
        BY <1>6, <3>1
      <4>1. s.frames \subseteq Unread(B, f.seq)
        <5>1. \A g \in B : g.seq \in Nat
          BY <1>4, <1>5
        <5> QED
          BY <1>2, <1>6, <3>1, <5>1 DEF Unread
      <4>2. Cardinality(s.frames) <= Cardinality(Unread(B, f.seq))
        BY <1>8, <3>1, <4>1, FS_Subset
      <4> QED
        BY <1>2, <1>8, <3>1, <3>3, <4>2, LimitAssumption
    <3>4. (\A g \in B : g.seq > s.floor) \/ Cardinality(s.frames) >= Limit
      BY <1>1 DEF Going, B
    <3> QED
      BY <3>2, <3>3, <3>4
  <2> QED
    BY <2>1, <2>2
<1>10. s.frames = Reclaimed(F, t, seqs)
  BY <1>7, <1>9
<1>11. \A f \in Evicted(F, t, seqs) : f.seq <= s.floor
  <2> SUFFICES ASSUME NEW f \in Evicted(F, t, seqs) PROVE f.seq <= s.floor
    OBVIOUS
  <2>1. f \in F /\ f \notin s.frames
    BY <1>10 DEF Evicted
  <2>2. CASE \E k \in Passed(F, t, seqs) : f.seq <= k /\ ~Disposable(F, f, k)
    <3>1. PICK k \in seqs : k < L /\ f.seq <= k /\ ~Disposable(F, f, k)
      BY <2>2 DEF Passed, L
    <3> QED
      BY <1>1, <2>1, <3>1 DEF Going
  <2>3. CASE ~Disposable(F, f, L)
    <3>1. CASE \E k \in seqs : k < L /\ f.seq <= k
      <4>1. PICK k \in seqs : k < L /\ f.seq <= k
        BY <3>1
      <4>2. ~Disposable(F, f, k)
        <5>1. k \in Nat /\ k <= L
          BY <1>3, <1>4, <4>1
        <5> QED
          BY <1>3, <2>1, <2>3, <5>1, DisposableRises
      <4> QED
        BY <1>1, <2>1, <4>1, <4>2 DEF Going
    <3>2. CASE ~\E k \in seqs : k < L /\ f.seq <= k
      <4>1. \A k \in seqs : k < L => f.seq > k
        BY <1>4, <2>1, <3>2
      <4>2. f \in B
        BY <2>1, <2>3, <4>1 DEF B, Base, Compacted
      <4>3. ~(f.seq > s.floor)
        BY <1>6, <2>1, <4>2
      <4> QED
        BY <1>2, <1>4, <2>1, <4>3
    <3> QED
      BY <3>1, <3>2
  <2> QED
    BY <2>2, <2>3 DEF Evicted, L
<1>12. s.floor = low \/ \E f \in Evicted(F, t, seqs) : f.seq = s.floor
  <2> SUFFICES ASSUME s.floor # low
               PROVE  \E f \in Evicted(F, t, seqs) : f.seq = s.floor
    OBVIOUS
  <2>1. PICK f \in F, k \in seqs \cup {t} :
            f.seq = s.floor /\ k <= L /\ ~Disposable(F, f, k) /\ (k < L => f.seq <= k)
    BY <1>1 DEF Going
  <2>2. f \notin Reclaimed(F, t, seqs)
    <3>1. ~(f.seq > s.floor)
      BY <1>2, <2>1
    <3> QED
      BY <1>6, <1>10, <3>1
  <2>3. CASE k = L
    BY <2>1, <2>2, <2>3 DEF Evicted, L
  <2>4. CASE k < L
    <3>1. k \in seqs
      <4>1. L <= t
        BY <1>3, <1>4 DEF RingFacts
      <4> QED
        BY <1>3, <2>1, <2>4, <4>1 DEF RingFacts
    <3>2. k \in Passed(F, t, seqs)
      BY <2>4, <3>1 DEF Passed, L
    <3> QED
      BY <2>1, <2>2, <2>4, <3>2 DEF Evicted
  <2>5. k \in Nat
    BY <1>4 DEF RingFacts
  <2> QED
    BY <1>3, <2>1, <2>3, <2>4, <2>5
<1>13. s.floor = RaisedFloor(F, low, t, seqs)
  <2> DEFINE up == RaisedFloor(F, low, t, seqs)
  <2>1. /\ up \in Nat /\ low <= up
        /\ \A f \in Evicted(F, t, seqs) : f.seq <= up
        /\ up = low \/ \E f \in Evicted(F, t, seqs) : f.seq = up
    BY FloorFacts
  <2> HIDE DEF up
  <2>2. low <= s.floor
    BY <1>1 DEF Going
  <2>3. up <= s.floor
    BY <1>2, <1>4, <1>11, <2>1, <2>2
  <2>4. s.floor <= up
    BY <1>2, <1>4, <1>12, <2>1
  <2>5. s.floor = up
    BY <1>2, <2>1, <2>3, <2>4
  <2> QED
    BY <2>5 DEF up
<1>14. s.readers = {l \in seqs : ~Overflows(F, low, t, seqs, l)}
  <2>1. s.readers = {k \in seqs : L <= k /\ s.floor <= k}
    BY <1>1 DEF Going
  <2>2. ASSUME NEW k \in seqs
        PROVE  (L <= k /\ s.floor <= k) <=> ~Overflows(F, low, t, seqs, k)
    <3>1. k \in Nat
      BY <1>4
    <3> QED
      BY <1>2, <1>3, <1>13, <3>1 DEF Overflows, L
  <2> QED
    BY <2>1, <2>2
<1> QED
  BY <1>10, <1>13, <1>14

(* The loops leave what the operators of EventRing name, whatever ring     *)
(* they are called on (_reclaim, _compact).                                *)
THEOREM LoopsLeaveTheRing ==
    ASSUME NEW F, NEW low, NEW t, NEW seqs, RingFacts(F, low, t, seqs),
           \A k \in seqs : low <= k
    PROVE  AsLooped(F, low, t, seqs)
<1> DEFINE s == [frames |-> F, floor |-> low, readers |-> seqs]
           left == Reclaim(s, t)
<1> HIDE DEF s
<1>1. s = [frames |-> F, floor |-> low, readers |-> seqs]
  BY DEF s
<1>2. s.frames = F /\ s.floor = low /\ s.readers = seqs
  BY <1>1
<1>3. OverLimit(s) <=> Cardinality(F) > Limit
  BY <1>2 DEF OverLimit
<1>4. CASE ~OverLimit(s)
  <2>1. left = s
    BY <1>4 DEF Reclaim
  <2>2. Cardinality(F) <= Limit
    BY <1>3, <1>4, FS_CardinalityType, LimitAssumption DEF RingFacts
  <2>3. Reclaimed(F, t, seqs) = F /\ Evicted(F, t, seqs) = {}
    BY <2>2 DEF Reclaimed, Evicted
  <2>4. RaisedFloor(F, low, t, seqs) = low
    BY <2>3, FloorFacts
  <2>5. \A l \in seqs : ~Overflows(F, low, t, seqs, l)
    BY <1>3, <1>4 DEF Overflows
  <2> QED
    BY <1>2, <2>1, <2>3, <2>4, <2>5 DEF AsLooped, s
<1>5. CASE OverLimit(s)
  <2> DEFINE C == Boundaries(F)
             s1 == Compact(s, C, ReadFloor(s, t))
             s2 == EvictConsumed(s1, C, t)
             s3 == EvictUnread(s2)
  <2>1. left = s3
    BY <1>2, <1>5 DEF Reclaim
  <2>2. s1 \in Consuming(F, low, t, seqs)
    <3>1. s \in LoopStates(F, t, seqs)
      BY <1>1 DEF LoopStates, RingFacts
    <3> QED
      BY <1>2, <3>1, ReclaimBegins
  <2> HIDE DEF s1
  <2>3. s2 \in Consuming(F, low, t, seqs) /\ ConsumedTurn(s2, C, t) = s2
    <3> DEFINE St == Consuming(F, low, t, seqs)
    <3>1. ASSUME NEW x \in St
          PROVE  /\ MaxTurns(x) \in Nat
                 /\ ConsumedTurn(x, C, t) \in St
                 /\ ConsumedTurn(x, C, t) = x \/ MaxTurns(ConsumedTurn(x, C, t)) < MaxTurns(x)
      <4>1. x \in LoopStates(F, t, seqs)
        BY DEF Consuming
      <4>2. MaxTurns(x) \in Nat
        BY <4>1, StateFacts
      <4> QED
        BY <4>2, ConsumedTurnKeeps
    <3> HIDE DEF St, C
    <3>2. s1 \in St
      BY <2>2 DEF St
    <3>3. s2 \in St /\ ConsumedTurn(s2, C, t) = s2
      BY <3>1, <3>2, ConsumedLoop
    <3> QED
      BY <3>3 DEF St
  <2> HIDE DEF s2
  <2>4. s2 \in Evicting(F, low, t, seqs)
    <3>1. ReadFloor(s2, t) = StopLevel(F, t, seqs)
      BY <2>3, ConsumedStops
    <3> QED
      BY <2>3, <3>1 DEF Consuming, Evicting
  <2>5. s3 \in Evicting(F, low, t, seqs) /\ UnreadTurn(s3) = s3
    <3> DEFINE St == Evicting(F, low, t, seqs)
    <3>1. ASSUME NEW x \in St
          PROVE  /\ MaxTurns(x) \in Nat
                 /\ UnreadTurn(x) \in St
                 /\ UnreadTurn(x) = x \/ MaxTurns(UnreadTurn(x)) < MaxTurns(x)
      <4>1. x \in LoopStates(F, t, seqs)
        BY DEF Evicting
      <4>2. MaxTurns(x) \in Nat
        BY <4>1, StateFacts
      <4> QED
        BY <4>2, UnreadTurnKeeps
    <3> HIDE DEF St
    <3>2. s2 \in St
      BY <2>4 DEF St
    <3>3. s3 \in St /\ UnreadTurn(s3) = s3
      BY <3>1, <3>2, UnreadLoop
    <3> QED
      BY <3>3 DEF St
  <2> HIDE DEF s3
  <2>6. ~OverLimit(s3)
    <3>1. s3 \in LoopStates(F, t, seqs)
      BY <2>5 DEF Evicting
    <3>2. MaxTurns(s3) \in Nat
      BY <3>1, StateFacts
    <3>3. ~(MaxTurns(s3) < MaxTurns(s3))
      BY <3>2
    <3> QED
      BY <2>5, <3>3, UnreadTurnKeeps
  <2>7. /\ s3.frames = Reclaimed(F, t, seqs)
        /\ s3.floor = RaisedFloor(F, low, t, seqs)
        /\ s3.readers = {l \in seqs : ~Overflows(F, low, t, seqs, l)}
    BY <1>3, <1>5, <2>5, <2>6, UnreadLeaves
  <2> QED
    BY <2>1, <2>7 DEF AsLooped, s
<1> QED
  BY <1>4, <1>5

(* The calls that LoopsAgree looks at once are such rings.                 *)
LEMMA CallsAreRings ==
    ASSUME NEW F \in Calls(4), NEW seqs \in SUBSET (0 .. 3)
    PROVE  RingFacts(F, 0, 4, seqs) /\ \A k \in seqs : 0 <= k
<1>1. PICK S \in SUBSET (1 .. 3) :
          \E label \in [S \cup {4} -> Labels] :
              F = {Frame(n, label[n][1], label[n][2]) : n \in S \cup {4}}
  <2>1. PICK S \in SUBSET (1 .. 4 - 1) :
            F \in {{Frame(n, label[n][1], label[n][2]) : n \in S \cup {4}} :
                      label \in [S \cup {4} -> Labels]}
    BY DEF Calls
  <2>2. 1 .. 4 - 1 = 1 .. 3
    OBVIOUS
  <2> QED
    BY <2>1, <2>2
<1>2. PICK label \in [S \cup {4} -> Labels] :
          F = {Frame(n, label[n][1], label[n][2]) : n \in S \cup {4}}
  BY <1>1
<1> DEFINE N == S \cup {4}
           at == [n \in N |-> Frame(n, label[n][1], label[n][2])]
<1>3. N \in SUBSET (1 .. 4) /\ IsFiniteSet(N)
  <2>1. N \in SUBSET (1 .. 4)
    BY <1>1
  <2>2. PICK b \in Nat : b = 4
    OBVIOUS
  <2>3. IsFiniteSet(1 .. b)
    BY FS_Interval
  <2>4. N \in SUBSET (1 .. b)
    BY <2>1, <2>2
  <2> QED
    BY <2>1, <2>3, <2>4, FS_Subset
<1>4. F = {at[n] : n \in N}
  BY <1>2
<1>5. \A n \in N : at[n].seq = n
  BY DEF Frame
<1> HIDE DEF at, N
<1>6. IsFiniteSet(F)
  <2>1. DOMAIN at = N /\ at = [n \in N |-> at[n]]
    BY DEF at
  <2>2. at \in Surjection(N, F)
    BY <1>4, <2>1 DEF Surjection
  <2> QED
    BY <1>3, <2>2, FS_Surjection
<1>7. \A f \in F : f.seq \in Nat /\ 0 < f.seq /\ f.seq <= 4
  <2>1. \A n \in N : n \in Nat /\ 0 < n /\ n <= 4
    BY <1>3
  <2> QED
    BY <1>4, <1>5, <2>1
<1>8. \A f, g \in F : f.seq = g.seq => f = g
  BY <1>4, <1>5
<1>9. seqs \in SUBSET (0 .. 4) /\ \A k \in seqs : 0 <= k
  OBVIOUS
<1> QED
  BY <1>6, <1>7, <1>8, <1>9 DEF RingFacts

(* What the loops leave, at every publication.                             *)
LEMMA PublicationIsLooped ==
    ASSUME StreamInv, NEW kind \in {"part", "end", "other"}, NEW s \in Steps,
           Append(Frame(tail + 1, kind, s))
    PROVE  LET frame == Frame(tail + 1, kind, s)
           IN  /\ ring' = Left(frame).frames
               /\ floor' = Left(frame).floor
               /\ {seq[r] : r \in registered'} = Left(frame).readers
<1> DEFINE frame == Frame(tail + 1, kind, s)
           F == ring \cup {frame}
           slow == {r \in registered : Overflows(F, floor, frame.seq, Positions, seq[r])}
<1>1. RingFacts(F, floor, tail + 1, Positions) /\ frame.seq = tail + 1
  BY AppendedRing
<1>2. /\ ring' = Reclaimed(F, frame.seq, Positions)
      /\ floor' = RaisedFloor(F, floor, frame.seq, Positions)
      /\ registered' = registered \ slow
  BY DEF Append
<1>3. Left(frame) = Reclaim([frames |-> F, floor |-> floor, readers |-> Positions], frame.seq)
  BY DEF Left
<1>4. \A k \in Positions : floor <= k
  BY DEF Positions, StreamInv, Retention
<1> HIDE DEF F, frame
<1>5. AsLooped(F, floor, frame.seq, Positions)
  BY <1>1, <1>4, LoopsLeaveTheRing
<1>6. {seq[r] : r \in registered'}
          = {l \in Positions : ~Overflows(F, floor, frame.seq, Positions, l)}
  BY <1>2 DEF Positions
<1> QED
  BY <1>2, <1>3, <1>5, <1>6 DEF AsLooped, frame

(* The closed form of the ring is what the loops of _reclaim compute, on   *)
(* the calls that are looked at once and at every publication.             *)
THEOREM LoopsAgreeAlways == Spec => LoopsAgree
<1> DEFINE Once == \A frames \in Calls(4), seqs \in SUBSET (0 .. 3) : AsLooped(frames, 0, 4, seqs)
           Publishing ==
               \A kind \in {"part", "end", "other"}, s \in Steps :
                   LET frame == Frame(tail + 1, kind, s)
                   IN  Append(frame) =>
                           /\ ring' = Left(frame).frames
                           /\ floor' = Left(frame).floor
                           /\ {seq[r] : r \in registered'} = Left(frame).readers
<1>1. Once
  BY CallsAreRings, LoopsLeaveTheRing
<1>2. StreamInv => Publishing
  BY PublicationIsLooped
<1> HIDE DEF Once, Publishing
<1>3. Spec => (Init => Once) /\ [][Publishing]_vars
  BY <1>1, <1>2, InvHolds, PTL DEF Spec
<1> QED
  BY <1>3 DEF LoopsAgree, Once, Publishing

====
