------------------------- MODULE PushEventsProofs ---------------------------
(* The outbox for every number of job rows, slices, events and faults: its    *)
(* type, the order and the completeness of what the receiver sees, and that   *)
(* no event is left without a job.                                            *)
(*                                                                            *)
(* InOrder is not inductive: a slice sends the least row of a batch it read   *)
(* long ago.  What holds at every step is that a batch has no gap the         *)
(* receiver has not seen (BatchClosed), that an acknowledged row was seen     *)
(* (GotArrived), and that a POST still on its way comes after nothing unseen  *)
(* (LateClosed).                                                              *)
EXTENDS PushEvents, FiniteSetTheorems, WellFoundedInduction, TLAPS

BatchClosed ==
  \A s \in Slices : \A b \in slice[s].batch : \A m \in 1..b :
    m \in slice[s].batch \/ m \in arrived

GotArrived ==
  \A s \in Slices : slice[s] # Idle /\ slice[s].got => Least(slice[s].batch) \in arrived

LateClosed == \A n \in late : \A m \in 1..n : m = n \/ m \in arrived

OutboxInv ==
  /\ TypeOK /\ InOrder /\ NothingLost
  /\ BatchClosed /\ GotArrived /\ LateClosed /\ EveryEventOwned

JobRecs == [state : {"none", "queued", "running", "dead"}, due : BOOLEAN,
            stale : BOOLEAN, lease : Slices \cup {0}, attempts : Nat, strands : Nat]

SliceRecs == [job : JobIds \cup {0}, batch : SUBSET (1..seq),
              full : BOOLEAN, got : BOOLEAN]

(* TypeOK in the parts an action changes.                                     *)
TableOK ==
  /\ seq \in Nat /\ dropped \in Nat /\ faults \in Nat /\ alarm \in BOOLEAN
  /\ rows \subseteq 1..seq /\ late \subseteq 1..seq /\ arrived \subseteq 1..seq

Busy(r) == r.job \in JobIds /\ r.batch # {}

SlicesOK ==
  /\ slice \in [Slices -> SliceRecs]
  /\ \A s \in Slices : slice[s] = Idle \/ Busy(slice[s])

-----------------------------------------------------------------------------
(* Numbers and counting: the least row of a batch, the rows the SELECT takes. *)

(* The row a slice sends next is in its batch, and none is older.             *)
LEMMA LeastOf ==
  ASSUME NEW S \in SUBSET Nat, S # {}
  PROVE  Least(S) \in S /\ \A m \in S : Least(S) <= m
<1> DEFINE R == {ss \in Nat \X Nat : ss[1] < ss[2]}
<1>1. IsWellFoundedOn(R, Nat)
  BY Zenon, NatLessThanWellFounded DEF OpToRel
<1> HIDE DEF R
<1>2. PICK n \in S : \A m \in S : ~ (<<m, n>> \in R)
  BY Zenon, <1>1, WFMin
<1>3. ASSUME NEW m \in S PROVE n <= m
  <2>1. ~ (<<m, n>> \in R) BY <1>2
  <2>2. m \in Nat /\ n \in Nat OBVIOUS
  <2>3. ~ (m < n) BY <2>1, <2>2 DEF R
  <2> QED BY <2>2, <2>3
<1> QED BY Zenon, <1>2, <1>3 DEF Least

(* A bounded set of numbers has a greatest one.                               *)
LEMMA GreatestOf ==
  ASSUME NEW k \in Nat, NEW S \in SUBSET (1..k), S # {}
  PROVE  \E g \in S : \A x \in S : x <= g
<1> DEFINE U == {u \in Nat : \A x \in S : x <= u}
<1>1. k \in U OBVIOUS
<1>2. U \in SUBSET Nat OBVIOUS
<1>3. Least(U) \in U /\ \A u \in U : Least(U) <= u
  BY Zenon, <1>1, <1>2, LeastOf
<1>4. PICK g \in U : \A u \in U : g <= u BY Zenon, <1>3
<1>5. PICK y \in S : TRUE BY Zenon
<1>6. g \in S
  <2> SUFFICES ASSUME g \notin S PROVE FALSE OBVIOUS
  <2>1. \A x \in S : x \in Nat /\ x >= 1 /\ x <= g /\ x # g BY <1>4
  <2>2. g - 1 \in U BY <2>1, <1>4, <1>5
  <2> QED BY <2>2, <1>4
<1> QED BY <1>4, <1>6

(* The rows up to n are finitely many.                                        *)
LEMMA UpToFinite ==
  ASSUME seq \in Nat, rows \subseteq 1..seq, NEW n \in Nat
  PROVE  /\ IsFiniteSet(rows)
         /\ IsFiniteSet({m \in rows : m <= n})
         /\ Cardinality({m \in rows : m <= n}) \in Nat
<1>1. IsFiniteSet(1..seq) BY FS_Interval
<1>2. IsFiniteSet(rows) BY Zenon, <1>1, FS_Subset
<1>3. {m \in rows : m <= n} \in SUBSET rows OBVIOUS
<1>4. IsFiniteSet({m \in rows : m <= n}) BY Zenon, <1>2, <1>3, FS_Subset
<1> QED BY <1>2, <1>4, FS_CardinalityType

(* The SELECT takes no row and leaves an older one.                           *)
LEMMA OldestDown ==
  ASSUME seq \in Nat, rows \subseteq 1..seq,
         NEW b \in Oldest, NEW m \in rows, m <= b
  PROVE  m \in Oldest
<1> DEFINE A == {x \in rows : x <= m}
           B == {x \in rows : x <= b}
<1>1. b \in Nat /\ m \in Nat /\ b \in rows BY DEF Oldest
<1>2. A \in SUBSET B
  <2>1. ASSUME NEW x \in rows, x <= m PROVE x <= b
    <3>1. x \in Nat OBVIOUS
    <3> QED BY <3>1, <2>1, <1>1
  <2> QED BY Zenon, <2>1
<1>3. IsFiniteSet(B) /\ Cardinality(B) \in Nat BY <1>1, UpToFinite
<1>4. Cardinality(A) \in Nat BY <1>1, UpToFinite
<1>5. Cardinality(A) <= Cardinality(B) BY Zenon, <1>2, <1>3, FS_Subset
<1>6. Cardinality(B) <= Batch BY DEF Oldest
<1> HIDE DEF B
<1>7. Cardinality(A) <= Batch BY <1>3, <1>4, <1>5, <1>6, OutboxAssumption
<1> QED BY Zenon, <1>7 DEF Oldest

(* An outbox that is not empty yields a batch that is not empty.              *)
LEMMA OldestSome ==
  ASSUME seq \in Nat, rows \subseteq 1..seq, rows # {}
  PROVE  Oldest # {}
<1> DEFINE n == Least(rows)
           A == {x \in rows : x <= n}
<1>1. rows \in SUBSET Nat OBVIOUS
<1>2. n \in rows /\ \A m \in rows : n <= m BY Zenon, <1>1, LeastOf
<1> HIDE DEF n
<1>3. A = {n}
  <2>1. ASSUME NEW x \in rows, x <= n PROVE x = n
    <3>1. x \in Nat /\ n \in Nat /\ n <= x BY <1>1, <1>2
    <3> QED BY <3>1, <2>1
  <2>2. n <= n
    <3>1. n \in Nat BY <1>1, <1>2
    <3> QED BY <3>1
  <2> QED BY Zenon, <1>2, <2>1, <2>2
<1>4. Cardinality(A) = 1 BY Zenon, <1>3, FS_Singleton
<1>5. Cardinality(A) <= Batch BY <1>4, OutboxAssumption
<1> QED BY Zenon, <1>2, <1>5 DEF Oldest

(* When the SELECT leaves a row, the batch is full.                           *)
LEMMA OldestFull ==
  ASSUME seq \in Nat, rows \subseteq 1..seq, NEW r \in rows, r \notin Oldest
  PROVE  Cardinality(Oldest) = Batch
<1> DEFINE Rest == rows \ Oldest
           n == Least(Rest)
           Up(x) == {m \in rows : m <= x}
<1>1. Rest \in SUBSET Nat /\ Rest # {}
  <2>1. rows \in SUBSET Nat OBVIOUS
  <2> QED BY Zenon, <2>1
<1>2. n \in Rest /\ \A m \in Rest : n <= m BY Zenon, <1>1, LeastOf
<1> HIDE DEF n
<1>3. n \in Nat /\ n \in rows /\ n \notin Oldest BY <1>1, <1>2
<1>4. \A b \in Oldest : b \in rows /\ b \in Nat BY DEF Oldest
<1>5. \A b \in Oldest : ~ (n <= b) BY Zenon, <1>3, OldestDown
<1>6. Up(n) = Oldest \cup {n}
  <2>1. ASSUME NEW m \in Up(n), m # n PROVE m \in Oldest
    <3>1. m \in Nat /\ m \in rows /\ ~ (n <= m) BY <2>1, <1>3
    <3> QED BY Zenon, <3>1, <1>2
  <2>2. ASSUME NEW b \in Oldest PROVE b \in Up(n) BY <1>3, <1>4, <1>5
  <2>3. n \in Up(n) BY <1>3
  <2> HIDE DEF Up
  <2> QED BY Zenon, <2>1, <2>2, <2>3
<1>7. IsFiniteSet(rows) /\ Oldest \in SUBSET rows BY Zenon, <1>3, <1>4, UpToFinite
<1>8. IsFiniteSet(Oldest) BY Zenon, <1>7, FS_Subset
<1>9. Cardinality(Oldest) \in Nat BY Zenon, <1>8, FS_CardinalityType
<1>10. Cardinality(Oldest \cup {n}) = Cardinality(Oldest) + 1
  BY Zenon, <1>3, <1>8, FS_AddElement
<1>11. ~ (Cardinality(Up(n)) <= Batch) BY Zenon, <1>3 DEF Oldest
<1>12. Cardinality(Oldest) >= Batch
  BY <1>6, <1>9, <1>10, <1>11, OutboxAssumption
<1>13. Cardinality(Oldest) <= Batch
  <2>1. CASE Oldest = {}
    BY <2>1, FS_EmptySet, OutboxAssumption
  <2>2. CASE Oldest # {}
    <3>1. Oldest \in SUBSET (1..seq) BY <1>7
    <3>2. PICK g \in Oldest : \A x \in Oldest : x <= g
      BY Zenon, <2>2, <3>1, GreatestOf
    <3>3. Oldest \in SUBSET Up(g) BY <1>4, <3>2
    <3>4. g \in Nat BY <1>4
    <3>5. IsFiniteSet(Up(g)) /\ Cardinality(Up(g)) \in Nat BY <3>4, UpToFinite
    <3>6. Cardinality(Oldest) <= Cardinality(Up(g)) BY Zenon, <3>3, <3>5, FS_Subset
    <3>7. Cardinality(Up(g)) <= Batch BY Zenon DEF Oldest
    <3> HIDE DEF Up
    <3> QED BY <1>9, <3>5, <3>6, <3>7, OutboxAssumption
  <2> QED BY <2>1, <2>2
<1> QED BY <1>9, <1>12, <1>13, OutboxAssumption

-----------------------------------------------------------------------------
(* The job table under repair, enqueue and the three outcomes of a slice.     *)

(* repair keeps a row, or frees one that was running.                         *)
LEMMA RepairedRows ==
  ASSUME NEW js \in [JobIds -> JobRecs]
  PROVE  /\ Repaired(js) \in [JobIds -> JobRecs]
         /\ \A j \in JobIds :
              \/ Repaired(js)[j] = js[j]
              \/ js[j].state = "running" /\ Repaired(js)[j].state \in {"queued", "dead"}
<1>1. ASSUME NEW j \in JobIds
      PROVE  /\ Repaired(js)[j] \in JobRecs
             /\ \/ Repaired(js)[j] = js[j]
                \/ js[j].state = "running" /\ Repaired(js)[j].state \in {"queued", "dead"}
  <2> DEFINE d == [js[j] EXCEPT !.state = "dead"]
             n == js[j].strands + 1
             q == [js[j] EXCEPT !.state = "queued", !.due = TRUE, !.stale = FALSE,
                                !.lease = 0, !.strands = n]
  <2>1. js[j] \in JobRecs OBVIOUS
  <2>2. d \in JobRecs /\ d.state = "dead" BY <2>1 DEF JobRecs
  <2>3. q \in JobRecs /\ q.state = "queued"
    <3>1. n \in Nat BY <2>1 DEF JobRecs
    <3> HIDE DEF n
    <3> QED BY Zenon, <2>1, <3>1 DEF JobRecs
  <2>4. Repaired(js)[j] = IF js[j].state = "running" /\ js[j].stale
                            THEN IF js[j].strands >= MaxStrands THEN d ELSE q
                            ELSE js[j]
    BY Zenon DEF Repaired
  <2> HIDE DEF d, q
  <2> QED BY Zenon, <2>1, <2>2, <2>3, <2>4
<1>2. Repaired(js) = [j \in JobIds |-> Repaired(js)[j]] BY Zenon DEF Repaired
<1> QED BY <1>1, <1>2

(* enqueue leaves a queued row behind.                                        *)
LEMMA EnqueuedRows ==
  ASSUME NEW js \in [JobIds -> JobRecs], Queued(js) # {} \/ Free(js) # {}
  PROVE  /\ Enqueued(js) \in [JobIds -> JobRecs]
         /\ \E j \in JobIds : Enqueued(js)[j].state = "queued"
<1>1. CASE Queued(js) # {}
  BY <1>1 DEF Enqueued, Queued
<1>2. CASE Queued(js) = {}
  <2> DEFINE f == CHOOSE j \in Free(js) : TRUE
  <2>1. f \in JobIds BY <1>2 DEF Free
  <2> HIDE DEF f
  <2>2. FreshRow \in JobRecs /\ FreshRow.state = "queued" BY Zenon DEF FreshRow, NoRow, JobRecs
  <2>3. Enqueued(js) = [js EXCEPT ![f] = FreshRow] BY Zenon, <1>2 DEF Enqueued, f
  <2> HIDE DEF FreshRow
  <2> QED BY <2>1, <2>2, <2>3
<1> QED BY <1>1, <1>2

(* Where a slice still holds its row, the outcome decides about that row      *)
(* alone; otherwise nothing changes.                                          *)
LEMMA LandedRows ==
  ASSUME jobs \in [JobIds -> JobRecs], NEW s \in Slices, slice[s].job \in JobIds
  PROVE  /\ LandDone(s) \in [JobIds -> JobRecs]
         /\ LandContinue(s) \in [JobIds -> JobRecs]
         /\ LandErr(s) \in [JobIds -> JobRecs]
         /\ \A j \in JobIds : j # slice[s].job =>
              LandDone(s)[j] = jobs[j] /\ LandContinue(s)[j] = jobs[j] /\ LandErr(s)[j] = jobs[j]
         /\ ~Holds(s) => LandDone(s) = jobs /\ LandContinue(s) = jobs /\ LandErr(s) = jobs
         /\ Holds(s) => /\ LandContinue(s)[slice[s].job].state = "queued"
                        /\ LandErr(s)[slice[s].job].state \in {"queued", "dead"}
<1> DEFINE k == slice[s].job
           c == [jobs[k] EXCEPT !.state = "queued", !.due = TRUE,
                                !.stale = FALSE, !.lease = 0, !.strands = 0]
           d == [jobs[k] EXCEPT !.state = "dead"]
           n == jobs[k].attempts + 1
           b == [jobs[k] EXCEPT !.state = "queued", !.due = FALSE, !.stale = FALSE,
                                !.lease = 0, !.attempts = n]
           e == IF jobs[k].attempts + 1 >= MaxAttempts THEN d ELSE b
<1>1. jobs[k] \in JobRecs OBVIOUS
<1>2. c \in JobRecs /\ c.state = "queued" BY Zenon, <1>1 DEF JobRecs
<1>3. e \in JobRecs /\ e.state \in {"queued", "dead"}
  <2>1. d \in JobRecs /\ d.state = "dead" BY <1>1 DEF JobRecs
  <2>2. b \in JobRecs /\ b.state = "queued"
    <3>1. n \in Nat BY <1>1 DEF JobRecs
    <3> HIDE DEF n
    <3> QED BY Zenon, <1>1, <3>1 DEF JobRecs
  <2> HIDE DEF d, b
  <2> QED BY Zenon, <2>1, <2>2
<1>4. NoRow \in JobRecs BY DEF NoRow, JobRecs
<1>5. LandContinue(s) = IF Holds(s) THEN [jobs EXCEPT ![k] = c] ELSE jobs
  BY DEF LandContinue
<1>6. LandErr(s) = IF Holds(s) THEN [jobs EXCEPT ![k] = e] ELSE jobs
  BY Zenon DEF LandErr
<1>7. LandDone(s) = IF Holds(s) THEN [jobs EXCEPT ![k] = NoRow] ELSE jobs
  BY DEF LandDone
<1> HIDE DEF c, e
<1> QED BY <1>2, <1>3, <1>4, <1>5, <1>6, <1>7

-----------------------------------------------------------------------------
(* Type correctness.                                                          *)

(* A slice in memory has a job and a batch; an idle one has neither.          *)
LEMMA IdleFacts == Idle \in SliceRecs /\ Idle.job = 0 /\ Idle.batch = {} /\ ~Busy(Idle)
BY DEF Idle, SliceRecs, Busy

LEMMA TypeParts == TypeOK <=> TableOK /\ jobs \in [JobIds -> JobRecs] /\ SlicesOK
<1>1. TypeOK => SlicesOK
  <2> SUFFICES ASSUME TypeOK PROVE SlicesOK OBVIOUS
  <2>1. slice \in [Slices -> SliceRecs] BY Zenon DEF TypeOK, SliceRecs
  <2>2. ASSUME NEW s \in Slices, slice[s] # Idle PROVE Busy(slice[s])
    <3>1. slice[s].batch # {} /\ slice[s].job # 0 BY Zenon, <2>2 DEF TypeOK
    <3>2. slice[s].job \in JobIds \cup {0} BY <2>1 DEF SliceRecs
    <3> QED BY Zenon, <3>1, <3>2 DEF Busy
  <2> QED BY Zenon, <2>1, <2>2 DEF SlicesOK
<1>2. SlicesOK => /\ \A s \in Slices : (slice[s] = Idle) = (slice[s].batch = {})
                  /\ \A s \in Slices : (slice[s] = Idle) = (slice[s].job = 0)
  <2> SUFFICES ASSUME SlicesOK, NEW s \in Slices
               PROVE  /\ (slice[s] = Idle) = (slice[s].batch = {})
                      /\ (slice[s] = Idle) = (slice[s].job = 0)
    OBVIOUS
  <2>1. CASE slice[s] = Idle BY Zenon, <2>1, IdleFacts
  <2>2. CASE Busy(slice[s])
    <3>1. slice[s] # Idle BY Zenon, <2>2, IdleFacts
    <3>2. slice[s].job # 0 /\ slice[s].batch # {} BY Zenon, <2>2, IdsAssumption DEF Busy
    <3> QED BY Zenon, <3>1, <3>2
  <2> QED BY Zenon, <2>1, <2>2 DEF SlicesOK
<1>3. SlicesOK => slice \in [Slices -> SliceRecs] BY Zenon DEF SlicesOK
<1> QED BY Zenon, <1>1, <1>2, <1>3 DEF TypeOK, TableOK, JobRecs, SliceRecs

LEMMA TypePartsNext ==
  (TypeOK <=> TableOK /\ jobs \in [JobIds -> JobRecs] /\ SlicesOK)'
BY TypeParts, PTL

(* A step that leaves the slices alone, or puts one back to idle.             *)
LEMMA SlicesKept ==
  ASSUME SlicesOK, TableOK, seq' \in Nat, seq' >= seq,
         \/ slice' = slice
         \/ \E s \in Slices : slice' = [slice EXCEPT ![s] = Idle]
         \/ slice' = [s \in Slices |-> Idle]
  PROVE  SlicesOK'
<1>1. 1..seq \subseteq 1..seq' BY DEF TableOK
<1>2. ASSUME NEW r \in SliceRecs PROVE r \in SliceRecs'
  <2>1. r.batch \in SUBSET (1..seq') BY <1>1 DEF SliceRecs
  <2> QED BY <2>1 DEF SliceRecs
<1>3. ASSUME NEW s \in Slices
      PROVE  /\ slice'[s] \in SliceRecs'
             /\ slice'[s] = Idle \/ Busy(slice'[s])
  <2>1. slice'[s] = slice[s] \/ slice'[s] = Idle BY DEF SlicesOK
  <2>2. slice[s] \in SliceRecs BY DEF SlicesOK
  <2>3. slice[s] = Idle \/ Busy(slice[s]) BY DEF SlicesOK
  <2> QED BY Zenon, <1>2, <2>1, <2>2, <2>3, IdleFacts
<1>4. slice' = [s \in Slices |-> slice'[s]] BY DEF SlicesOK
<1>5. slice' \in [Slices -> SliceRecs'] BY Zenon, <1>3, <1>4
<1> QED BY Zenon, <1>3, <1>5 DEF SlicesOK, Busy

(* Every step keeps the types.                                                *)
LEMMA TypeStep == TypeOK /\ [Next]_vars => TypeOK'
<1> SUFFICES ASSUME TypeOK, [Next]_vars
             PROVE  TableOK' /\ jobs' \in [JobIds -> JobRecs] /\ SlicesOK'
  BY Zenon, TypePartsNext
<1>t. TableOK /\ jobs \in [JobIds -> JobRecs] /\ SlicesOK BY Zenon, TypeParts
<1>r. Repaired(jobs) \in [JobIds -> JobRecs] BY Zenon, <1>t, RepairedRows
<1>1. CASE CommitEvent
  <2>1. jobs' \in [JobIds -> JobRecs]
    <3>1. CASE jobs' = Repaired(jobs) BY Zenon, <1>r, <3>1
    <3>2. CASE /\ Queued(Repaired(jobs)) # {} \/ Free(jobs) # {}
               /\ jobs' = Enqueued(Repaired(jobs))
      <4>1. Free(jobs) \subseteq Free(Repaired(jobs))
        <5> SUFFICES ASSUME NEW j \in Free(jobs) PROVE j \in Free(Repaired(jobs))
          BY Zenon
        <5>1. j \in JobIds /\ jobs[j].state = "none" BY Zenon DEF Free
        <5>2. Repaired(jobs)[j] = jobs[j]
          <6>1. jobs[j].state # "running" BY <5>1
          <6> QED BY Zenon, <5>1, <6>1, <1>t, RepairedRows
        <5> QED BY Zenon, <5>1, <5>2 DEF Free
      <4>2. Queued(Repaired(jobs)) # {} \/ Free(Repaired(jobs)) # {}
        BY Zenon, <3>2, <4>1
      <4> QED BY Zenon, <3>2, <4>2, <1>r, EnqueuedRows
    <3> QED BY Zenon, <1>1, <3>1, <3>2 DEF CommitEvent
  <2>2. alarm' \in BOOLEAN BY Zenon, <1>1 DEF CommitEvent, Rearm
  <2>n. seq \in Nat /\ dropped \in Nat /\ rows \subseteq 1..seq BY Zenon, <1>t DEF TableOK
  <2>e. \/ seq' = seq /\ rows' = rows /\ dropped' = dropped + 1
        \/ seq' = seq + 1 /\ rows' = rows \cup {seq + 1} /\ dropped' = dropped
    BY Zenon, <1>1 DEF CommitEvent
  <2>3. seq' \in Nat /\ seq' >= seq /\ dropped' \in Nat /\ faults' = faults
        /\ rows' \subseteq 1..seq'
    <3>1. seq' \in Nat /\ seq' >= seq /\ dropped' \in Nat BY <2>n, <2>e
    <3>2. faults' = faults BY Zenon, <1>1 DEF CommitEvent
    <3>3. ASSUME NEW x \in rows' PROVE x \in 1..seq'
      <4>1. CASE seq' = seq /\ rows' = rows
        <5>1. x \in rows BY Zenon, <3>3, <4>1
        <5> QED BY Zenon, <2>n, <4>1, <5>1
      <4>2. CASE seq' = seq + 1 /\ rows' = rows \cup {seq + 1}
        <5>1. x \in rows \cup {seq + 1} BY Zenon, <3>3, <4>2
        <5>2. x \in 1..seq \/ x = seq + 1 BY Zenon, <2>n, <5>1
        <5> QED BY <2>n, <4>2, <5>2
      <4> QED BY Zenon, <2>e, <4>1, <4>2
    <3> QED BY Zenon, <3>1, <3>2, <3>3
  <2>4. late' \subseteq 1..seq' /\ arrived' \subseteq 1..seq'
    <3>1. 1..seq \subseteq 1..seq' BY <1>t, <2>3 DEF TableOK
    <3>2. late' = late /\ arrived' = arrived BY <1>1 DEF CommitEvent
    <3> QED BY Zenon, <1>t, <3>1, <3>2 DEF TableOK
  <2>5. TableOK' BY Zenon, <1>t, <2>2, <2>3, <2>4 DEF TableOK
  <2>6. slice' = slice BY Zenon, <1>1 DEF CommitEvent
  <2>7. SlicesOK' BY Zenon, <1>t, <2>3, <2>6, SlicesKept
  <2> QED BY Zenon, <2>1, <2>5, <2>7
<1>s. ASSUME seq' = seq PROVE seq' \in Nat /\ seq' >= seq
  BY <1>s, <1>t DEF TableOK
<1>l. ASSUME NEW s \in Slices, slice[s] # Idle
      PROVE  /\ slice[s].job \in JobIds
             /\ slice[s].batch \in SUBSET (1..seq)
             /\ Least(slice[s].batch) \in slice[s].batch
             /\ Least(slice[s].batch) \in 1..seq
  <2>1. Busy(slice[s]) BY Zenon, <1>l, <1>t DEF SlicesOK
  <2>2. slice[s].batch \in SUBSET (1..seq) BY <1>t DEF SlicesOK, SliceRecs
  <2>3. slice[s].batch \in SUBSET Nat BY <2>2
  <2>4. Least(slice[s].batch) \in slice[s].batch BY Zenon, <2>1, <2>3, LeastOf DEF Busy
  <2> QED BY Zenon, <2>1, <2>2, <2>4 DEF Busy
<1>2. CASE Wake
  <2>1. jobs' \in [JobIds -> JobRecs] BY Zenon, <1>r, <1>2 DEF Wake
  <2>2. TableOK' BY Zenon, <1>t, <1>2 DEF Wake, Rearm, TableOK
  <2>3. seq' = seq /\ slice' = slice BY Zenon, <1>2 DEF Wake
  <2> QED BY Zenon, <1>s, <1>t, <2>1, <2>2, <2>3, SlicesKept
<1>3. CASE Kill
  <2>1. TableOK'
    <3>1. late' \subseteq 1..seq
      <4> SUFFICES ASSUME NEW n \in late' PROVE n \in 1..seq BY Zenon
      <4>1. CASE n \in late BY Zenon, <1>t, <4>1 DEF TableOK
      <4>2. CASE \E s \in Slices : slice[s] # Idle /\ n = Least(slice[s].batch)
        BY Zenon, <1>l, <4>2
      <4> QED BY Zenon, <1>3, <4>1, <4>2 DEF Kill
    <3>2. faults' \in Nat BY <1>3, <1>t DEF Kill, TableOK
    <3>3. alarm' \in BOOLEAN BY Zenon, <1>3, <1>t DEF Kill, TableOK
    <3> QED BY Zenon, <1>t, <1>3, <3>1, <3>2, <3>3 DEF Kill, TableOK
  <2>2. seq' = seq /\ slice' = [s \in Slices |-> Idle] /\ jobs' = jobs
    BY Zenon, <1>3 DEF Kill
  <2> QED BY Zenon, <1>s, <1>t, <2>1, <2>2, SlicesKept
<1>4. ASSUME NEW j \in JobIds, ComeDue(j) \/ GoStale(j)
      PROVE  TableOK' /\ jobs' \in [JobIds -> JobRecs] /\ SlicesOK'
  <2>1. jobs[j] \in JobRecs BY <1>t
  <2>2. /\ [jobs[j] EXCEPT !.due = TRUE] \in JobRecs
        /\ [jobs[j] EXCEPT !.stale = TRUE] \in JobRecs
    BY Zenon, <2>1 DEF JobRecs
  <2>3. \/ jobs' = [jobs EXCEPT ![j] = [jobs[j] EXCEPT !.due = TRUE]]
        \/ jobs' = [jobs EXCEPT ![j] = [jobs[j] EXCEPT !.stale = TRUE]]
    BY Zenon, <1>4 DEF ComeDue, GoStale
  <2>4. jobs' \in [JobIds -> JobRecs] BY Zenon, <1>t, <2>2, <2>3
  <2>5. faults' \in Nat BY <1>4, <1>t DEF ComeDue, GoStale, TableOK
  <2>6. UNCHANGED <<seq, rows, dropped, alarm, slice, late, arrived>>
    BY Zenon, <1>4 DEF ComeDue, GoStale
  <2>7. TableOK' BY Zenon, <1>t, <2>5, <2>6 DEF TableOK
  <2> QED BY Zenon, <1>s, <1>t, <2>4, <2>6, <2>7, SlicesKept
<1>5. ASSUME NEW j \in JobIds, NEW s \in Slices, AlarmFires(s, j)
      PROVE  TableOK' /\ jobs' \in [JobIds -> JobRecs] /\ SlicesOK'
  <2> DEFINE js == Repaired(jobs)
             r == [job |-> j, batch |-> Oldest, got |-> FALSE,
                   full |-> Cardinality(Oldest) = Batch]
             c == [js[j] EXCEPT !.state = "running", !.lease = s, !.stale = FALSE]
  <2>0. TableOK' /\ seq' = seq
    BY Zenon, <1>5, <1>t DEF AlarmFires, Rearm, TableOK
  <2>1. CASE rows = {}
    <3>1. jobs' = [js EXCEPT ![j] = NoRow] /\ slice' = slice
      BY Zenon, <1>5, <2>1 DEF AlarmFires
    <3>2. NoRow \in JobRecs BY DEF NoRow, JobRecs
    <3>3. jobs' \in [JobIds -> JobRecs]
      <4> HIDE DEF js
      <4>1. js \in [JobIds -> JobRecs] BY Zenon, <1>r DEF js
      <4> QED BY <3>1, <3>2, <4>1
    <3> QED BY Zenon, <1>s, <1>t, <2>0, <3>1, <3>3, SlicesKept
  <2>2. CASE rows # {}
    <3>1. jobs' = [js EXCEPT ![j] = c] /\ slice' = [slice EXCEPT ![s] = r]
      BY Zenon, <1>5, <2>2, <1>r DEF AlarmFires
    <3>2. js \in [JobIds -> JobRecs] BY Zenon, <1>r
    <3>3. js[j] \in JobRecs BY Zenon, <3>2
    <3> HIDE DEF js
    <3>4. c \in JobRecs BY Zenon, <3>3 DEF JobRecs
    <3> HIDE DEF c
    <3>5. jobs' \in [JobIds -> JobRecs] BY <3>1, <3>2, <3>4
    <3>6. r \in SliceRecs' /\ Busy(r)
      <4>1. Oldest \in SUBSET (1..seq') BY Zenon, <1>t, <2>0 DEF Oldest, TableOK
      <4>2. Oldest # {} BY Zenon, <1>t, <2>2, OldestSome DEF TableOK
      <4>3. (Cardinality(Oldest) = Batch) \in BOOLEAN OBVIOUS
      <4> QED BY Zenon, <4>1, <4>2, <4>3 DEF SliceRecs, Busy
    <3> HIDE DEF r
    <3>7. slice \in [Slices -> SliceRecs'] BY Zenon, <1>t, <2>0 DEF SlicesOK, SliceRecs
    <3>8. slice' \in [Slices -> SliceRecs'] BY <3>1, <3>6, <3>7
    <3>9. ASSUME NEW t \in Slices PROVE slice'[t] = Idle \/ Busy(slice'[t])
      <4>1. slice'[t] = slice[t] \/ slice'[t] = r BY <3>1, <1>t DEF SlicesOK
      <4> QED BY Zenon, <1>t, <3>6, <4>1 DEF SlicesOK
    <3> QED BY Zenon, <2>0, <3>5, <3>8, <3>9 DEF SlicesOK, Busy
  <2> QED BY Zenon, <2>1, <2>2
<1>6. ASSUME NEW s \in Slices, Receive(s)
      PROVE  TableOK' /\ jobs' \in [JobIds -> JobRecs] /\ SlicesOK'
  <2> DEFINE r == [slice[s] EXCEPT !.got = TRUE]
  <2>1. slice[s] # Idle /\ slice' = [slice EXCEPT ![s] = r]
    BY Zenon, <1>6 DEF Receive
  <2>2. TableOK' BY Zenon, <1>6, <1>t, <1>l, <2>1 DEF Receive, TableOK
  <2>3. seq' = seq /\ jobs' = jobs BY Zenon, <1>6 DEF Receive
  <2>4. slice \in [Slices -> SliceRecs'] BY Zenon, <1>t, <2>3 DEF SlicesOK, SliceRecs
  <2>5. r \in SliceRecs' /\ r.job = slice[s].job /\ r.batch = slice[s].batch
    <3>1. slice[s] \in SliceRecs' BY Zenon, <2>4
    <3> QED BY Zenon, <3>1 DEF SliceRecs
  <2>6. Busy(r) BY Zenon, <1>t, <2>1, <2>5 DEF SlicesOK, Busy
  <2> HIDE DEF r
  <2>7. slice' \in [Slices -> SliceRecs'] BY <2>1, <2>4, <2>5
  <2>8. ASSUME NEW t \in Slices PROVE slice'[t] = Idle \/ Busy(slice'[t])
    <3>1. slice'[t] = slice[t] \/ slice'[t] = r BY <2>1, <2>4
    <3> QED BY Zenon, <1>t, <2>6, <3>1 DEF SlicesOK
  <2> QED BY Zenon, <1>t, <2>2, <2>3, <2>7, <2>8 DEF SlicesOK, Busy
<1>7. ASSUME NEW s \in Slices, PostOk(s)
      PROVE  TableOK' /\ jobs' \in [JobIds -> JobRecs] /\ SlicesOK'
  <2> DEFINE rest == slice[s].batch \ {Least(slice[s].batch)}
             r == [slice[s] EXCEPT !.batch = rest, !.got = FALSE]
  <2>1. slice[s] # Idle /\ seq' = seq BY Zenon, <1>7 DEF PostOk
  <2>2. TableOK' BY Zenon, <1>7, <1>t DEF PostOk, Rearm, TableOK
  <2>3. CASE rest # {} /\ slice' = [slice EXCEPT ![s].batch = rest, ![s].got = FALSE]
             /\ jobs' = jobs
    <3>1. slice \in [Slices -> SliceRecs'] BY Zenon, <1>t, <2>1 DEF SlicesOK, SliceRecs
    <3>2. slice' = [slice EXCEPT ![s] = r] BY Zenon, <2>3, <3>1
    <3>3. slice[s] \in SliceRecs' /\ rest \in SUBSET (1..seq') BY Zenon, <3>1, <1>l, <2>1
    <3>4. Busy(slice[s]) BY Zenon, <1>t, <2>1 DEF SlicesOK
    <3>5. r \in SliceRecs' /\ Busy(r)
      <4> HIDE DEF rest
      <4>1. r \in SliceRecs' /\ r.job = slice[s].job /\ r.batch = rest
        BY Zenon, <3>3 DEF SliceRecs
      <4> QED BY Zenon, <2>3, <3>4, <4>1 DEF Busy
    <3> HIDE DEF r
    <3>6. slice' \in [Slices -> SliceRecs'] BY <3>1, <3>2, <3>5
    <3>7. ASSUME NEW t \in Slices PROVE slice'[t] = Idle \/ Busy(slice'[t])
      <4>1. slice'[t] = slice[t] \/ slice'[t] = r BY <3>1, <3>2
      <4> QED BY Zenon, <1>t, <3>5, <4>1 DEF SlicesOK
    <3> QED BY Zenon, <1>t, <2>2, <2>3, <3>6, <3>7 DEF SlicesOK, Busy
  <2>4. CASE /\ slice' = [slice EXCEPT ![s] = Idle]
             /\ jobs' = LandContinue(s) \/ jobs' = LandDone(s)
    <3>1. jobs' \in [JobIds -> JobRecs] BY Zenon, <1>t, <1>l, <2>1, <2>4, LandedRows
    <3> QED BY Zenon, <1>s, <1>t, <2>1, <2>2, <2>4, <3>1, SlicesKept
  <2> QED BY Zenon, <1>7, <2>3, <2>4 DEF PostOk
<1>8. ASSUME NEW s \in Slices, PostErr(s)
      PROVE  TableOK' /\ jobs' \in [JobIds -> JobRecs] /\ SlicesOK'
  <2>1. slice[s] # Idle /\ seq' = seq /\ slice' = [slice EXCEPT ![s] = Idle]
        /\ jobs' = LandErr(s)
    BY Zenon, <1>8 DEF PostErr
  <2>2. faults' \in Nat BY <1>8, <1>t DEF PostErr, TableOK
  <2>3. TableOK' BY Zenon, <1>8, <1>t, <2>2 DEF PostErr, Rearm, TableOK
  <2>4. jobs' \in [JobIds -> JobRecs] BY Zenon, <1>t, <1>l, <2>1, LandedRows
  <2> QED BY Zenon, <1>s, <1>t, <2>1, <2>3, <2>4, SlicesKept
<1>9. ASSUME NEW n \in late, LateArrival(n)
      PROVE  TableOK' /\ jobs' \in [JobIds -> JobRecs] /\ SlicesOK'
  <2>1. TableOK' BY Zenon, <1>9, <1>t DEF LateArrival, TableOK
  <2>2. seq' = seq /\ slice' = slice /\ jobs' = jobs BY Zenon, <1>9 DEF LateArrival
  <2> QED BY Zenon, <1>s, <1>t, <2>1, <2>2, SlicesKept
<1>10. CASE UNCHANGED vars
  <2>1. TableOK' BY Zenon, <1>10, <1>t DEF vars, TableOK
  <2>2. seq' = seq /\ slice' = slice /\ jobs' = jobs BY Zenon, <1>10 DEF vars
  <2> QED BY Zenon, <1>s, <1>t, <2>1, <2>2, SlicesKept
<1> QED BY Zenon, <1>1, <1>2, <1>3, <1>4, <1>5, <1>6, <1>7, <1>8, <1>9, <1>10 DEF Next

-----------------------------------------------------------------------------
(* Order and completeness.                                                    *)

(* What a slice sends next comes after nothing the receiver has not seen.     *)
LEMMA NextSent ==
  ASSUME TypeOK, BatchClosed, NEW s \in Slices, slice[s] # Idle
  PROVE  /\ Least(slice[s].batch) \in slice[s].batch
         /\ Least(slice[s].batch) \in Nat
         /\ \A m \in 1..Least(slice[s].batch) : m = Least(slice[s].batch) \/ m \in arrived
<1> DEFINE n == Least(slice[s].batch)
<1>1. SlicesOK BY Zenon, TypeParts
<1>2. slice[s].batch # {} BY Zenon, <1>1 DEF SlicesOK, Busy
<1>3. slice[s].batch \in SUBSET Nat
  <2>1. slice[s].batch \in SUBSET (1..seq) BY <1>1 DEF SlicesOK, SliceRecs
  <2> QED BY <2>1
<1>4. n \in slice[s].batch /\ \A m \in slice[s].batch : n <= m
  BY Zenon, <1>2, <1>3, LeastOf
<1>5. n \in Nat BY Zenon, <1>3, <1>4
<1> HIDE DEF n
<1>6. ASSUME NEW m \in 1..n PROVE m = n \/ m \in arrived
  <2>1. m \in slice[s].batch \/ m \in arrived BY Zenon, <1>4 DEF BatchClosed
  <2>2. ASSUME m \in slice[s].batch PROVE m = n
    <3>1. n <= m BY Zenon, <1>4, <2>2
    <3> QED BY <1>5, <3>1
  <2> QED BY Zenon, <2>1, <2>2
<1> QED BY Zenon, <1>4, <1>5, <1>6 DEF n

(* A step that shows the receiver nothing and starts no batch.                *)
LEMMA OrderKept ==
  ASSUME InOrder, BatchClosed, GotArrived, LateClosed, arrived' = arrived, late' = late,
         \A s \in Slices : slice'[s] = slice[s] \/ slice'[s] = Idle
  PROVE  InOrder' /\ BatchClosed' /\ GotArrived' /\ LateClosed'
<1>1. InOrder' /\ LateClosed' BY Zenon DEF InOrder, LateClosed
<1>2. BatchClosed' BY Zenon, IdleFacts DEF BatchClosed
<1>3. GotArrived' BY Zenon DEF GotArrived
<1> QED BY Zenon, <1>1, <1>2, <1>3

(* A step in which the receiver sees x, after everything before x.            *)
LEMMA OrderGrows ==
  ASSUME InOrder, NothingLost, LateClosed, NEW x \in Nat,
         \A m \in 1..x : m = x \/ m \in arrived,
         arrived' = arrived \cup {x}, late' \subseteq late, seq' = seq, rows' = rows
  PROVE  InOrder' /\ NothingLost' /\ LateClosed'
<1>1. InOrder'
  <2> SUFFICES ASSUME NEW n \in arrived', NEW m \in 1..n PROVE m \in arrived'
    BY Zenon DEF InOrder
  <2>1. CASE n \in arrived BY Zenon, <2>1 DEF InOrder
  <2>2. CASE n = x BY Zenon, <2>2
  <2> QED BY Zenon, <2>1, <2>2
<1>2. NothingLost' BY Zenon DEF NothingLost
<1>3. LateClosed' BY Zenon DEF LateClosed
<1> QED BY Zenon, <1>1, <1>2, <1>3

LEMMA OrderStep ==
  ASSUME TypeOK, InOrder, NothingLost, BatchClosed, GotArrived, LateClosed, [Next]_vars
  PROVE  InOrder' /\ NothingLost' /\ BatchClosed' /\ GotArrived' /\ LateClosed'
<1>t. TableOK /\ SlicesOK BY Zenon, TypeParts
<1>f. slice = [s \in Slices |-> slice[s]] BY Zenon, <1>t DEF SlicesOK
<1>1. CASE CommitEvent
  <2>1. UNCHANGED <<slice, late, arrived>> BY Zenon, <1>1 DEF CommitEvent
  <2>2. InOrder' /\ BatchClosed' /\ GotArrived' /\ LateClosed' BY Zenon, <2>1, OrderKept
  <2>3. NothingLost'
    <3>1. CASE seq' = seq /\ rows' = rows BY Zenon, <2>1, <3>1 DEF NothingLost
    <3>2. CASE seq' = seq + 1 /\ rows' = rows \cup {seq + 1}
      <4> SUFFICES ASSUME NEW m \in 1..seq' PROVE m \in rows' \cup arrived'
        BY Zenon DEF NothingLost
      <4>1. seq \in Nat BY Zenon, <1>t DEF TableOK
      <4>2. m \in 1..seq \/ m = seq + 1 BY <3>2, <4>1
      <4> QED BY Zenon, <2>1, <3>2, <4>2 DEF NothingLost
    <3> QED BY Zenon, <1>1, <3>1, <3>2 DEF CommitEvent
  <2> QED BY Zenon, <2>2, <2>3
<1>2. CASE UNCHANGED <<seq, rows, slice, late, arrived>>
  <2>1. InOrder' /\ BatchClosed' /\ GotArrived' /\ LateClosed' BY Zenon, <1>2, OrderKept
  <2>2. NothingLost' BY Zenon, <1>2 DEF NothingLost
  <2> QED BY Zenon, <2>1, <2>2
<1>3. CASE Kill
  <2>1. /\ arrived' = arrived /\ rows' = rows /\ seq' = seq
        /\ \A s \in Slices : slice'[s] = Idle
    BY Zenon, <1>3 DEF Kill
  <2>2. InOrder' /\ NothingLost' BY Zenon, <2>1 DEF InOrder, NothingLost
  <2>3. BatchClosed' /\ GotArrived' BY Zenon, <2>1, IdleFacts DEF BatchClosed, GotArrived
  <2>4. LateClosed'
    <3> SUFFICES ASSUME NEW n \in late', NEW m \in 1..n PROVE m = n \/ m \in arrived
      BY Zenon, <2>1 DEF LateClosed
    <3>1. CASE n \in late BY Zenon, <3>1 DEF LateClosed
    <3>2. CASE \E s \in Slices : slice[s] # Idle /\ n = Least(slice[s].batch)
      BY Zenon, <3>2, NextSent
    <3> QED BY Zenon, <1>3, <3>1, <3>2 DEF Kill
  <2> QED BY Zenon, <2>2, <2>3, <2>4
<1>5. ASSUME NEW j \in JobIds, NEW s \in Slices, AlarmFires(s, j)
      PROVE  InOrder' /\ NothingLost' /\ BatchClosed' /\ GotArrived' /\ LateClosed'
  <2>1. UNCHANGED <<seq, rows, late, arrived>> BY Zenon, <1>5 DEF AlarmFires
  <2>2. CASE slice' = slice BY Zenon, <1>2, <2>1, <2>2
  <2>3. CASE slice' = [slice EXCEPT ![s] = [job |-> j, batch |-> Oldest, got |-> FALSE,
                                            full |-> Cardinality(Oldest) = Batch]]
    <3>1. slice'[s].batch = Oldest /\ ~slice'[s].got
      BY <1>f, <2>3
    <3>2. \A u \in Slices : u # s => slice'[u] = slice[u] BY <1>f, <2>3
    <3>3. InOrder' /\ NothingLost' /\ LateClosed'
      BY Zenon, <2>1 DEF InOrder, NothingLost, LateClosed
    <3>4. GotArrived' BY Zenon, <2>1, <3>1, <3>2 DEF GotArrived
    <3>5. BatchClosed'
      <4> SUFFICES ASSUME NEW u \in Slices, NEW b \in slice'[u].batch, NEW m \in 1..b
                   PROVE  m \in slice'[u].batch \/ m \in arrived
        BY Zenon, <2>1 DEF BatchClosed
      <4>1. CASE u # s BY Zenon, <3>2, <4>1 DEF BatchClosed
      <4>2. CASE u = s
        <5>1. b \in Oldest BY Zenon, <3>1, <4>2
        <5>2. b \in 1..seq /\ seq \in Nat BY Zenon, <1>t, <5>1 DEF Oldest, TableOK
        <5>3. m \in 1..seq /\ m <= b BY <5>2
        <5>4. m \in rows => m \in Oldest
          BY Zenon, <1>t, <5>1, <5>3, OldestDown DEF TableOK
        <5> QED BY Zenon, <3>1, <4>2, <5>3, <5>4 DEF NothingLost
      <4> QED BY Zenon, <4>1, <4>2
    <3> QED BY Zenon, <3>3, <3>4, <3>5
  <2> QED BY Zenon, <1>5, <2>2, <2>3 DEF AlarmFires
<1>6. ASSUME NEW s \in Slices, Receive(s)
      PROVE  InOrder' /\ NothingLost' /\ BatchClosed' /\ GotArrived' /\ LateClosed'
  <2> DEFINE n == Least(slice[s].batch)
  <2>1. /\ slice[s] # Idle /\ arrived' = arrived \cup {n}
        /\ seq' = seq /\ rows' = rows /\ late' = late
        /\ slice' = [slice EXCEPT ![s].got = TRUE]
    BY Zenon, <1>6 DEF Receive
  <2>2. n \in Nat /\ \A m \in 1..n : m = n \/ m \in arrived BY Zenon, <2>1, NextSent
  <2>3. \A u \in Slices : slice'[u].batch = slice[u].batch /\ (u # s => slice'[u] = slice[u])
    <3> SUFFICES ASSUME NEW u \in Slices
                 PROVE  slice'[u].batch = slice[u].batch /\ (u # s => slice'[u] = slice[u])
      BY Zenon
    <3>1. slice[s] \in SliceRecs BY Zenon, <1>t DEF SlicesOK
    <3> QED BY <1>f, <2>1, <3>1 DEF SliceRecs
  <2>4. GotArrived'
    <3> SUFFICES ASSUME NEW u \in Slices, slice'[u] # Idle /\ slice'[u].got
                 PROVE  Least(slice'[u].batch) \in arrived'
      BY Zenon DEF GotArrived
    <3>0. n \in arrived' /\ arrived \subseteq arrived'
      <4> HIDE DEF n
      <4> QED BY Zenon, <2>1
    <3>1. CASE u = s
      <4>1. slice'[u].batch = slice[s].batch BY Zenon, <2>3, <3>1
      <4>2. Least(slice'[u].batch) = n BY Zenon, <4>1
      <4> QED BY Zenon, <3>0, <4>2
    <3>2. CASE u # s
      <4>1. slice'[u] = slice[u] BY Zenon, <2>3, <3>2
      <4>2. Least(slice[u].batch) \in arrived BY Zenon, <4>1 DEF GotArrived
      <4>3. Least(slice'[u].batch) = Least(slice[u].batch) BY Zenon, <4>1
      <4> QED BY Zenon, <3>0, <4>2, <4>3
    <3> QED BY Zenon, <3>1, <3>2
  <2> HIDE DEF n
  <2>5. BatchClosed' BY Zenon, <2>1, <2>3 DEF BatchClosed
  <2>6. InOrder' /\ NothingLost' /\ LateClosed' BY Zenon, <2>1, <2>2, OrderGrows
  <2> QED BY Zenon, <2>4, <2>5, <2>6
<1>7. ASSUME NEW s \in Slices, PostOk(s)
      PROVE  InOrder' /\ NothingLost' /\ BatchClosed' /\ GotArrived' /\ LateClosed'
  <2> DEFINE n == Least(slice[s].batch)
             rest == slice[s].batch \ {n}
  <2>1. /\ slice[s] # Idle /\ slice[s].got /\ rows' = rows \ {n}
        /\ seq' = seq /\ late' = late /\ arrived' = arrived
    BY Zenon, <1>7 DEF PostOk
  <2>2. n \in arrived BY Zenon, <2>1 DEF GotArrived
  <2>3. NothingLost'
    <3> HIDE DEF n
    <3> QED BY Zenon, <2>1, <2>2 DEF NothingLost
  <2>4. CASE slice' = [slice EXCEPT ![s] = Idle]
    <3>1. \A u \in Slices : slice'[u] = slice[u] \/ slice'[u] = Idle BY <1>f, <2>4
    <3> QED BY Zenon, <2>1, <2>3, <3>1, OrderKept
  <2>5. CASE slice' = [slice EXCEPT ![s].batch = rest, ![s].got = FALSE]
    <3>1. slice[s] \in SliceRecs BY Zenon, <1>t DEF SlicesOK
    <3>2. /\ slice'[s].batch = rest /\ ~slice'[s].got
          /\ \A u \in Slices : u # s => slice'[u] = slice[u]
      <4> HIDE DEF rest
      <4> QED BY Zenon, <1>f, <2>5, <3>1 DEF SliceRecs
    <3>3. GotArrived' BY Zenon, <2>1, <3>2 DEF GotArrived
    <3>4. BatchClosed'
      <4> SUFFICES ASSUME NEW u \in Slices, NEW b \in slice'[u].batch, NEW m \in 1..b
                   PROVE  m \in slice'[u].batch \/ m \in arrived
        BY Zenon, <2>1 DEF BatchClosed
      <4>1. CASE u # s BY Zenon, <3>2, <4>1 DEF BatchClosed
      <4>2. CASE u = s
        <5> HIDE DEF n
        <5>1. b \in slice[s].batch BY Zenon, <3>2, <4>2
        <5>2. m \in slice[s].batch \/ m \in arrived BY Zenon, <5>1 DEF BatchClosed
        <5> QED BY Zenon, <2>2, <3>2, <4>2, <5>2
      <4> QED BY Zenon, <4>1, <4>2
    <3>5. InOrder' /\ LateClosed' BY Zenon, <2>1 DEF InOrder, LateClosed
    <3> QED BY Zenon, <2>3, <3>3, <3>4, <3>5
  <2> QED BY Zenon, <1>7, <2>4, <2>5 DEF PostOk
<1>8. ASSUME NEW s \in Slices, PostErr(s)
      PROVE  InOrder' /\ NothingLost' /\ BatchClosed' /\ GotArrived' /\ LateClosed'
  <2>1. /\ UNCHANGED <<seq, rows, late, arrived>>
        /\ slice' = [slice EXCEPT ![s] = Idle]
    BY Zenon, <1>8 DEF PostErr
  <2>2. \A u \in Slices : slice'[u] = slice[u] \/ slice'[u] = Idle BY <1>f, <2>1
  <2>3. InOrder' /\ BatchClosed' /\ GotArrived' /\ LateClosed'
    BY Zenon, <2>1, <2>2, OrderKept
  <2>4. NothingLost' BY Zenon, <2>1 DEF NothingLost
  <2> QED BY Zenon, <2>3, <2>4
<1>9. ASSUME NEW n \in late, LateArrival(n)
      PROVE  InOrder' /\ NothingLost' /\ BatchClosed' /\ GotArrived' /\ LateClosed'
  <2>1. /\ arrived' = arrived \cup {n} /\ late' \subseteq late
        /\ seq' = seq /\ rows' = rows /\ slice' = slice
    BY Zenon, <1>9 DEF LateArrival
  <2>2. n \in Nat
    <3>1. n \in 1..seq BY Zenon, <1>t DEF TableOK
    <3> QED BY <3>1
  <2>3. \A m \in 1..n : m = n \/ m \in arrived BY Zenon DEF LateClosed
  <2>4. InOrder' /\ NothingLost' /\ LateClosed' BY Zenon, <2>1, <2>2, <2>3, OrderGrows
  <2>5. BatchClosed' /\ GotArrived' BY Zenon, <2>1 DEF BatchClosed, GotArrived
  <2> QED BY Zenon, <2>4, <2>5
<1>10. CASE Wake \/ UNCHANGED vars \/ \E j \in JobIds : ComeDue(j) \/ GoStale(j)
  BY Zenon, <1>2, <1>10 DEF Wake, vars, ComeDue, GoStale
<1> QED BY Zenon, <1>1, <1>3, <1>5, <1>6, <1>7, <1>8, <1>9, <1>10 DEF Next

-----------------------------------------------------------------------------
(* Every event has a job.                                                     *)

(* The job rows that see to event n.                                          *)
Covers(j, n) ==
  \/ jobs[j].state \in {"queued", "dead"}
  \/ jobs[j].state = "running" /\ OwnedBy(j) = {}
  \/ jobs[j].state = "running"
       /\ \E s \in OwnedBy(j) : n \in slice[s].batch \/ slice[s].full

LEMMA OwnedParts ==
  EveryEventOwned <=> \A n \in rows : \E j \in JobIds : Covers(j, n)
BY Zenon DEF EveryEventOwned, Covers

LEMMA OwnedPartsNext ==
  (EveryEventOwned <=> \A n \in rows : \E j \in JobIds : Covers(j, n))'
BY OwnedParts, PTL

(* What a slice promises an event.                                            *)
SameWork(s) ==
  /\ slice'[s].job = slice[s].job /\ slice'[s].batch = slice[s].batch
  /\ slice'[s].full = slice[s].full

(* A row that stays as it is covers what it covered while the slice that      *)
(* holds it stays; one that is queued or dead afterwards covers everything.   *)
LEMMA CoversKept ==
  ASSUME NEW j \in JobIds, NEW n, Covers(j, n),
         \/ /\ jobs'[j].state = jobs[j].state /\ jobs'[j].lease = jobs[j].lease
            /\ \A s \in Slices :
                 jobs[j].lease = s /\ (slice[s].job = j \/ slice'[s].job = j) => SameWork(s)
         \/ jobs'[j].state \in {"queued", "dead"}
  PROVE  Covers(j, n)'
<1>1. CASE jobs'[j].state \in {"queued", "dead"} BY Zenon, <1>1 DEF Covers
<1>2. CASE /\ jobs'[j].state = jobs[j].state /\ jobs'[j].lease = jobs[j].lease
           /\ \A s \in Slices :
                jobs[j].lease = s /\ (slice[s].job = j \/ slice'[s].job = j) => SameWork(s)
  <2>1. ASSUME NEW s \in Slices PROVE s \in OwnedBy(j)' <=> s \in OwnedBy(j)
    BY Zenon, <1>2 DEF OwnedBy, SameWork
  <2>2. OwnedBy(j)' \subseteq Slices /\ OwnedBy(j) \subseteq Slices BY Zenon DEF OwnedBy
  <2>3. \A s \in OwnedBy(j) : SameWork(s) BY Zenon, <1>2 DEF OwnedBy
  <2>4. CASE jobs[j].state \in {"queued", "dead"} BY Zenon, <1>2, <2>4 DEF Covers
  <2>5. CASE jobs[j].state = "running" /\ OwnedBy(j) = {}
    BY Zenon, <1>2, <2>1, <2>2, <2>5 DEF Covers
  <2>6. CASE jobs[j].state = "running"
               /\ \E s \in OwnedBy(j) : n \in slice[s].batch \/ slice[s].full
    <3>1. PICK s \in OwnedBy(j) : n \in slice[s].batch \/ slice[s].full BY Zenon, <2>6
    <3>2. s \in OwnedBy(j)' BY Zenon, <2>1, <2>2
    <3>3. n \in slice'[s].batch \/ slice'[s].full BY Zenon, <2>3, <3>1 DEF SameWork
    <3> QED BY Zenon, <1>2, <2>6, <3>2, <3>3 DEF Covers
  <2> QED BY Zenon, <2>4, <2>5, <2>6 DEF Covers
<1> QED BY Zenon, <1>1, <1>2

(* A slice that ends without holding a row takes no cover from that row.      *)
LEMMA CoversReleased ==
  ASSUME TypeOK, NEW s \in Slices, slice' = [slice EXCEPT ![s] = Idle],
         NEW j \in JobIds, j # slice[s].job \/ ~Holds(s), jobs'[j] = jobs[j],
         NEW n, Covers(j, n)
  PROVE  Covers(j, n)'
<1>t. SlicesOK BY Zenon, TypeParts
<1>f. slice = [u \in Slices |-> slice[u]] BY Zenon, <1>t DEF SlicesOK
<1>1. slice'[s] = Idle /\ \A u \in Slices : u # s => slice'[u] = slice[u] BY <1>f
<1>2. CASE jobs[j].state # "running"
  <2>1. jobs'[j].state \in {"queued", "dead"} BY Zenon, <1>2 DEF Covers
  <2> QED BY Zenon, <2>1, CoversKept
<1>3. CASE jobs[j].state = "running"
  <2>1. ASSUME NEW u \in Slices, jobs[j].lease = u, slice[u].job = j \/ slice'[u].job = j
        PROVE  SameWork(u)
    <3>1. CASE u # s BY Zenon, <1>1, <3>1 DEF SameWork
    <3>2. CASE u = s
      <4>1. slice'[s].job # j BY Zenon, <1>1, IdleFacts, IdsAssumption
      <4>2. slice[s].job = j BY Zenon, <2>1, <3>2, <4>1
      <4>3. Holds(s) BY Zenon, <1>3, <2>1, <3>2, <4>2 DEF Holds
      <4> QED BY Zenon, <4>2, <4>3
    <3> QED BY Zenon, <3>1, <3>2
  <2> QED BY Zenon, <2>1, CoversKept
<1> QED BY Zenon, <1>2, <1>3

LEMMA OwnedStep ==
  ASSUME TypeOK, EveryEventOwned, [Next]_vars
  PROVE  EveryEventOwned'
<1> SUFFICES ASSUME NEW n \in rows' PROVE \E j \in JobIds : Covers(j, n)'
  BY Zenon, OwnedPartsNext
<1>t. TableOK /\ SlicesOK /\ jobs \in [JobIds -> JobRecs] BY Zenon, TypeParts
<1>f. slice = [u \in Slices |-> slice[u]] BY Zenon, <1>t DEF SlicesOK
<1>r. \A j \in JobIds : \/ Repaired(jobs)[j] = jobs[j]
                        \/ Repaired(jobs)[j].state \in {"queued", "dead"}
  BY Zenon, <1>t, RepairedRows
<1>c. ASSUME n \in rows PROVE \E j \in JobIds : Covers(j, n)
  BY Zenon, <1>c, OwnedParts
<1>q. ASSUME NEW j \in JobIds, jobs'[j].state \in {"queued", "dead"}
      PROVE  \E i \in JobIds : Covers(i, n)'
  <2>1. Covers(j, n)' BY Zenon, <1>q DEF Covers
  <2> QED BY Zenon, <2>1
<1>k. ASSUME n \in rows, \A s \in Slices : SameWork(s),
             \A j \in JobIds : \/ /\ jobs'[j].state = jobs[j].state
                                  /\ jobs'[j].lease = jobs[j].lease
                               \/ jobs'[j].state \in {"queued", "dead"}
      PROVE  \E j \in JobIds : Covers(j, n)'
  <2>1. PICK j \in JobIds : Covers(j, n) BY Zenon, <1>c, <1>k
  <2>2. Covers(j, n)' BY Zenon, <1>k, <2>1, CoversKept
  <2> QED BY Zenon, <2>2
<1>1. CASE CommitEvent
  <2>0. \A s \in Slices : SameWork(s) BY Zenon, <1>1 DEF CommitEvent, SameWork
  <2>1. CASE rows' = rows /\ jobs' = Repaired(jobs) BY Zenon, <1>k, <1>r, <2>0, <2>1
  <2>2. CASE /\ Queued(Repaired(jobs)) # {} \/ Free(jobs) # {}
             /\ jobs' = Enqueued(Repaired(jobs))
    <3>1. Queued(Repaired(jobs)) # {} \/ Free(Repaired(jobs)) # {}
      <4>1. ASSUME NEW j \in Free(jobs) PROVE j \in Free(Repaired(jobs))
        <5>1. j \in JobIds /\ jobs[j].state # "running" BY DEF Free
        <5>2. Repaired(jobs)[j] = jobs[j] BY Zenon, <1>t, <5>1, RepairedRows
        <5> QED BY Zenon, <5>2 DEF Free
      <4> QED BY Zenon, <2>2, <4>1
    <3>2. Repaired(jobs) \in [JobIds -> JobRecs] BY Zenon, <1>t, RepairedRows
    <3>3. \E j \in JobIds : jobs'[j].state = "queued" BY Zenon, <2>2, <3>1, <3>2, EnqueuedRows
    <3> QED BY Zenon, <1>q, <3>3
  <2> QED BY Zenon, <1>1, <2>1, <2>2 DEF CommitEvent
<1>2. CASE Wake
  <2>1. \A s \in Slices : SameWork(s) BY Zenon, <1>2 DEF Wake, SameWork
  <2>2. n \in rows /\ jobs' = Repaired(jobs) BY Zenon, <1>2 DEF Wake
  <2> QED BY Zenon, <1>k, <1>r, <2>1, <2>2
<1>3. CASE Kill
  <2>1. PICK j \in JobIds : Covers(j, n) BY Zenon, <1>c, <1>3 DEF Kill
  <2>2. CASE jobs[j].state \in {"queued", "dead"} BY Zenon, <1>q, <1>3, <2>2 DEF Kill
  <2>3. CASE jobs[j].state = "running"
    <3>1. \A s \in Slices : slice'[s].job # j
      BY Zenon, <1>3, IdleFacts, IdsAssumption DEF Kill
    <3>2. OwnedBy(j)' = {} BY Zenon, <3>1 DEF OwnedBy
    <3>3. Covers(j, n)' BY Zenon, <1>3, <2>3, <3>2 DEF Kill, Covers
    <3> QED BY Zenon, <3>3
  <2> QED BY Zenon, <2>1, <2>2, <2>3 DEF Covers
<1>4. ASSUME NEW j \in JobIds, ComeDue(j) \/ GoStale(j)
      PROVE  \E i \in JobIds : Covers(i, n)'
  <2>1. \A s \in Slices : SameWork(s) BY Zenon, <1>4 DEF ComeDue, GoStale, SameWork
  <2>2. n \in rows BY Zenon, <1>4 DEF ComeDue, GoStale
  <2>3. ASSUME NEW i \in JobIds
        PROVE  jobs'[i].state = jobs[i].state /\ jobs'[i].lease = jobs[i].lease
    <3>1. jobs[i] \in JobRecs BY Zenon, <1>t
    <3>2. \/ jobs' = [jobs EXCEPT ![j].due = TRUE]
          \/ jobs' = [jobs EXCEPT ![j].stale = TRUE]
      BY Zenon, <1>4 DEF ComeDue, GoStale
    <3> QED BY <1>t, <3>1, <3>2 DEF JobRecs
  <2> QED BY Zenon, <1>k, <2>1, <2>2, <2>3
<1>5. ASSUME NEW j \in JobIds, NEW s \in Slices, AlarmFires(s, j)
      PROVE  \E i \in JobIds : Covers(i, n)'
  <2> DEFINE js == Repaired(jobs)
             r == [job |-> j, batch |-> Oldest, got |-> FALSE,
                   full |-> Cardinality(Oldest) = Batch]
  <2>1. n \in rows BY Zenon, <1>5 DEF AlarmFires
  <2>2. /\ jobs' = [js EXCEPT ![j].state = "running", ![j].lease = s, ![j].stale = FALSE]
        /\ slice' = [slice EXCEPT ![s] = r]
    BY Zenon, <1>5, <2>1 DEF AlarmFires
  <2>3. js \in [JobIds -> JobRecs] BY Zenon, <1>t, RepairedRows
  <2>4. jobs'[j].state = "running" /\ jobs'[j].lease = s
    <3> HIDE DEF js
    <3>1. js[j] \in JobRecs BY Zenon, <2>3
    <3> QED BY <2>2, <2>3, <3>1 DEF JobRecs
  <2>5. slice'[s] = r BY <1>f, <2>2
  <2>6. s \in OwnedBy(j)'
    <3>1. r.job = j OBVIOUS
    <3> HIDE DEF r
    <3>2. slice'[s].job = j BY Zenon, <2>5, <3>1
    <3> QED BY Zenon, <2>4, <3>2 DEF OwnedBy
  <2>7. n \in r.batch \/ r.full BY Zenon, <1>t, <2>1, OldestFull DEF TableOK
  <2>8. Covers(j, n)' BY Zenon, <2>4, <2>5, <2>6, <2>7 DEF Covers
  <2> QED BY Zenon, <2>8
<1>6. ASSUME NEW s \in Slices, Receive(s)
      PROVE  \E i \in JobIds : Covers(i, n)'
  <2>1. n \in rows /\ jobs' = jobs /\ slice' = [slice EXCEPT ![s].got = TRUE]
    BY Zenon, <1>6 DEF Receive
  <2>2. ASSUME NEW u \in Slices PROVE SameWork(u)
    <3>1. slice[u] \in SliceRecs BY Zenon, <1>t DEF SlicesOK
    <3> QED BY <1>f, <2>1, <3>1 DEF SliceRecs, SameWork
  <2> QED BY Zenon, <1>k, <2>1, <2>2
<1>7. ASSUME NEW s \in Slices, slice[s] # Idle, slice' = [slice EXCEPT ![s] = Idle],
             n \in rows, jobs' \in {LandDone(s), LandContinue(s), LandErr(s)},
             Holds(s) /\ jobs' = LandDone(s) => ~(n \in slice[s].batch \/ slice[s].full)
      PROVE  \E i \in JobIds : Covers(i, n)'
  <2> DEFINE k == slice[s].job
  <2>1. k \in JobIds BY Zenon, <1>t, <1>7 DEF SlicesOK, Busy
  <2>2. CASE Holds(s) /\ jobs' # LandDone(s)
    <3>1. jobs'[k].state \in {"queued", "dead"} BY Zenon, <1>t, <1>7, <2>1, <2>2, LandedRows
    <3> QED BY Zenon, <1>q, <2>1, <3>1
  <2>3. PICK j \in JobIds : Covers(j, n) BY Zenon, <1>c, <1>7
  <2>4. CASE ~Holds(s)
    <3>0. LandDone(s) = jobs /\ LandContinue(s) = jobs /\ LandErr(s) = jobs
      BY Zenon, <2>4 DEF LandDone, LandContinue, LandErr
    <3>1. jobs' = jobs BY Zenon, <1>7, <3>0
    <3>2. Covers(j, n)' BY Zenon, <1>7, <2>3, <2>4, <3>1, CoversReleased
    <3> QED BY Zenon, <3>2
  <2>5. CASE Holds(s) /\ jobs' = LandDone(s)
    <3>1. jobs[k].state = "running" /\ jobs[k].lease = s BY Zenon, <2>5 DEF Holds
    <3>2. OwnedBy(k) = {s} BY Zenon, <3>1 DEF OwnedBy
    <3>3. ~Covers(k, n) BY <1>7, <2>5, <3>1, <3>2 DEF Covers
    <3>4. j # k BY Zenon, <2>3, <3>3
    <3>5. jobs'[j] = jobs[j] BY Zenon, <1>t, <1>7, <2>1, <2>5, <3>4, LandedRows
    <3>6. Covers(j, n)' BY Zenon, <1>7, <2>3, <3>4, <3>5, CoversReleased
    <3> QED BY Zenon, <3>6
  <2> QED BY Zenon, <2>2, <2>4, <2>5
<1>8. ASSUME NEW s \in Slices, PostOk(s)
      PROVE  \E i \in JobIds : Covers(i, n)'
  <2> DEFINE x == Least(slice[s].batch)
             rest == slice[s].batch \ {x}
  <2>1. slice[s] # Idle /\ n \in rows /\ n # x BY Zenon, <1>8 DEF PostOk
  <2>2. CASE /\ slice' = [slice EXCEPT ![s] = Idle]
             /\ jobs' = IF rest # {} \/ slice[s].full THEN LandContinue(s) ELSE LandDone(s)
    <3>1. CASE rest # {} \/ slice[s].full
      <4>1. jobs' = LandContinue(s) BY Zenon, <2>2, <3>1
      <4>2. CASE Holds(s)
        <5>1. slice[s].job \in JobIds BY Zenon, <1>t, <2>1 DEF SlicesOK, Busy
        <5>2. jobs'[slice[s].job].state \in {"queued", "dead"}
          BY Zenon, <1>t, <4>1, <4>2, <5>1, LandedRows
        <5> QED BY Zenon, <1>q, <5>1, <5>2
      <4>3. CASE ~Holds(s) BY Zenon, <1>7, <2>1, <2>2, <4>1, <4>3
      <4> QED BY Zenon, <4>2, <4>3
    <3>2. CASE rest = {} /\ ~slice[s].full
      <4>1. n \notin slice[s].batch BY Zenon, <2>1, <3>2
      <4>2. jobs' = LandDone(s) BY Zenon, <2>2, <3>2
      <4> QED BY Zenon, <1>7, <2>1, <2>2, <3>2, <4>1, <4>2
    <3> QED BY Zenon, <3>1, <3>2
  <2>3. CASE slice' = [slice EXCEPT ![s].batch = rest, ![s].got = FALSE] /\ jobs' = jobs
    <3>1. ASSUME NEW u \in Slices
          PROVE  /\ slice'[u].job = slice[u].job /\ slice'[u].full = slice[u].full
                 /\ n \in slice[u].batch => n \in slice'[u].batch
      <4>1. slice[u] \in SliceRecs BY Zenon, <1>t DEF SlicesOK
      <4>2. CASE u = s
        <5>1. slice'[u].batch = rest /\ slice'[u].job = slice[u].job
              /\ slice'[u].full = slice[u].full
          <6> HIDE DEF rest
          <6> QED BY <1>f, <2>3, <4>1, <4>2 DEF SliceRecs
        <5> QED BY Zenon, <2>1, <4>2, <5>1
      <4>3. CASE u # s
        <5>1. slice'[u] = slice[u] BY <1>f, <2>3, <4>3
        <5> QED BY Zenon, <5>1
      <4> QED BY Zenon, <4>2, <4>3
    <3>2. PICK j \in JobIds : Covers(j, n) BY Zenon, <1>c, <2>1
    <3>3. OwnedBy(j)' = OwnedBy(j)
      <4>1. \A u \in Slices : u \in OwnedBy(j)' <=> u \in OwnedBy(j)
        BY Zenon, <2>3, <3>1 DEF OwnedBy
      <4>2. OwnedBy(j)' \subseteq Slices /\ OwnedBy(j) \subseteq Slices BY Zenon DEF OwnedBy
      <4> QED BY Zenon, <4>1, <4>2
    <3>4. \A u \in OwnedBy(j) : u \in Slices BY Zenon DEF OwnedBy
    <3>5. Covers(j, n)' BY Zenon, <2>3, <3>1, <3>2, <3>3, <3>4 DEF Covers
    <3> QED BY Zenon, <3>5
  <2> QED BY Zenon, <1>8, <2>2, <2>3 DEF PostOk
<1>9. ASSUME NEW s \in Slices, PostErr(s)
      PROVE  \E i \in JobIds : Covers(i, n)'
  <2>1. /\ slice[s] # Idle /\ n \in rows /\ jobs' = LandErr(s)
        /\ slice' = [slice EXCEPT ![s] = Idle]
    BY Zenon, <1>9 DEF PostErr
  <2>2. slice[s].job \in JobIds BY Zenon, <1>t, <2>1 DEF SlicesOK, Busy
  <2>3. CASE Holds(s)
    <3>1. jobs'[slice[s].job].state \in {"queued", "dead"}
      BY Zenon, <1>t, <2>1, <2>2, <2>3, LandedRows
    <3> QED BY Zenon, <1>q, <2>2, <3>1
  <2>4. CASE ~Holds(s) BY Zenon, <1>7, <2>1, <2>4
  <2> QED BY Zenon, <2>3, <2>4
<1>10. CASE UNCHANGED <<rows, jobs, slice>>
  <2>1. \A s \in Slices : SameWork(s) BY Zenon, <1>10 DEF SameWork
  <2> QED BY Zenon, <1>k, <1>10, <2>1
<1>11. CASE UNCHANGED vars \/ \E x \in late : LateArrival(x)
  BY Zenon, <1>10, <1>11 DEF vars, LateArrival
<1> QED BY Zenon, <1>1, <1>2, <1>3, <1>4, <1>5, <1>6, <1>8, <1>9, <1>11 DEF Next

-----------------------------------------------------------------------------
(* The theorems.                                                              *)

LEMMA OutboxInit == Init => OutboxInv
<1> SUFFICES ASSUME Init PROVE OutboxInv OBVIOUS
<1>1. seq = 0 /\ rows = {} /\ late = {} /\ arrived = {} BY Zenon DEF Init
<1>2. TypeOK
  <2>1. TableOK BY Zenon DEF Init, TableOK
  <2>2. jobs \in [JobIds -> JobRecs]
    <3>1. NoRow \in JobRecs BY DEF NoRow, JobRecs
    <3> QED BY Zenon, <3>1 DEF Init
  <2>3. SlicesOK BY Zenon, IdleFacts DEF Init, SlicesOK
  <2> QED BY Zenon, <2>1, <2>2, <2>3, TypeParts
<1>3. \A s \in Slices : slice[s] = Idle BY Zenon DEF Init
<1>4. InOrder /\ LateClosed /\ EveryEventOwned
  BY Zenon, <1>1 DEF InOrder, LateClosed, EveryEventOwned
<1>5. BatchClosed /\ GotArrived BY Zenon, <1>3, IdleFacts DEF BatchClosed, GotArrived
<1>6. NothingLost BY <1>1 DEF NothingLost
<1> QED BY Zenon, <1>2, <1>4, <1>5, <1>6 DEF OutboxInv

(* OutboxInv holds in every state the outbox can reach.                       *)
THEOREM OutboxInvariant == Spec => []OutboxInv
<1>1. OutboxInv /\ [Next]_vars => OutboxInv'
  BY Zenon, TypeStep, OrderStep, OwnedStep DEF OutboxInv
<1> QED BY <1>1, OutboxInit, PTL DEF Spec

(* Tables, slices and the receiver keep their types, and a slice in memory    *)
(* always has a job and something to send.                                    *)
THEOREM OutboxTypeCorrect == Spec => []TypeOK
<1>1. OutboxInv => TypeOK BY Zenon DEF OutboxInv
<1> QED BY <1>1, OutboxInvariant, PTL

(* However many slices run at once, fail, are killed or overtaken by their    *)
(* own late POSTs: the receiver sees no event for the first time before an    *)
(* earlier one (run_slice sends ORDER BY seq and stops at the first failure). *)
THEOREM OutboxInOrder == Spec => []InOrder
<1>1. OutboxInv => InOrder BY Zenon DEF OutboxInv
<1> QED BY <1>1, OutboxInvariant, PTL

(* A row of push_events is deleted only after the receiver saw its event.     *)
THEOREM OutboxNothingLost == Spec => []NothingLost
<1>1. OutboxInv => NothingLost BY Zenon DEF OutboxInv
<1> QED BY <1>1, OutboxInvariant, PTL

(* enqueue's "unless one is queued" never strands an event: every row of the  *)
(* outbox has a job row that is queued, dead, abandoned, or in the hands of a *)
(* slice that will send it or continue.                                       *)
THEOREM OutboxEveryEventOwned == Spec => []EveryEventOwned
<1>1. OutboxInv => EveryEventOwned BY Zenon DEF OutboxInv
<1> QED BY <1>1, OutboxInvariant, PTL
=============================================================================
