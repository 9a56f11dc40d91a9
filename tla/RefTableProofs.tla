--------------------------- MODULE RefTableProofs ---------------------------
(* What RefTable promises for every set of names, commits, tokens, pushes     *)
(* and batches, whatever their number.  The write loop of a commit is         *)
(* reasoned about as a loop: an invariant of its rounds, stated as a set,     *)
(* that the table the span reads is in and every round preserves.             *)
EXTENDS RefTable, FiniteSetTheorems, WellFoundedInduction, TLAPS

-----------------------------------------------------------------------------
(* Induction, with the claim given as the set of numbers it holds of.         *)

\* A set of naturals that is not empty has a least member.
LEMMA LeastNat ==
    ASSUME NEW S \in SUBSET Nat, S # {}
    PROVE  \E m \in S : \A k \in S : m <= k
<1>1. \E m \in S : \A k \in S : ~(<<k, m>> \in OpToRel(<, Nat))
  BY NatLessThanWellFounded, WFMin, Zenon
<1>2. \E m \in S : \A k \in S : ~(k < m)
  BY Zenon, <1>1 DEF OpToRel
<1> QED
  BY <1>2

\* Counting up from 0 inside G reaches every number up to n.
LEMMA CountUp ==
    ASSUME NEW n \in Nat, NEW G, 0 \in G,
           \A k \in 0..n : k < n /\ k \in G => k + 1 \in G
    PROVE  \A k \in 0..n : k \in G
<1> DEFINE S == {k \in 0..n : k \notin G}
<1>1. SUFFICES ASSUME S # {} PROVE FALSE
  BY Zenon
<1>2. S \in SUBSET Nat
  OBVIOUS
<1>3. PICK m \in S : \A k \in S : m <= k
  BY Zenon, <1>1, <1>2, LeastNat
<1> HIDE DEF S
<1>4. m \in 0..n /\ m \notin G /\ m # 0
  BY Zenon, <1>3 DEF S
<1>5. m - 1 \in 0..n /\ m - 1 < n /\ ~(m <= m - 1) /\ (m - 1) + 1 = m
  BY <1>4
<1>6. m - 1 \notin S
  BY Zenon, <1>3, <1>5
<1>7. m - 1 \in G
  BY Zenon, <1>5, <1>6 DEF S
<1>8. (m - 1) + 1 \in G
  BY Zenon, <1>5, <1>7
<1> QED
  BY Zenon, <1>4, <1>5, <1>8

-----------------------------------------------------------------------------
(* The write loop.                                                            *)

\* The write loop as a loop: what holds of the table the span reads before the
\* first round, and is kept by the round of every command, holds of what the
\* loop leaves.  I pairs a number of rounds with a state they may leave.
LEMMA LoopInvariant ==
    ASSUME NEW lv, NEW p, NEW cmds, Len(cmds) \in Nat, NEW I,
           <<0, Unmoved>> \in I,
           \A i \in 1..Len(cmds) : \A s :
             <<i - 1, s>> \in I => <<i, Applied(s, lv, p, cmds[i])>> \in I
    PROVE  <<Len(cmds), ApplyAll(lv, p, cmds)>> \in I
<1> DEFINE n == Len(cmds)
<1> DEFINE D(f, k) == [i \in 0..k |-> IF i = 0 THEN Unmoved
                                      ELSE Applied(f[i - 1], lv, p, cmds[i])]
<1> DEFINE E == {k \in 0..n : \E f : f = D(f, k)}
<1>1. 0 \in E
  <2>1. [i \in 0..0 |-> Unmoved] = D([i \in 0..0 |-> Unmoved], 0)
    OBVIOUS
  <2>2. 0 \in 0..n
    OBVIOUS
  <2> HIDE DEF D
  <2> QED
    BY Zenon, <2>1, <2>2
<1>2. ASSUME NEW k \in 0..n, k < n, k \in E
      PROVE  k + 1 \in E
  <2>1. PICK f : f = D(f, k)
    BY <1>2
  <2> DEFINE g == [i \in 0..(k + 1) |-> IF i <= k THEN f[i] ELSE Applied(f[k], lv, p, cmds[k + 1])]
  <2>2. ASSUME NEW i \in 0..(k + 1)
        PROVE  g[i] = IF i = 0 THEN Unmoved ELSE Applied(g[i - 1], lv, p, cmds[i])
    <3>1. CASE i = 0
      BY <2>1, <3>1
    <3>2. CASE i # 0 /\ i <= k
      <4>1. i \in 0..k /\ i - 1 \in 0..(k + 1) /\ i - 1 <= k
        BY <3>2
      <4>2. f[i] = Applied(f[i - 1], lv, p, cmds[i])
        BY <2>1, <4>1, <3>2
      <4>3. g[i] = f[i] /\ g[i - 1] = f[i - 1]
        BY <4>1
      <4> QED
        BY Zenon, <4>2, <4>3, <3>2
    <3>3. CASE i = k + 1
      <4>1. g[i] = Applied(f[k], lv, p, cmds[k + 1]) /\ g[i - 1] = f[k] /\ i # 0
        BY <3>3
      <4> QED
        BY Zenon, <4>1, <3>3
    <3> QED
      BY <3>1, <3>2, <3>3
  <2>3. g = D(g, k + 1)
    <3> HIDE DEF g
    <3>1. g = [i \in 0..(k + 1) |-> g[i]]
      BY Zenon DEF g
    <3> QED
      BY Zenon, <2>2, <3>1
  <2>4. k + 1 \in 0..n
    BY <1>2
  <2> HIDE DEF g, D
  <2> QED
    BY Zenon, <2>3, <2>4
<1>3. n \in 0..n
  OBVIOUS
<1>4. n \in E
  <2> HIDE DEF E
  <2> QED
    BY Zenon, <1>1, <1>2, <1>3, CountUp
<1> DEFINE after == CHOOSE f : f = D(f, n)
<1>5. ApplyAll(lv, p, cmds) = after[n]
  BY DEF ApplyAll
<1>6. after = D(after, n)
  <2> HIDE DEF D
  <2> QED
    BY Zenon, <1>4
<1> HIDE DEF after
<1> DEFINE G == {k \in 0..n : <<k, after[k]>> \in I}
<1>7. 0 \in G
  <2>1. 0 \in 0..n
    OBVIOUS
  <2>2. after[0] = Unmoved
    BY Zenon, <1>6, <2>1
  <2> QED
    BY Zenon, <2>1, <2>2
<1>8. ASSUME NEW k \in 0..n, k < n, k \in G
      PROVE  k + 1 \in G
  <2>1. k + 1 \in 1..n /\ k + 1 \in 0..n /\ k + 1 # 0 /\ (k + 1) - 1 = k
    BY <1>8
  <2>2. after[k + 1] = Applied(after[(k + 1) - 1], lv, p, cmds[k + 1])
    BY Zenon, <1>6, <2>1
  <2>3. <<(k + 1) - 1, after[(k + 1) - 1]>> \in I
    BY Zenon, <1>8, <2>1
  <2>4. <<k + 1, after[k + 1]>> \in I
    BY Zenon, <2>1, <2>2, <2>3
  <2> QED
    BY Zenon, <2>1, <2>4
<1>9. n \in G
  <2> HIDE DEF G
  <2> QED
    BY Zenon, <1>3, <1>7, <1>8, CountUp
<1> QED
  BY Zenon, <1>5, <1>9

-----------------------------------------------------------------------------
(* Lists put together piece by piece: what an event lists, what a push logged.*)

\* One more piece comes after those before it.
LEMMA FlattenAppend ==
    ASSUME NEW R, NEW box \in Seq(Seq(R)), NEW x \in Seq(R)
    PROVE  /\ FlattenSeq(<<>>) = <<>>
           /\ FlattenSeq(Append(box, x)) = FlattenSeq(box) \o x
<1> DEFINE more == Append(box, x)
<1> DEFINE n == Len(more)
<1> DEFINE D(f, k) == [i \in 1..k |-> IF i = 1 THEN more[i] ELSE f[i - 1] \o more[i]]
<1> DEFINE E == {k \in 0..n : \E f : f = D(f, k)}
<1>1. more \in Seq(Seq(R)) /\ n \in Nat /\ n = Len(box) + 1 /\ more[n] = x
  OBVIOUS
<1>2. \A i \in 1..Len(box) : more[i] = box[i]
  OBVIOUS
<1>3. \A k \in 0..n : k \in E
  <2>1. 0 \in E
    <3>1. [i \in 1..0 |-> x] = D([i \in 1..0 |-> x], 0)
      OBVIOUS
    <3>2. 0 \in 0..n
      BY <1>1
    <3> HIDE DEF D, n
    <3> QED
      BY Zenon, <3>1, <3>2
  <2>2. ASSUME NEW k \in 0..n, k < n, k \in E
        PROVE  k + 1 \in E
    <3> HIDE DEF more
    <3>1. PICK f : f = D(f, k)
      BY Zenon, <2>2
    <3> DEFINE e == IF k = 0 THEN more[1] ELSE f[k] \o more[k + 1]
    <3> DEFINE g == [i \in 1..(k + 1) |-> IF i <= k THEN f[i] ELSE e]
    <3>2. ASSUME NEW i \in 1..(k + 1)
          PROVE  g[i] = IF i = 1 THEN more[i] ELSE g[i - 1] \o more[i]
      <4> HIDE DEF n
      <4>1. CASE i = 1 /\ i <= k
        BY <3>1, <4>1
      <4>2. CASE i # 1 /\ i <= k
        <5>1. i \in 1..k /\ i - 1 \in 1..(k + 1) /\ i - 1 <= k
          BY <4>2, <1>1
        <5>2. f[i] = f[i - 1] \o more[i]
          BY Zenon, <3>1, <5>1, <4>2
        <5>3. g[i] = f[i] /\ g[i - 1] = f[i - 1]
          BY <5>1
        <5> QED
          BY Zenon, <5>2, <5>3, <4>2
      <4>3. CASE i = k + 1 /\ k = 0
        <5>1. i = 1 /\ g[i] = more[1]
          BY <4>3
        <5> QED
          BY Zenon, <5>1
      <4>4. CASE i = k + 1 /\ k # 0
        <5>0. i # 1 /\ i - 1 = k /\ k \in 1..(k + 1) /\ k <= k /\ ~(i <= k)
          BY <4>4, <1>1
        <5>1. i # 1 /\ g[i] = f[k] \o more[k + 1] /\ g[i - 1] = f[k]
          BY Zenon, <5>0, <4>4
        <5> QED
          BY Zenon, <5>1, <4>4
      <4> QED
        BY <4>1, <4>2, <4>3, <4>4, <1>1
    <3>3. g = D(g, k + 1)
      <4> HIDE DEF g
      <4>1. g = [i \in 1..(k + 1) |-> g[i]]
        BY Zenon DEF g
      <4> QED
        BY Zenon, <3>2, <4>1
    <3>4. k + 1 \in 0..n
      BY <2>2, <1>1
    <3> HIDE DEF g, D
    <3> QED
      BY Zenon, <3>3, <3>4
  <2> HIDE DEF E, n
  <2> QED
    BY Zenon, <1>1, <2>1, <2>2, CountUp
<1> HIDE DEF more
<1>4. FlattenSeq(more) = (CHOOSE f : f = D(f, n))[n]
  BY <1>1 DEF FlattenSeq
<1> DEFINE f == CHOOSE f_1 : f_1 = D(f_1, n)
<1>5. f = D(f, n)
  <2>1. n \in 0..n
    BY <1>1
  <2> HIDE DEF D, n
  <2> QED
    BY Zenon, <1>3, <2>1
<1>6. CASE Len(box) = 0
  <2>1. box = <<>> /\ n = 1
    BY <1>1, <1>6
  <2>2. f[1] = more[1]
    <3> HIDE DEF f
    <3> QED
      BY <1>5, <2>1
  <2>3. FlattenSeq(box) = <<>> /\ FlattenSeq(<<>>) = <<>>
    BY <2>1 DEF FlattenSeq
  <2>4. <<>> \o x = x
    OBVIOUS
  <2> HIDE DEF f, n
  <2>5. FlattenSeq(more) = x
    BY Zenon, <1>4, <2>1, <2>2, <1>1 DEF f
  <2> QED
    BY Zenon, <2>3, <2>4, <2>5 DEF more
<1>7. CASE Len(box) # 0
  <2> DEFINE b == Len(box)
  <2> DEFINE B(h) == [i \in 1..b |-> IF i = 1 THEN box[i] ELSE h[i - 1] \o box[i]]
  <2> DEFINE g == CHOOSE h : h = B(h)
  <2>0. b \in Nat /\ b # 0 /\ n = b + 1
    BY <1>1, <1>7
  <2>1. FlattenSeq(box) = g[b]
    BY <1>7 DEF FlattenSeq
  <2>2. g = B(g)
    <3>1. b \in E
      <4> HIDE DEF E
      <4>1. b \in 0..n
        BY <2>0
      <4> QED
        BY Zenon, <4>1, <1>3
    <3>2. PICK h : h = D(h, b)
      BY Zenon, <3>1
    <3>3. h = B(h)
      BY Zenon, <3>2, <1>2
    <3> HIDE DEF B
    <3> QED
      BY Zenon, <3>3
  <2> HIDE DEF g, f
  <2> DEFINE G == {k \in 0..b : k = 0 \/ f[k] = g[k]}
  <2>3. 0 \in G
    BY <2>0
  <2>4. ASSUME NEW k \in 0..b, k < b, k \in G
        PROVE  k + 1 \in G
    <3> HIDE DEF n, b
    <3>1. k + 1 \in 1..n /\ k + 1 \in 1..b /\ k + 1 \in 0..b /\ (k + 1) - 1 = k
      BY <2>0, <2>4
    <3>2. f[k + 1] = IF k + 1 = 1 THEN more[k + 1] ELSE f[k] \o more[k + 1]
      BY Zenon, <1>5, <3>1
    <3>3. g[k + 1] = IF k + 1 = 1 THEN box[k + 1] ELSE g[k] \o box[k + 1]
      BY Zenon, <2>2, <3>1
    <3>4. more[k + 1] = box[k + 1]
      BY Zenon, <1>2, <3>1 DEF b
    <3>5. k + 1 = 1 \/ f[k] = g[k]
      BY <2>4
    <3>6. f[k + 1] = g[k + 1]
      BY Zenon, <3>2, <3>3, <3>4, <3>5
    <3> QED
      BY Zenon, <3>1, <3>6
  <2>5. f[b] = g[b]
    <3>1. \A k \in 0..b : k \in G
      <4> HIDE DEF G, b
      <4> QED
        BY Zenon, <2>0, <2>3, <2>4, CountUp
    <3> HIDE DEF b, n
    <3>2. b \in 0..b /\ b # 0
      BY <2>0
    <3> QED
      BY Zenon, <3>1, <3>2
  <2>6. f[n] = f[n - 1] \o more[n] /\ n - 1 = b
    <3> HIDE DEF b, n
    <3>1. n \in 1..n /\ n # 1 /\ n - 1 = b
      BY <2>0
    <3> QED
      BY Zenon, <3>1, <1>5
  <2>7. FlattenSeq(<<>>) = <<>>
    BY DEF FlattenSeq
  <2> HIDE DEF b, n
  <2>8. FlattenSeq(more) = f[b] \o x
    BY Zenon, <1>4, <2>6, <1>1 DEF f
  <2> QED
    BY Zenon, <2>1, <2>5, <2>7, <2>8 DEF more
<1> QED
  BY Zenon, <1>6, <1>7

Moves == Names \X Ids \X Ids

\* One more round adds its command to the event exactly when it landed.
LEMMA EventAppend ==
    ASSUME NEW cmds, NEW results \in Seq(BOOLEAN), NEW b \in BOOLEAN,
           \A i \in 1..(Len(results) + 1) :
             <<cmds[i].name, cmds[i].old, cmds[i].new>> \in Moves
    PROVE  /\ EventRefs(cmds, <<>>) = <<>>
           /\ EventRefs(cmds, Append(results, b)) =
                LET c == cmds[Len(results) + 1]
                IN  EventRefs(cmds, results) \o (IF b THEN <<<<c.name, c.old, c.new>>>> ELSE <<>>)
<1> DEFINE M(i) == <<cmds[i].name, cmds[i].old, cmds[i].new>>
<1> DEFINE n == Len(results)
<1> DEFINE more == Append(results, b)
<1> DEFINE box == [i \in DOMAIN results |-> IF results[i] THEN <<M(i)>> ELSE <<>>]
<1> DEFINE big == [i \in DOMAIN more |-> IF more[i] THEN <<M(i)>> ELSE <<>>]
<1> DEFINE x == IF b THEN <<M(n + 1)>> ELSE <<>>
<1>1. /\ n \in Nat /\ DOMAIN results = 1..n /\ DOMAIN more = 1..(n + 1)
      /\ more[n + 1] = b /\ \A i \in 1..n : more[i] = results[i]
  OBVIOUS
<1>2. \A i \in 1..(n + 1) : M(i) \in Moves
  OBVIOUS
<1>3. EventRefs(cmds, results) = FlattenSeq(box) /\ EventRefs(cmds, more) = FlattenSeq(big)
  BY DEF EventRefs
<1>4. EventRefs(cmds, <<>>) = <<>>
  <2>1. [i \in DOMAIN <<>> |-> IF <<>>[i] THEN <<M(i)>> ELSE <<>>] = <<>>
    OBVIOUS
  <2>2. FlattenSeq(<<>>) = <<>>
    BY DEF FlattenSeq
  <2> QED
    BY Zenon, <2>1, <2>2 DEF EventRefs
<1> HIDE DEF M, more, n
<1>5. \A i \in 1..(n + 1) : <<M(i)>> \in Seq(Moves) /\ <<>> \in Seq(Moves)
  BY <1>2
<1>6. x \in Seq(Moves)
  <2>1. n + 1 \in 1..(n + 1)
    BY <1>1
  <2> QED
    BY Zenon, <1>5, <2>1
<1>7. box \in Seq(Seq(Moves)) /\ Len(box) = n
  <2>1. \A i \in 1..n : box[i] \in Seq(Moves)
    <3>1. \A i \in 1..n : i \in 1..(n + 1)
      BY <1>1
    <3> QED
      BY Zenon, <1>1, <1>5, <3>1
  <2>2. box = [i \in 1..n |-> box[i]]
    BY Zenon, <1>1
  <2> HIDE DEF box
  <2> QED
    BY <1>1, <2>1, <2>2
<1>8. big = Append(box, x)
  <2>1. big = [i \in 1..(n + 1) |-> big[i]]
    BY Zenon, <1>1
  <2>2. \A i \in 1..n : big[i] = box[i]
    <3>1. \A i \in 1..n : i \in 1..(n + 1)
      BY <1>1
    <3> QED
      BY Zenon, <1>1, <3>1
  <2>3. big[n + 1] = x
    <3>1. n + 1 \in 1..(n + 1)
      BY <1>1
    <3> QED
      BY Zenon, <1>1, <3>1
  <2> HIDE DEF big, box, x
  <2> DEFINE y == Append(box, x)
  <2>4. /\ y \in Seq(Seq(Moves)) /\ Len(y) = n + 1 /\ y[n + 1] = x
        /\ \A i \in 1..n : y[i] = box[i]
    BY <1>1, <1>6, <1>7
  <2> HIDE DEF y
  <2>5. y = [i \in 1..(n + 1) |-> y[i]]
    BY <1>1, <2>4
  <2>6. \A i \in 1..(n + 1) : i \in 1..n \/ i = n + 1
    BY <1>1
  <2>7. \A i \in 1..(n + 1) : big[i] = y[i]
    BY Zenon, <2>2, <2>3, <2>4, <2>6
  <2> QED
    BY Zenon, <2>1, <2>5, <2>7 DEF y
<1>9. FlattenSeq(big) = FlattenSeq(box) \o x
  <2> HIDE DEF box, x, big
  <2> QED
    BY Zenon, <1>6, <1>7, <1>8, FlattenAppend
<1> QED
  BY Zenon, <1>3, <1>4, <1>9 DEF more, n, M

\* One more row is the last of what its push logged, and nothing to the others.
LEMMA LoggedAppend ==
    ASSUME NEW log \in Seq(Rows), NEW row \in Rows, NEW q
    PROVE  /\ LoggedBy(<<>>, q) = <<>>
           /\ LoggedBy(Append(log, row), q) =
                LoggedBy(log, q) \o
                  (IF row[4] = q THEN <<<<row[1], row[2], row[3]>>>> ELSE <<>>)
<1> DEFINE M(r) == <<r[1], r[2], r[3]>>
<1> DEFINE n == Len(log)
<1> DEFINE more == Append(log, row)
<1> DEFINE box == [i \in DOMAIN log |-> IF log[i][4] = q THEN <<M(log[i])>> ELSE <<>>]
<1> DEFINE big == [i \in DOMAIN more |-> IF more[i][4] = q THEN <<M(more[i])>> ELSE <<>>]
<1> DEFINE x == IF row[4] = q THEN <<M(row)>> ELSE <<>>
<1>1. /\ n \in Nat /\ DOMAIN log = 1..n /\ DOMAIN more = 1..(n + 1)
      /\ more[n + 1] = row /\ \A i \in 1..n : more[i] = log[i] /\ log[i] \in Rows
  OBVIOUS
<1>2. \A r \in Rows : M(r) \in Moves
  BY DEF Rows, Moves
<1>3. LoggedBy(log, q) = FlattenSeq(box) /\ LoggedBy(more, q) = FlattenSeq(big)
  BY DEF LoggedBy
<1>4. LoggedBy(<<>>, q) = <<>>
  <2>1. [i \in DOMAIN <<>> |-> IF <<>>[i][4] = q THEN <<M(<<>>[i])>> ELSE <<>>] = <<>>
    OBVIOUS
  <2>2. FlattenSeq(<<>>) = <<>>
    BY DEF FlattenSeq
  <2> QED
    BY Zenon, <2>1, <2>2 DEF LoggedBy
<1> HIDE DEF M, more, n
<1>5. \A r \in Rows : <<M(r)>> \in Seq(Moves) /\ <<>> \in Seq(Moves)
  BY <1>2
<1>6. x \in Seq(Moves)
  BY Zenon, <1>5
<1>7. box \in Seq(Seq(Moves)) /\ Len(box) = n
  <2>1. \A i \in 1..n : box[i] \in Seq(Moves)
    BY Zenon, <1>1, <1>5
  <2>2. box = [i \in 1..n |-> box[i]]
    BY Zenon, <1>1
  <2> HIDE DEF box
  <2> QED
    BY <1>1, <2>1, <2>2
<1>8. big = Append(box, x)
  <2>1. big = [i \in 1..(n + 1) |-> big[i]]
    BY Zenon, <1>1
  <2>2. \A i \in 1..n : big[i] = box[i]
    <3>1. \A i \in 1..n : i \in 1..(n + 1)
      BY <1>1
    <3> QED
      BY Zenon, <1>1, <3>1
  <2>3. big[n + 1] = x
    <3>1. n + 1 \in 1..(n + 1)
      BY <1>1
    <3> QED
      BY Zenon, <1>1, <3>1
  <2> HIDE DEF big, box, x
  <2> DEFINE y == Append(box, x)
  <2>4. /\ y \in Seq(Seq(Moves)) /\ Len(y) = n + 1 /\ y[n + 1] = x
        /\ \A i \in 1..n : y[i] = box[i]
    BY <1>1, <1>6, <1>7
  <2> HIDE DEF y
  <2>5. y = [i \in 1..(n + 1) |-> y[i]]
    BY <1>1, <2>4
  <2>6. \A i \in 1..(n + 1) : i \in 1..n \/ i = n + 1
    BY <1>1
  <2>7. \A i \in 1..(n + 1) : big[i] = y[i]
    BY Zenon, <2>2, <2>3, <2>4, <2>6
  <2> QED
    BY Zenon, <2>1, <2>5, <2>7 DEF y
<1>9. FlattenSeq(big) = FlattenSeq(box) \o x
  <2> HIDE DEF box, x, big
  <2> QED
    BY Zenon, <1>6, <1>7, <1>8, FlattenAppend
<1> QED
  BY Zenon, <1>3, <1>4, <1>9 DEF more, M

-----------------------------------------------------------------------------
(* The reflog and the commit graph.                                           *)

\* A row that starts where its ref is extends the history of the ref table.
LEMMA ReplaysAppend ==
    ASSUME NEW log \in Seq(Rows), NEW rs \in [Names -> Ids], Replays(log, rs),
           NEW n \in Names, NEW v \in Ids, NEW p \in Pushes
    PROVE  Replays(Append(log, <<n, rs[n], v, p>>), [rs EXCEPT ![n] = v])
<1> DEFINE row == <<n, rs[n], v, p>>
<1> DEFINE more == Append(log, row)
<1> DEFINE l == Len(log)
<1>1. more \in Seq(Rows) /\ l \in Nat /\ Len(more) = l + 1 /\ DOMAIN more = 1..(l + 1)
      /\ DOMAIN log = 1..l
  BY DEF Rows
<1>2. more[l + 1] = row /\ \A i \in 1..l : more[i] = log[i]
  OBVIOUS
<1>3. row[1] = n /\ row[2] = rs[n] /\ row[3] = v
  OBVIOUS
<1> HIDE DEF more, row, l
<1>4. ASSUME NEW k \in 0..l, NEW m \in Names, NEW w
      PROVE  LeavesAt(more, k, m, w) <=> LeavesAt(log, k, m, w)
  <2>1. \A j \in 1..k : j \in 1..l
    BY <1>1
  <2>2. {j \in 1..k : more[j][1] = m} = {j \in 1..k : log[j][1] = m}
    BY Zenon, <1>2, <2>1
  <2> QED
    BY Zenon, <2>1, <2>2, <1>2 DEF LeavesAt
<1>5. ASSUME NEW i \in DOMAIN more
      PROVE  LeavesAt(more, i - 1, more[i][1], more[i][2])
  <2>1. CASE i = l + 1
    <3>1. LeavesAt(log, l, n, rs[n])
      BY Zenon DEF Replays, l
    <3>2. l \in 0..l /\ i - 1 = l
      BY <1>1, <2>1
    <3> QED
      BY Zenon, <1>2, <1>3, <1>4, <2>1, <3>1, <3>2
  <2>2. CASE i \in 1..l
    <3>1. LeavesAt(log, i - 1, log[i][1], log[i][2])
      BY Zenon, <1>1, <2>2 DEF Replays
    <3>2. i - 1 \in 0..l
      BY <1>1, <2>2
    <3>3. log[i][1] \in Names
      BY <1>1, <2>2 DEF Rows
    <3> QED
      BY Zenon, <1>2, <1>4, <2>2, <3>1, <3>2, <3>3
  <2> QED
    BY <1>1, <2>1, <2>2
<1>6. ASSUME NEW m \in Names
      PROVE  LeavesAt(more, Len(more), m, [rs EXCEPT ![n] = v][m])
  <2>1. CASE m = n
    <3> DEFINE S == {j \in 1..(l + 1) : more[j][1] = n}
    <3>1. l + 1 \in S /\ \A i \in S : i <= l + 1
      BY <1>1, <1>2, <1>3
    <3>2. [rs EXCEPT ![n] = v][m] = v /\ v = more[l + 1][3]
      BY Zenon, <2>1, <1>2, <1>3
    <3> QED
      BY Zenon, <1>1, <2>1, <3>1, <3>2 DEF LeavesAt
  <2>2. CASE m # n
    <3>1. [rs EXCEPT ![n] = v][m] = rs[m]
      BY Zenon, <2>2
    <3>2. LeavesAt(log, l, m, rs[m])
      BY Zenon DEF Replays, l
    <3>3. l \in 0..l
      BY <1>1
    <3>4. LeavesAt(more, l, m, rs[m])
      BY Zenon, <1>4, <3>2, <3>3
    <3>5. {j \in 1..(l + 1) : more[j][1] = m} = {j \in 1..l : more[j][1] = m}
      BY <1>1, <1>2, <1>3, <2>2
    <3> QED
      BY Zenon, <1>1, <3>1, <3>4, <3>5 DEF LeavesAt
  <2> QED
    BY Zenon, <2>1, <2>2
<1> QED
  BY Zenon, <1>5, <1>6 DEF Replays, more, row

\* A commit is its own ancestor, ancestors of an ancestor are ancestors, and
\* what ff_ancestor proves from the recorded parents is true of the graph.
LEMMA AncestryFacts ==
    ASSUME known \subseteq Oids
    PROVE  /\ \A o \in Oids : <<o, o>> \in Ancestry
           /\ \A a, b, c \in Oids :
                <<a, b>> \in Ancestry /\ <<b, c>> \in Ancestry => <<a, c>> \in Ancestry
           /\ \A a, b \in Oids : FfAncestor(a, b) => <<a, b>> \in Ancestry
<1>1. \A a, b \in Oids : <<a, b>> \in Ancestry <=> a \in Walk(b, Oids)
  BY DEF Ancestry
<1>2. \A o \in Oids : o \in Walk(o, Oids)
  BY Zenon DEF Walk
<1>3. ASSUME NEW a \in Oids, NEW b \in Oids, NEW c \in Oids,
             a \in Walk(b, Oids), b \in Walk(c, Oids)
      PROVE  a \in Walk(c, Oids)
  BY Zenon, <1>3 DEF Walk
<1>4. ASSUME NEW a \in Oids, NEW b \in Oids, a \in Walk(b, known)
      PROVE  a \in Walk(b, Oids)
  BY Zenon, <1>4 DEF Walk
<1> QED
  BY Zenon, <1>1, <1>2, <1>3, <1>4 DEF FfAncestor

\* The least branch of a ref table that has one is a branch of it.
LEMMA AdoptedBranch ==
    ASSUME NEW rs, NEW hd \in Names
    PROVE  /\ AdoptHead(rs, hd) \in {hd} \cup Exists(rs)
           /\ Exists(rs) \cap Heads # {} => AdoptHead(rs, hd) \in Exists(rs)
<1> DEFINE B == Exists(rs) \cap Heads
<1>1. B \in SUBSET Nat
  BY Zenon, RefsAssumption DEF Exists
<1>2. B # {} => Min(B) \in B
  <2>1. B # {} => \E m \in B : \A k \in B : m <= k
    BY Zenon, <1>1, LeastNat
  <2> HIDE DEF B
  <2> QED
    BY Zenon, <2>1 DEF Min
<1> QED
  BY Zenon, <1>2 DEF AdoptHead

-----------------------------------------------------------------------------
(* The inductive invariant.                                                   *)

(* Only a committed push has rows in the reflog.                              *)
LogCommitted ==
  /\ Loggers(reflog) \subseteq Committed
  /\ \A q \in Pushes : LoggedBy(reflog, q) \in Seq(Moves)
  /\ \A q \in Pushes \ Committed : LoggedBy(reflog, q) = <<>>

(* A memo is never ahead of the table.                                        *)
MemoBehind ==
  \A m \in memo : m.version <= refs_version /\ (m.version = refs_version => m.refs = refs)

IInv ==
  /\ TypeOK
  /\ IsFiniteSet(Exists(refs)) /\ IsFiniteSet(Committed)
  /\ ReflogReplays /\ HeadResolves /\ LogCommitted /\ EventsMirrorReflog /\ MemoBehind

-----------------------------------------------------------------------------
(* The loop invariant of the write loop of push p.                            *)

LoopStates ==
  [refs : [Names -> Ids], moved : Seq(Rows), result : Seq(BOOLEAN)]

(* A command landed exactly when the list of moved refs has a row for it.     *)
Counted(s) ==
  /\ s.moved # <<>> <=> \E i \in DOMAIN s.result : s.result[i]
  /\ s.moved = <<>> => s.refs = refs

WithinCap(s) ==
  IsFiniteSet(Exists(s.refs)) /\ Cardinality(Exists(s.refs)) <= MaxRefs

Logged(s) == Replays(reflog \o s.moved, s.refs)

(* What the abstract register asks of one step.                               *)
Permitted(s, p) ==
  /\ head \in Exists(refs) => head \in Exists(s.refs)
  /\ \A n \in Names : s.refs[n] # refs[n] => pins[n] = NoOid /\ ScopeAllows(p, n)
  /\ \A n \in Names : n \in Exists(refs) /\ IsProtected(n) => <<refs[n], s.refs[n]>> \in Ancestry

(* The rows the loop writes are the push's own: no other push has more rows   *)
(* than it had, and p has some as soon as a command landed.                   *)
Stamped(s, p) ==
  /\ \A i \in DOMAIN s.moved : s.moved[i][4] = p
  /\ \A q \in Pushes : q # p => LoggedBy(reflog \o s.moved, q) = LoggedBy(reflog, q)
  /\ LoggedBy(reflog \o s.moved, p) \in Seq(Moves)
  /\ s.moved # <<>> => LoggedBy(reflog \o s.moved, p) # <<>>

Loop(p) ==
  {s \in LoopStates : /\ Counted(s) /\ WithinCap(s) /\ Logged(s) /\ Permitted(s, p)
                      /\ Stamped(s, p)}

(* The event that lists the commands landed so far lists what p has logged.   *)
Told(s, p, cmds) == LoggedBy(reflog \o s.moved, p) = EventRefs(cmds, s.result)


Commands == [name : Names, old : Ids, new : Ids]

\* The state the loop starts from: the table as the span reads it.
LEMMA LoopStart ==
    ASSUME IInv, NEW p \in Pushes, pushes[p].state = "open"
    PROVE  Unmoved \in Loop(p) /\ LoggedBy(reflog \o Unmoved.moved, p) = <<>>
<1> USE DEF IInv, TypeOK
<1>1. Unmoved \in LoopStates /\ Unmoved.refs = refs /\ Unmoved.moved = <<>>
      /\ Unmoved.result = <<>>
  BY DEF Unmoved, LoopStates
<1>2. Counted(Unmoved)
  BY <1>1 DEF Counted
<1>3. WithinCap(Unmoved)
  BY Zenon, <1>1 DEF WithinCap
<1>4. reflog \o <<>> = reflog
  OBVIOUS
<1>5. Logged(Unmoved)
  BY Zenon, <1>1, <1>4 DEF Logged, ReflogReplays
<1>6. Permitted(Unmoved, p)
  <2>1. \A n \in Names : n \in Exists(refs) => refs[n] \in Oids
    BY DEF Exists, Ids
  <2> QED
    BY Zenon, <1>1, <2>1, AncestryFacts DEF Permitted
<1>7. LoggedBy(reflog \o Unmoved.moved, p) = <<>>
  BY Zenon, <1>1, <1>4 DEF LogCommitted, Committed
<1>8. Stamped(Unmoved, p)
  <2>1. <<>> \in Seq(Moves) /\ DOMAIN <<>> = {}
    OBVIOUS
  <2> QED
    BY Zenon, <1>1, <1>4, <1>7, <2>1 DEF Stamped
<1> QED
  BY Zenon, <1>1, <1>2, <1>3, <1>5, <1>6, <1>7, <1>8 DEF Loop

(* The round of a command that lands takes s to t.                            *)
Landed(s, t, p, c) ==
  /\ t \in LoopStates
  /\ t.refs = [s.refs EXCEPT ![c.name] = c.new]
  /\ t.moved = Append(s.moved, <<c.name, s.refs[c.name], c.new, p>>)
  /\ t.result = Append(s.result, TRUE)
  /\ s.refs[c.name] = c.old

\* A command that is accepted lands.
LEMMA AppliedLands ==
    ASSUME NEW lv, NEW p \in Pushes, NEW s \in LoopStates, NEW c \in Commands,
           Accepts(s.refs, lv, head, p, c)
    PROVE  Landed(s, Applied(s, lv, p, c), p, c)
<1>1. s.refs[c.name] = c.old
  BY Zenon DEF Accepts
<1>2. Applied(s, lv, p, c) = [refs |-> [s.refs EXCEPT ![c.name] = c.new],
                              moved |-> Append(s.moved, <<c.name, c.old, c.new, p>>),
                              result |-> Append(s.result, TRUE)]
  BY Zenon DEF Applied
<1>3. /\ [s.refs EXCEPT ![c.name] = c.new] \in [Names -> Ids]
      /\ Append(s.moved, <<c.name, c.old, c.new, p>>) \in Seq(Rows)
      /\ Append(s.result, TRUE) \in Seq(BOOLEAN)
  BY DEF LoopStates, Commands, Rows
<1> DEFINE r == [s.refs EXCEPT ![c.name] = c.new]
<1> DEFINE m == Append(s.moved, <<c.name, c.old, c.new, p>>)
<1> DEFINE q == Append(s.result, TRUE)
<1> HIDE DEF r, m, q
<1>4. [refs |-> r, moved |-> m, result |-> q] \in LoopStates
  BY <1>3 DEF LoopStates, r, m, q
<1> HIDE DEF LoopStates
<1>5. Applied(s, lv, p, c) = [refs |-> r, moved |-> m, result |-> q]
  BY Zenon, <1>2 DEF r, m, q
<1>6. Applied(s, lv, p, c).refs = r /\ Applied(s, lv, p, c).moved = m
      /\ Applied(s, lv, p, c).result = q
  BY <1>5
<1> QED
  BY Zenon, <1>1, <1>4, <1>5, <1>6 DEF Landed, r, m, q

\* Creating keeps the ref table under its cap, since a create is refused at it.
LEMMA AppliedCap ==
    ASSUME NEW lv, NEW p \in Pushes, NEW s \in LoopStates, WithinCap(s), NEW c \in Commands,
           Accepts(s.refs, lv, head, p, c)
    PROVE  WithinCap(Applied(s, lv, p, c))
<1> DEFINE rs == [s.refs EXCEPT ![c.name] = c.new]
<1>1. Applied(s, lv, p, c).refs = rs /\ s.refs[c.name] = c.old
  <2>1. Landed(s, Applied(s, lv, p, c), p, c)
    BY Zenon, AppliedLands
  <2> QED
    BY Zenon, <2>1 DEF Landed
<1>2. c.name \in Names /\ s.refs \in [Names -> Ids]
  BY DEF LoopStates, Commands
<1>3. MaxRefs \in Nat
  BY Zenon, RefsAssumption
<1>4. IsFiniteSet(Exists(s.refs)) /\ Cardinality(Exists(s.refs)) \in Nat
      /\ Cardinality(Exists(s.refs)) <= MaxRefs
  BY Zenon, FS_CardinalityType DEF WithinCap
<1>5. CASE c.old = NoOid
  <2>1. c.new # NoOid /\ Cardinality(Exists(s.refs)) < MaxRefs
    BY Zenon, <1>5 DEF Accepts
  <2>2. Exists(rs) = Exists(s.refs) \cup {c.name} /\ c.name \notin Exists(s.refs)
    BY <1>1, <1>2, <1>5, <2>1 DEF Exists
  <2>3. IsFiniteSet(Exists(rs)) /\ Cardinality(Exists(rs)) = Cardinality(Exists(s.refs)) + 1
    <3>1. /\ IsFiniteSet(Exists(s.refs) \cup {c.name})
          /\ Cardinality(Exists(s.refs) \cup {c.name}) =
               IF c.name \in Exists(s.refs) THEN Cardinality(Exists(s.refs))
                                            ELSE Cardinality(Exists(s.refs)) + 1
      BY Zenon, <1>4, FS_AddElement
    <3> QED
      BY Zenon, <2>2, <3>1
  <2>4. Cardinality(Exists(rs)) <= MaxRefs
    BY <1>3, <1>4, <2>1, <2>3
  <2> QED
    BY Zenon, <1>1, <2>3, <2>4 DEF WithinCap
<1>6. CASE c.old # NoOid
  <2>1. Exists(rs) \subseteq Exists(s.refs)
    BY <1>1, <1>2, <1>6 DEF Exists
  <2>2. IsFiniteSet(Exists(rs)) /\ Cardinality(Exists(rs)) <= Cardinality(Exists(s.refs))
        /\ Cardinality(Exists(rs)) \in Nat
    BY Zenon, <1>4, <2>1, FS_Subset, FS_CardinalityType
  <2>3. Cardinality(Exists(rs)) <= MaxRefs
    BY <1>3, <1>4, <2>2
  <2> QED
    BY Zenon, <1>1, <2>2, <2>3 DEF WithinCap
<1> QED
  BY Zenon, <1>5, <1>6

\* The row a landed command writes extends the history of the ref table.
LEMMA AppliedLogged ==
    ASSUME NEW lv, NEW p \in Pushes, NEW s \in LoopStates, Logged(s), NEW c \in Commands,
           reflog \in Seq(Rows), Accepts(s.refs, lv, head, p, c)
    PROVE  Logged(Applied(s, lv, p, c))
<1> DEFINE row == <<c.name, s.refs[c.name], c.new, p>>
<1>1. /\ Applied(s, lv, p, c).refs = [s.refs EXCEPT ![c.name] = c.new]
      /\ Applied(s, lv, p, c).moved = Append(s.moved, row)
  <2>1. Landed(s, Applied(s, lv, p, c), p, c)
    BY Zenon, AppliedLands
  <2> QED
    BY Zenon, <2>1 DEF Landed
<1>2. /\ c.name \in Names /\ c.new \in Ids /\ s.refs \in [Names -> Ids]
      /\ s.moved \in Seq(Rows) /\ row \in Rows
  BY DEF LoopStates, Commands, Rows
<1>3. reflog \o s.moved \in Seq(Rows)
  BY <1>2
<1>4. Replays(Append(reflog \o s.moved, row), [s.refs EXCEPT ![c.name] = c.new])
  BY Zenon, <1>2, <1>3, ReplaysAppend DEF Logged
<1>5. reflog \o Append(s.moved, row) = Append(reflog \o s.moved, row)
  <2> HIDE DEF row
  <2> QED
    BY SMTT(20), <1>2
<1> QED
  BY Zenon, <1>1, <1>4, <1>5 DEF Logged

\* A landed command moves an unpinned ref inside the scopes of its push, never
\* deletes HEAD's target, and moves a protected ref only forward.
LEMMA AppliedPermitted ==
    ASSUME TypeOK, NEW lv, NEW p \in Pushes, NEW s \in LoopStates, Permitted(s, p),
           NEW c \in Commands, Accepts(s.refs, lv, head, p, c)
    PROVE  Permitted(Applied(s, lv, p, c), p)
<1> DEFINE rs == [s.refs EXCEPT ![c.name] = c.new]
<1>1. Applied(s, lv, p, c).refs = rs /\ s.refs[c.name] = c.old
  <2>1. Landed(s, Applied(s, lv, p, c), p, c)
    BY Zenon, AppliedLands
  <2> QED
    BY Zenon, <2>1 DEF Landed
<1>2. /\ c.name \in Names /\ c.new \in Ids /\ s.refs \in [Names -> Ids]
      /\ refs \in [Names -> Ids] /\ known \subseteq Oids /\ head \in Names
  BY DEF LoopStates, Commands, TypeOK
<1>3. rs[c.name] = c.new /\ \A n \in Names : n # c.name => rs[n] = s.refs[n]
  BY Zenon, <1>2
<1> HIDE DEF rs
<1>4. head \in Exists(refs) => head \in Exists(rs)
  BY Zenon, <1>2, <1>3 DEF Permitted, Accepts, Exists
<1>5. \A n \in Names : rs[n] # refs[n] => pins[n] = NoOid /\ ScopeAllows(p, n)
  BY Zenon, <1>3 DEF Permitted, Accepts
<1>6. ASSUME NEW n \in Names, n \in Exists(refs), IsProtected(n)
      PROVE  <<refs[n], rs[n]>> \in Ancestry
  <2>1. <<refs[n], s.refs[n]>> \in Ancestry
    BY Zenon, <1>6 DEF Permitted
  <2>2. CASE n # c.name
    BY Zenon, <1>3, <2>1, <2>2
  <2>3. CASE n = c.name
    <3>1. refs[n] \in Oids /\ s.refs[n] \in Oids
      BY <2>1 DEF Ancestry
    <3>2. c.old # NoOid
      BY Zenon, <3>1, <1>1, <2>3, RefsAssumption
    <3>3. ProtectedVerdict(c)
      BY Zenon, <1>6, <2>3 DEF Accepts
    <3>4. FfAncestor(c.old, c.new) /\ c.new \in Oids
      BY Zenon, <3>2, <3>3, <1>2 DEF ProtectedVerdict, Ids
    <3>5. <<s.refs[n], c.new>> \in Ancestry
      BY Zenon, <1>1, <1>2, <2>3, <3>1, <3>4, AncestryFacts
    <3> QED
      BY Zenon, <1>2, <1>3, <2>1, <2>3, <3>1, <3>4, <3>5, AncestryFacts
  <2> QED
    BY Zenon, <2>2, <2>3
<1> QED
  BY Zenon, <1>1, <1>4, <1>5, <1>6 DEF Permitted

\* The row of a landed command is what its push logged last.
LEMMA AppliedStamped ==
    ASSUME NEW lv, NEW p \in Pushes, NEW s \in LoopStates, Stamped(s, p), NEW c \in Commands,
           reflog \in Seq(Rows), LogCommitted, Accepts(s.refs, lv, head, p, c)
    PROVE  /\ Stamped(Applied(s, lv, p, c), p)
           /\ LoggedBy(reflog \o Applied(s, lv, p, c).moved, p) =
                LoggedBy(reflog \o s.moved, p) \o <<<<c.name, c.old, c.new>>>>
<1> DEFINE row == <<c.name, s.refs[c.name], c.new, p>>
<1> DEFINE t == Applied(s, lv, p, c)
<1>1. t.moved = Append(s.moved, row) /\ s.refs[c.name] = c.old
  <2>1. Landed(s, t, p, c)
    BY Zenon, AppliedLands
  <2> HIDE DEF t
  <2> QED
    BY Zenon, <2>1 DEF Landed
<1>2. /\ s.moved \in Seq(Rows) /\ row \in Rows /\ <<c.name, c.old, c.new>> \in Moves
      /\ row[1] = c.name /\ row[2] = s.refs[c.name] /\ row[3] = c.new /\ row[4] = p
  BY DEF LoopStates, Commands, Rows, Moves
<1> HIDE DEF t, row
<1>3. reflog \o s.moved \in Seq(Rows)
  BY <1>2
<1>4. reflog \o t.moved = Append(reflog \o s.moved, row)
  BY SMTT(20), <1>1, <1>2
<1>5. LoggedBy(reflog \o t.moved, p) = LoggedBy(reflog \o s.moved, p) \o <<<<c.name, c.old, c.new>>>>
  <2>1. LoggedBy(Append(reflog \o s.moved, row), p) =
          LoggedBy(reflog \o s.moved, p) \o
            (IF row[4] = p THEN <<<<row[1], row[2], row[3]>>>> ELSE <<>>)
    BY Zenon, <1>2, <1>3, LoggedAppend
  <2> QED
    BY Zenon, <1>1, <1>2, <1>4, <2>1
<1>6. ASSUME NEW q \in Pushes, q # p
      PROVE  LoggedBy(reflog \o t.moved, q) = LoggedBy(reflog, q)
  <2>1. LoggedBy(Append(reflog \o s.moved, row), q) =
          LoggedBy(reflog \o s.moved, q) \o
            (IF row[4] = q THEN <<<<row[1], row[2], row[3]>>>> ELSE <<>>)
    BY Zenon, <1>2, <1>3, LoggedAppend
  <2>2. LoggedBy(reflog \o s.moved, q) = LoggedBy(reflog, q)
    BY Zenon, <1>6 DEF Stamped
  <2> DEFINE had == LoggedBy(reflog, q)
  <2>3. had \in Seq(Moves)
    BY Zenon DEF LogCommitted
  <2>4. LoggedBy(reflog \o t.moved, q) = had \o <<>>
    BY Zenon, <1>2, <1>4, <1>6, <2>1, <2>2
  <2> HIDE DEF had
  <2>5. had \o <<>> = had
    BY <2>3
  <2> QED
    BY Zenon, <2>4, <2>5 DEF had
<1>7. LoggedBy(reflog \o t.moved, p) \in Seq(Moves) /\ LoggedBy(reflog \o t.moved, p) # <<>>
  <2> DEFINE had == LoggedBy(reflog \o s.moved, p)
  <2> DEFINE now == LoggedBy(reflog \o t.moved, p)
  <2> DEFINE m == <<c.name, c.old, c.new>>
  <2>1. had \in Seq(Moves) /\ now = had \o <<m>> /\ m \in Moves
    BY Zenon, <1>2, <1>5 DEF Stamped
  <2> HIDE DEF had, now, m
  <2>2. now \in Seq(Moves) /\ now # <<>>
    BY <2>1
  <2> QED
    BY Zenon, <2>2 DEF now
<1>8. \A i \in DOMAIN t.moved : t.moved[i][4] = p
  <2>1. \A i \in DOMAIN t.moved : t.moved[i] = row \/ (i \in DOMAIN s.moved /\ t.moved[i] = s.moved[i])
    BY <1>1, <1>2
  <2>2. ASSUME NEW i \in DOMAIN t.moved PROVE t.moved[i][4] = p
    <3>1. CASE t.moved[i] = row
      BY Zenon, <1>2, <3>1
    <3>2. CASE i \in DOMAIN s.moved /\ t.moved[i] = s.moved[i]
      <4>1. s.moved[i][4] = p
        BY Zenon, <3>2 DEF Stamped
      <4> QED
        BY Zenon, <3>2, <4>1
    <3> QED
      BY Zenon, <2>1, <3>1, <3>2
  <2> QED
    BY Zenon, <2>2
<1> QED
  BY Zenon, <1>5, <1>6, <1>7, <1>8 DEF Stamped, t

\* Every round of the write loop keeps its invariant, and the event with it.
LEMMA LoopRound ==
    ASSUME IInv, NEW lv, NEW p \in Pushes, NEW s \in Loop(p), NEW c \in Commands
    PROVE  /\ Applied(s, lv, p, c) \in Loop(p)
           /\ \E b \in BOOLEAN :
                /\ Applied(s, lv, p, c).result = Append(s.result, b)
                /\ LoggedBy(reflog \o Applied(s, lv, p, c).moved, p) =
                     LoggedBy(reflog \o s.moved, p) \o
                       (IF b THEN <<<<c.name, c.old, c.new>>>> ELSE <<>>)
<1> DEFINE t == Applied(s, lv, p, c)
<1>1. /\ s \in LoopStates /\ Counted(s) /\ WithinCap(s) /\ Logged(s) /\ Permitted(s, p)
      /\ Stamped(s, p)
  BY Zenon DEF Loop
<1>2. s.moved \in Seq(Rows) /\ s.result \in Seq(BOOLEAN)
  BY <1>1 DEF LoopStates
<1>3. CASE Accepts(s.refs, lv, head, p, c)
  <2>0. Landed(s, t, p, c)
    BY Zenon, <1>1, <1>3, AppliedLands
  <2> HIDE DEF t
  <2>1. /\ t \in LoopStates
        /\ t.moved = Append(s.moved, <<c.name, s.refs[c.name], c.new, p>>)
        /\ t.result = Append(s.result, TRUE)
    BY Zenon, <2>0 DEF Landed
  <2>2. WithinCap(t) /\ Logged(t) /\ Permitted(t, p)
    BY Zenon, <1>1, <1>3, AppliedCap, AppliedLogged, AppliedPermitted DEF IInv, TypeOK, t
  <2>3. t.moved # <<>>
    <3> DEFINE row == <<c.name, s.refs[c.name], c.new, p>>
    <3>1. t.moved = Append(s.moved, row)
      BY Zenon, <2>1
    <3> HIDE DEF row
    <3>2. Len(t.moved) = Len(s.moved) + 1 /\ Len(s.moved) \in Nat
      BY <1>2, <3>1
    <3> QED
      BY <3>2
  <2>4. Len(s.result) + 1 \in DOMAIN t.result /\ t.result[Len(s.result) + 1]
    BY <1>2, <2>1
  <2>5. /\ Stamped(t, p)
        /\ LoggedBy(reflog \o t.moved, p) =
             LoggedBy(reflog \o s.moved, p) \o <<<<c.name, c.old, c.new>>>>
    BY Zenon, <1>1, <1>3, AppliedStamped DEF IInv, TypeOK, t
  <2>6. t \in Loop(p)
    BY Zenon, <2>1, <2>2, <2>3, <2>4, <2>5 DEF Loop, Counted
  <2> QED
    BY Zenon, <2>1, <2>5, <2>6 DEF t
<1>4. CASE ~Accepts(s.refs, lv, head, p, c)
  <2>1. t = [s EXCEPT !.result = Append(s.result, FALSE)]
    BY Zenon, <1>4 DEF Applied
  <2> HIDE DEF t
  <2>2. t \in LoopStates /\ t.refs = s.refs /\ t.moved = s.moved
        /\ t.result = Append(s.result, FALSE)
    <3> DEFINE q == Append(s.result, FALSE)
    <3>1. q \in Seq(BOOLEAN)
      BY <1>2
    <3>2. t = [s EXCEPT !.result = q]
      BY Zenon, <2>1
    <3> HIDE DEF q
    <3>3. t \in LoopStates /\ t.refs = s.refs /\ t.moved = s.moved /\ t.result = q
      BY Zenon, <1>1, <3>1, <3>2 DEF LoopStates
    <3> QED
      BY Zenon, <3>3 DEF q
  <2>3. (\E i \in DOMAIN t.result : t.result[i]) <=> (\E i \in DOMAIN s.result : s.result[i])
    BY SMTT(20), <1>2, <2>2
  <2>4. t \in Loop(p)
    BY Zenon, <1>1, <2>2, <2>3 DEF Loop, Counted, WithinCap, Logged, Permitted, Stamped
  <2>5. LoggedBy(reflog \o t.moved, p) = LoggedBy(reflog \o s.moved, p) \o <<>>
    <3> DEFINE had == LoggedBy(reflog \o s.moved, p)
    <3>1. had \in Seq(Moves)
      BY Zenon, <1>1 DEF Stamped
    <3> HIDE DEF had
    <3>2. had \o <<>> = had
      BY <3>1
    <3> QED
      BY Zenon, <2>2, <3>2 DEF had
  <2> QED
    BY Zenon, <2>2, <2>4, <2>5 DEF t
<1> QED
  BY Zenon, <1>3, <1>4

\* What the write loop of a commit leaves, and what the event of it lists.
LEMMA LoopEnd ==
    ASSUME IInv, NEW lv, NEW p \in Pushes, pushes[p].state = "open", NEW cmds \in Batches
    PROVE  /\ ApplyAll(lv, p, cmds) \in Loop(p)
           /\ Told(ApplyAll(lv, p, cmds), p, cmds)
<1>1. cmds \in Seq(Commands)
  BY Zenon, RefsAssumption DEF Commands, Ids
<1>2. Len(cmds) \in Nat /\ \A i \in 1..Len(cmds) : cmds[i] \in Commands
  BY <1>1
<1>3. \A i \in 1..Len(cmds) : <<cmds[i].name, cmds[i].old, cmds[i].new>> \in Moves
  BY <1>2 DEF Commands, Moves
<1> DEFINE n == Len(cmds)
<1> DEFINE In(i, s) == s \in Loop(p) /\ Len(s.result) = i /\ Told(s, p, cmds)
<1> DEFINE I == {r \in (0..n) \X Loop(p) : In(r[1], r[2])}
<1>4. ASSUME NEW i \in 0..n, NEW s
      PROVE  <<i, s>> \in I <=> In(i, s)
  BY Zenon
<1>5. <<0, Unmoved>> \in I
  <2>1. Unmoved \in Loop(p) /\ LoggedBy(reflog \o Unmoved.moved, p) = <<>>
    BY Zenon, LoopStart
  <2>2. Unmoved.result = <<>> /\ Len(<<>>) = 0 /\ 0 \in 0..n
    BY <1>2 DEF Unmoved
  <2>3. [j \in DOMAIN <<>> |-> IF <<>>[j] THEN <<<<cmds[j].name, cmds[j].old, cmds[j].new>>>>
                                          ELSE <<>>] = <<>>
    OBVIOUS
  <2>4. FlattenSeq(<<>>) = <<>>
    BY DEF FlattenSeq
  <2>5. EventRefs(cmds, <<>>) = <<>>
    BY Zenon, <2>3, <2>4 DEF EventRefs
  <2>6. In(0, Unmoved)
    BY Zenon, <2>1, <2>2, <2>5 DEF Told
  <2> HIDE DEF In, I
  <2> QED
    BY Zenon, <1>4, <2>2, <2>6
<1>6. ASSUME NEW i \in 1..n, NEW s, <<i - 1, s>> \in I
      PROVE  <<i, Applied(s, lv, p, cmds[i])>> \in I
  <2> DEFINE t == Applied(s, lv, p, cmds[i])
  <2> DEFINE m == <<cmds[i].name, cmds[i].old, cmds[i].new>>
  <2>1. i - 1 \in 0..n /\ i \in 0..n /\ (i - 1) + 1 = i /\ \A j \in 1..i : j \in 1..n
    BY <1>2
  <2>2. s \in Loop(p) /\ Len(s.result) = i - 1 /\ Told(s, p, cmds) /\ cmds[i] \in Commands
    BY Zenon, <1>2, <1>4, <1>6, <2>1
  <2>3. PICK b \in BOOLEAN :
          /\ t.result = Append(s.result, b)
          /\ LoggedBy(reflog \o t.moved, p) =
               LoggedBy(reflog \o s.moved, p) \o (IF b THEN <<m>> ELSE <<>>)
    BY Zenon, <2>2, LoopRound
  <2>4. t \in Loop(p)
    BY Zenon, <2>2, LoopRound
  <2>5. s.result \in Seq(BOOLEAN)
    BY <2>2 DEF Loop, LoopStates
  <2> HIDE DEF t
  <2>6. Len(t.result) = i
    <3> HIDE DEF n
    <3> QED
      BY <2>1, <2>2, <2>3, <2>5
  <2>7. EventRefs(cmds, t.result) = EventRefs(cmds, s.result) \o (IF b THEN <<m>> ELSE <<>>)
    <3>1. \A j \in 1..(Len(s.result) + 1) : <<cmds[j].name, cmds[j].old, cmds[j].new>> \in Moves
      BY Zenon, <1>3, <2>1, <2>2
    <3>2. Len(s.result) + 1 = i
      BY Zenon, <2>1, <2>2
    <3> QED
      BY Zenon, <2>3, <2>5, <3>1, <3>2, EventAppend
  <2>8. Told(t, p, cmds)
    BY Zenon, <2>2, <2>3, <2>7 DEF Told
  <2>9. In(i, t)
    BY Zenon, <2>4, <2>6, <2>8
  <2> HIDE DEF In, I
  <2> QED
    BY Zenon, <1>4, <2>1, <2>9 DEF t
<1>7. <<n, ApplyAll(lv, p, cmds)>> \in I
  <2> HIDE DEF I
  <2> QED
    BY Zenon, <1>2, <1>5, <1>6, LoopInvariant
<1>8. n \in 0..n
  BY <1>2
<1> QED
  BY Zenon, <1>4, <1>7, <1>8

-----------------------------------------------------------------------------
(* A commit.                                                                  *)

(* finish_push of a push none of whose commands lands.                        *)
RefusedCommit(p, rh) ==
  /\ pushes[p].state = "open"
  /\ \E row \in PushRows : row.state = "rejected" /\ pushes' = [pushes EXCEPT ![p] = row]
  /\ head' = IF rh \in Exists(refs) THEN rh ELSE head
  /\ UNCHANGED <<refs, refs_version, reflog, packs, eventVars, authVars, known,
                 gc_epoch, memo>>

(* The outbox takes event e, or counts it as lost.                            *)
Posts(e) ==
  /\ IF Len(outbox) >= MaxPending
       THEN dropped' = dropped + 1 /\ UNCHANGED outbox
       ELSE outbox' = Append(outbox, e) /\ UNCHANGED dropped
  /\ UNCHANGED sent

(* The span that commits push p with the outcome s of its write loop.         *)
LandedCommit(p, s, rh) ==
  /\ pushes[p].state = "open" /\ CommitAuth(p) /\ s \in Loop(p)
  /\ \E row \in PushRows : /\ row.state = "committed" /\ row.result = s.result
                           /\ pushes' = [pushes EXCEPT ![p] = row]
  /\ refs' = s.refs
  /\ head' = IF rh \in Exists(s.refs) THEN rh
             ELSE IF s.moved = <<>> THEN head ELSE AdoptHead(s.refs, head)
  /\ packs' \in [Pushes -> PackRows]
  /\ \E step \in {0, 1} : /\ refs_version' = refs_version + step
                          /\ s.moved # <<>> => step = 1
  /\ reflog' = reflog \o s.moved
  /\ IF s.moved = <<>> THEN UNCHANGED eventVars
     ELSE Posts([push |-> p, refs |-> LoggedBy(reflog', p)])
  /\ UNCHANGED <<authVars, known, gc_epoch, memo>>

\* A commit is refused as a whole or lands what its write loop leaves.
LEMMA CommitSplit ==
    ASSUME IInv, NEW p \in Pushes, NEW cmds \in Batches, NEW atomic \in BOOLEAN,
           NEW epoch \in Nat, NEW rh, Commit(p, cmds, atomic, epoch, rh)
    PROVE  RefusedCommit(p, rh) \/ \E s \in Loop(p) : LandedCommit(p, s, rh)
<1>0. pushes[p].state = "open"
  BY Zenon DEF Commit
<1> DEFINE haspack == packs[p].state # "none"
<1> DEFINE lv == Live([packs EXCEPT ![p].state = IF haspack THEN "live" ELSE @])
<1> DEFINE s == ApplyAll(lv, p, cmds)
<1> DEFINE refused == Refused(p, lv, cmds, atomic, epoch)
<1> DEFINE anyok == \E i \in DOMAIN s.result : s.result[i]
<1>1. /\ s \in Loop(p) /\ s.result \in Seq(BOOLEAN) /\ Told(s, p, cmds)
      /\ anyok <=> s.moved # <<>>
  <2>1. s \in Loop(p) /\ Told(s, p, cmds)
    BY Zenon, <1>0, LoopEnd
  <2> HIDE DEF s
  <2>2. s.result \in Seq(BOOLEAN)
    BY <2>1 DEF Loop, LoopStates
  <2> QED
    BY Zenon, <2>1, <2>2 DEF Loop, Counted
<1>2. /\ pushes \in [Pushes -> PushRows] /\ packs \in [Pushes -> PackRows]
      /\ refs_version \in Nat
  BY Zenon DEF IInv, TypeOK
<1>3. [i \in DOMAIN cmds |-> FALSE] \in Seq(BOOLEAN)
  <2>1. cmds \in Seq(Commands)
    BY Zenon, RefsAssumption DEF Commands, Ids
  <2>2. Len(cmds) \in Nat /\ DOMAIN cmds = 1..Len(cmds)
    BY <2>1
  <2>3. [i \in 1..Len(cmds) |-> FALSE] \in Seq(BOOLEAN)
    BY <2>2
  <2> QED
    BY Zenon, <2>2, <2>3
<1>4. CASE refused
  <2> DEFINE none == [i \in DOMAIN cmds |-> FALSE]
  <2>1. /\ pushes[p].state = "open"
        /\ pushes' = [pushes EXCEPT ![p].state = "rejected", ![p].atomic = atomic,
                                    ![p].epoch = epoch, ![p].result = none]
        /\ refs' = refs /\ head' = IF rh \in Exists(refs) THEN rh ELSE head
        /\ UNCHANGED <<refs_version, reflog, packs, eventVars>>
        /\ UNCHANGED <<authVars, known, gc_epoch, memo>>
    BY Zenon, <1>4 DEF Commit
  <2> DEFINE row == [pushes[p] EXCEPT !.state = "rejected", !.atomic = atomic,
                                      !.epoch = epoch, !.result = none]
  <2>2. none \in Seq(BOOLEAN)
    BY Zenon, <1>3
  <2> HIDE DEF none, refused, lv, s, anyok
  <2>3. pushes' = [pushes EXCEPT ![p] = row] /\ row \in PushRows /\ row.state = "rejected"
    BY Zenon, <1>2, <2>1, <2>2 DEF PushRows
  <2> QED
    BY Zenon, <2>1, <2>3 DEF RefusedCommit
<1>5. CASE ~refused
  <2>1. /\ pushes[p].state = "open"
        /\ pushes' = [pushes EXCEPT ![p].state = "committed", ![p].atomic = atomic,
                                    ![p].epoch = epoch, ![p].result = s.result]
        /\ refs' = s.refs
        /\ head' = IF rh \in Exists(s.refs) THEN rh
                   ELSE IF anyok THEN AdoptHead(s.refs, head) ELSE head
        /\ packs' = [packs EXCEPT ![p].state = IF haspack THEN "live" ELSE @]
        /\ refs_version' = refs_version + VersionStep(anyok, haspack)
        /\ reflog' = reflog \o s.moved
        /\ IF anyok THEN RecordPushEvent(p, cmds, s.result) ELSE UNCHANGED eventVars
        /\ UNCHANGED <<authVars, known, gc_epoch, memo>>
    BY Zenon, <1>5 DEF Commit
  <2>2. CommitAuth(p)
    BY Zenon, <1>5 DEF Refused
  <2> HIDE DEF s, refused, lv, anyok
  <2>3. packs' \in [Pushes -> PackRows]
    BY Zenon, <1>2, <2>1 DEF PackRows
  <2>4. \E step \in {0, 1} : refs_version' = refs_version + step /\ (s.moved # <<>> => step = 1)
    BY Zenon, <1>1, <2>1 DEF VersionStep
  <2> DEFINE row == [pushes[p] EXCEPT !.state = "committed", !.atomic = atomic,
                                      !.epoch = epoch, !.result = s.result]
  <2>5. /\ pushes' = [pushes EXCEPT ![p] = row] /\ row \in PushRows
        /\ row.state = "committed" /\ row.result = s.result
    BY Zenon, <1>1, <1>2, <2>1 DEF PushRows
  <2>6. LoggedBy(reflog', p) = EventRefs(cmds, s.result)
    BY Zenon, <1>1, <2>1 DEF Told
  <2>7. IF s.moved = <<>> THEN UNCHANGED eventVars
        ELSE Posts([push |-> p, refs |-> LoggedBy(reflog', p)])
    BY Zenon, <1>1, <2>1, <2>6 DEF RecordPushEvent, Posts
  <2>8. head' = IF rh \in Exists(s.refs) THEN rh
                ELSE IF s.moved = <<>> THEN head ELSE AdoptHead(s.refs, head)
    BY Zenon, <1>1, <2>1
  <2> QED
    BY Zenon, <1>1, <2>1, <2>2, <2>3, <2>4, <2>5, <2>7, <2>8 DEF LandedCommit
<1> QED
  BY Zenon, <1>4, <1>5

\* A refused commit keeps the invariant: only the push row and HEAD move.
LEMMA RefusedKeeps ==
    ASSUME IInv, NEW p \in Pushes, NEW rh, RefusedCommit(p, rh)
    PROVE  IInv'
<1> USE DEF IInv
<1>1. PICK row \in PushRows : row.state = "rejected" /\ pushes' = [pushes EXCEPT ![p] = row]
  BY Zenon DEF RefusedCommit
<1>2. /\ UNCHANGED refs /\ UNCHANGED refs_version /\ UNCHANGED reflog /\ UNCHANGED packs
      /\ UNCHANGED outbox /\ UNCHANGED sent /\ UNCHANGED dropped /\ UNCHANGED pins
      /\ UNCHANGED protected /\ UNCHANGED tokens /\ UNCHANGED known /\ UNCHANGED gc_epoch /\ UNCHANGED memo
      /\ head' = IF rh \in Exists(refs) THEN rh ELSE head
      /\ pushes[p].state = "open" /\ pushes \in [Pushes -> PushRows]
  BY Zenon DEF RefusedCommit, authVars, eventVars, TypeOK
<1>3. Committed' = Committed
  BY <1>1, <1>2 DEF Committed
<1>4. pushes' \in [Pushes -> PushRows]
  BY Zenon, <1>1, <1>2
<1>5. head' \in Names
  BY Zenon, <1>2 DEF TypeOK, Exists
<1>6. TypeOK'
  BY Zenon, <1>2, <1>3, <1>4, <1>5 DEF TypeOK, Exists
<1>7. IsFiniteSet(Exists(refs))' /\ IsFiniteSet(Committed)'
  BY Zenon, <1>2, <1>3 DEF Exists
<1>8. ReflogReplays' /\ MemoBehind'
  BY Zenon, <1>2 DEF ReflogReplays, MemoBehind
<1>9. HeadResolves'
  BY Zenon, <1>2 DEF HeadResolves, Exists
<1>10. LogCommitted' /\ EventsMirrorReflog'
  BY Zenon, <1>2, <1>3 DEF LogCommitted, EventsMirrorReflog
<1> QED
  BY Zenon, <1>6, <1>7, <1>8, <1>9, <1>10

\* A landed commit keeps the types and the bounds.
LEMMA LandedTypes ==
    ASSUME IInv, NEW p \in Pushes, NEW s, NEW rh, LandedCommit(p, s, rh)
    PROVE  TypeOK' /\ IsFiniteSet(Exists(refs))' /\ IsFiniteSet(Committed)'
<1>1. PICK row \in PushRows : /\ row.state = "committed" /\ row.result = s.result
                              /\ pushes' = [pushes EXCEPT ![p] = row]
  BY Zenon DEF LandedCommit
<1>2. /\ s \in LoopStates /\ WithinCap(s) /\ refs' = s.refs /\ reflog' = reflog \o s.moved
      /\ UNCHANGED pins /\ UNCHANGED protected /\ UNCHANGED tokens /\ UNCHANGED known
      /\ UNCHANGED gc_epoch /\ UNCHANGED memo
      /\ pushes[p].state = "open" /\ packs' \in [Pushes -> PackRows]
      /\ IF s.moved = <<>> THEN UNCHANGED eventVars
         ELSE Posts([push |-> p, refs |-> LoggedBy(reflog', p)])
      /\ LoggedBy(reflog', p) \in Seq(Moves)
  BY Zenon DEF LandedCommit, Loop, Stamped, authVars
<1>3. s.refs \in [Names -> Ids] /\ s.moved \in Seq(Rows)
  BY <1>2 DEF LoopStates
<1>4. head' \in Names
  <2>1. head \in Names
    BY Zenon DEF IInv, TypeOK
  <2>2. AdoptHead(s.refs, head) \in Names
    BY Zenon, <2>1, AdoptedBranch DEF Exists
  <2> QED
    BY Zenon, <2>1, <2>2 DEF LandedCommit, Exists
<1>5. pushes' \in [Pushes -> PushRows]
  BY Zenon, <1>1 DEF IInv, TypeOK
<1>6. reflog' \in Seq(Rows)
  <2>1. reflog \in Seq(Rows)
    BY Zenon DEF IInv, TypeOK
  <2> QED
    BY <1>2, <1>3, <2>1
<1>7. /\ outbox' \in Seq(Events) /\ sent' \in Seq(Events) /\ dropped' \in Nat
      /\ Len(outbox') <= MaxPending
  <2>1. /\ outbox \in Seq(Events) /\ sent \in Seq(Events) /\ dropped \in Nat
        /\ Len(outbox) <= MaxPending
    BY Zenon DEF IInv, TypeOK
  <2>2. MaxPending \in Nat
    BY Zenon, RefsAssumption
  <2> DEFINE e == [push |-> p, refs |-> LoggedBy(reflog', p)]
  <2>3. e \in Events
    BY Zenon, <1>2 DEF Events, Moves
  <2> HIDE DEF e
  <2>4. IF s.moved = <<>> THEN UNCHANGED eventVars ELSE Posts(e)
    BY Zenon, <1>2 DEF e
  <2>5. CASE s.moved = <<>> \/ Len(outbox) >= MaxPending
    BY <2>1, <2>4, <2>5 DEF eventVars, Posts
  <2>6. CASE s.moved # <<>> /\ ~(Len(outbox) >= MaxPending)
    <3>1. outbox' = Append(outbox, e) /\ dropped' = dropped /\ sent' = sent
      BY Zenon, <2>4, <2>6 DEF Posts
    <3> QED
      BY <2>1, <2>2, <2>3, <2>6, <3>1
  <2> QED
    BY Zenon, <2>5, <2>6
<1>8. Committed' = Committed \cup {p} /\ p \notin Committed
  <2>1. pushes \in [Pushes -> PushRows]
    BY Zenon DEF IInv, TypeOK
  <2> QED
    BY <1>1, <1>2, <2>1 DEF Committed
<1>9. IsFiniteSet(Committed') /\ Cardinality(Committed') = Cardinality(Committed) + 1
      /\ Cardinality(Committed) \in Nat
  <2>1. IsFiniteSet(Committed)
    BY Zenon DEF IInv
  <2>2. /\ IsFiniteSet(Committed \cup {p})
        /\ Cardinality(Committed \cup {p}) =
             IF p \in Committed THEN Cardinality(Committed) ELSE Cardinality(Committed) + 1
    BY Zenon, <2>1, FS_AddElement
  <2> QED
    BY Zenon, <1>8, <2>1, <2>2, FS_CardinalityType
<1>10. refs_version' \in Nat /\ refs_version' <= Cardinality(Committed')
  <2>1. refs_version \in Nat /\ refs_version <= Cardinality(Committed)
    BY Zenon DEF IInv, TypeOK
  <2>2. refs_version' = refs_version \/ refs_version' = refs_version + 1
    BY <2>1 DEF LandedCommit
  <2> QED
    BY <1>9, <2>1, <2>2
<1>11. IsFiniteSet(Exists(refs')) /\ Cardinality(Exists(refs')) <= MaxRefs
  BY Zenon, <1>2 DEF WithinCap
<1>12. /\ pins' \in [Names -> Ids] /\ protected' \subseteq Patterns
       /\ tokens' \in [Tokens -> TokenRows] /\ known' \subseteq Oids /\ gc_epoch' \in Nat
       /\ memo' \subseteq [version : Nat, head : Names, refs : [Names -> Ids]]
  BY Zenon, <1>2 DEF IInv, TypeOK
<1> QED
  BY Zenon, <1>2, <1>3, <1>4, <1>5, <1>6, <1>7, <1>9, <1>10, <1>11, <1>12 DEF TypeOK, Exists

\* A landed commit writes its rows after all others, and one event for them.
LEMMA LandedEvents ==
    ASSUME IInv, NEW p \in Pushes, NEW s, NEW rh, LandedCommit(p, s, rh)
    PROVE  LogCommitted' /\ EventsMirrorReflog'
<1> DEFINE e == [push |-> p, refs |-> LoggedBy(reflog', p)]
<1> DEFINE events == sent \o outbox
<1> DEFINE L == Loggers(reflog)
<1> DEFINE n == Len(reflog)
<1>1. /\ s \in LoopStates /\ Stamped(s, p) /\ reflog' = reflog \o s.moved
      /\ IF s.moved = <<>> THEN UNCHANGED eventVars ELSE Posts(e)
      /\ Committed' = Committed \cup {p} /\ p \notin Committed
  <2>1. /\ s \in LoopStates /\ Stamped(s, p) /\ reflog' = reflog \o s.moved
        /\ IF s.moved = <<>> THEN UNCHANGED eventVars ELSE Posts(e)
        /\ pushes[p].state = "open"
    BY Zenon DEF LandedCommit, Loop
  <2>2. PICK row \in PushRows : row.state = "committed" /\ pushes' = [pushes EXCEPT ![p] = row]
    BY Zenon DEF LandedCommit
  <2>3. pushes \in [Pushes -> PushRows]
    BY Zenon DEF IInv, TypeOK
  <2>4. Committed' = Committed \cup {p} /\ p \notin Committed
    BY <2>1, <2>2, <2>3 DEF Committed
  <2> QED
    BY Zenon, <2>1, <2>4
<1>2. /\ outbox \in Seq(Events) /\ sent \in Seq(Events) /\ dropped \in Nat
      /\ reflog \in Seq(Rows) /\ IsFiniteSet(Committed) /\ LogCommitted
  BY Zenon DEF IInv, TypeOK
<1>3. s.moved \in Seq(Rows) /\ \A i \in DOMAIN s.moved : s.moved[i][4] = p
  BY Zenon, <1>1 DEF LoopStates, Stamped
<1> HIDE DEF e
\* Rows: the old ones stay where they are, the new ones are p's and follow.
<1>4. /\ n \in Nat /\ DOMAIN reflog = 1..n /\ \A a \in DOMAIN reflog' : a \in Nat
      /\ \A a \in DOMAIN reflog : a \in DOMAIN reflog' /\ reflog'[a] = reflog[a]
  BY <1>1, <1>2, <1>3
<1>5. \A a \in DOMAIN reflog' : a \notin DOMAIN reflog => a > n /\ reflog'[a][4] = p
  <2> DEFINE m == s.moved
  <2>1. m \in Seq(Rows) /\ reflog' = reflog \o m /\ \A i \in DOMAIN m : m[i][4] = p
    BY Zenon, <1>1, <1>3
  <2> HIDE DEF m
  <2>2. ASSUME NEW a \in DOMAIN reflog', a \notin DOMAIN reflog
        PROVE  a > n /\ a - n \in DOMAIN m /\ reflog'[a] = m[a - n]
    BY <1>2, <2>1, <2>2
  <2> QED
    BY Zenon, <2>1, <2>2
<1>6. s.moved # <<>> => \E a \in DOMAIN reflog' : reflog'[a][4] = p
  <2> SUFFICES ASSUME s.moved # <<>> PROVE \E a \in DOMAIN reflog' : reflog'[a][4] = p
    BY Zenon
  <2>1. n + 1 \in DOMAIN reflog' /\ n + 1 \notin DOMAIN reflog
    BY <1>1, <1>2, <1>3
  <2> QED
    BY Zenon, <1>5, <2>1
<1>7. s.moved = <<>> => reflog' = reflog
  BY <1>1, <1>2
<1>8. L \subseteq Committed /\ p \notin L
  BY Zenon, <1>1, <1>2 DEF LogCommitted
<1>9. Loggers(reflog') = IF s.moved = <<>> THEN L ELSE L \cup {p}
  <2>1. CASE s.moved = <<>>
    BY Zenon, <1>7, <2>1
  <2>2. CASE s.moved # <<>>
    <3>1. \A q : q \in Loggers(reflog') => q \in L \cup {p}
      BY Zenon, <1>4, <1>5 DEF Loggers
    <3>2. \A q : q \in L \cup {p} => q \in Loggers(reflog')
      BY Zenon, <1>4, <1>6, <2>2 DEF Loggers
    <3> HIDE DEF L
    <3>3. Loggers(reflog') = L \cup {p}
      BY Zenon, <3>1, <3>2
    <3> QED
      BY Zenon, <2>2, <3>3
  <2> QED
    BY Zenon, <2>1, <2>2
<1>10. \A q \in Pushes : q # p => LoggedBy(reflog', q) = LoggedBy(reflog, q)
  BY Zenon, <1>1 DEF Stamped
<1>11. LogCommitted'
  <2>1. Loggers(reflog') \subseteq Committed'
    <3> HIDE DEF L
    <3> QED
      BY Zenon, <1>1, <1>8, <1>9
  <2>2. LoggedBy(reflog', p) \in Seq(Moves)
    BY Zenon, <1>1 DEF Stamped
  <2>3. \A q \in Pushes : LoggedBy(reflog', q) \in Seq(Moves)
    BY Zenon, <1>2, <1>10, <2>2 DEF LogCommitted
  <2>4. \A q \in Pushes \ Committed' : LoggedBy(reflog', q) = <<>>
    BY Zenon, <1>1, <1>2, <1>10 DEF LogCommitted
  <2> QED
    BY Zenon, <2>1, <2>3, <2>4 DEF LogCommitted
\* Events: the old ones stay true, since no other push logged anything.
<1>12. /\ events \in Seq(Events) /\ Len(events) \in Nat /\ DOMAIN events = 1..Len(events)
       /\ Len(events) = Len(sent) + Len(outbox)
  BY <1>2
<1> HIDE DEF events, L, n
<1>13. /\ \A i \in DOMAIN events :
            events[i].refs # <<>> /\ events[i].refs = LoggedBy(reflog, events[i].push)
       /\ \A i, j \in DOMAIN events : i < j =>
            \A a, b \in DOMAIN reflog :
              reflog[a][4] = events[i].push /\ reflog[b][4] = events[j].push => a < b
       /\ Len(events) + dropped = Cardinality(L)
  BY Zenon DEF IInv, EventsMirrorReflog, Mirror, events, L
<1>14. \A i \in DOMAIN events : events[i].push \in Pushes /\ events[i].push # p
  <2>1. \A i \in DOMAIN events : events[i] \in Events
    BY <1>12
  <2>2. \A i \in DOMAIN events : events[i].push \in Pushes
    BY Zenon, <2>1 DEF Events
  <2>3. p \in Pushes \ Committed
    BY Zenon, <1>1
  <2> QED
    BY Zenon, <1>2, <1>13, <2>2, <2>3 DEF LogCommitted
<1>15. \A i \in DOMAIN events :
         events[i].refs # <<>> /\ events[i].refs = LoggedBy(reflog', events[i].push)
  BY Zenon, <1>10, <1>13, <1>14
<1>16. ASSUME NEW i \in DOMAIN events, NEW a \in DOMAIN reflog', reflog'[a][4] = events[i].push
       PROVE  a \in DOMAIN reflog /\ reflog[a][4] = events[i].push
  BY Zenon, <1>4, <1>5, <1>14, <1>16
<1>17. \A i, j \in DOMAIN events : i < j =>
         \A a, b \in DOMAIN reflog' :
           reflog'[a][4] = events[i].push /\ reflog'[b][4] = events[j].push => a < b
  BY Zenon, <1>13, <1>16
<1>18. /\ IsFiniteSet(L) /\ Cardinality(L) \in Nat
       /\ Cardinality(L \cup {p}) = Cardinality(L) + 1
  <2>1. IsFiniteSet(L)
    BY Zenon, <1>2, <1>8, FS_Subset
  <2>2. Cardinality(L \cup {p}) = IF p \in L THEN Cardinality(L) ELSE Cardinality(L) + 1
    BY Zenon, <2>1, FS_AddElement
  <2> QED
    BY Zenon, <1>8, <2>1, <2>2, FS_CardinalityType
<1> DEFINE events1 == sent' \o outbox'
<1>19. CASE s.moved = <<>> \/ Len(outbox) >= MaxPending
  <2>1. /\ outbox' = outbox /\ sent' = sent
        /\ dropped' = IF s.moved = <<>> THEN dropped ELSE dropped + 1
    BY Zenon, <1>1, <1>19 DEF eventVars, Posts
  <2>2. events1 = events
    BY Zenon, <2>1 DEF events
  <2> HIDE DEF events1
  <2>3. Len(events) + dropped' = Cardinality(Loggers(reflog'))
    BY <1>2, <1>9, <1>12, <1>13, <1>18, <2>1
  <2>4. Mirror(reflog', events, dropped')
    BY Zenon, <1>15, <1>17, <2>3 DEF Mirror
  <2> QED
    BY Zenon, <1>11, <2>2, <2>4 DEF EventsMirrorReflog, events1
<1>20. CASE s.moved # <<>> /\ ~(Len(outbox) >= MaxPending)
  <2>1. outbox' = Append(outbox, e) /\ dropped' = dropped /\ sent' = sent
    BY Zenon, <1>1, <1>20 DEF Posts
  <2>2. e \in Events /\ e.push = p /\ e.refs = LoggedBy(reflog', p) /\ e.refs # <<>>
    <3>1. LoggedBy(reflog', p) \in Seq(Moves) /\ LoggedBy(reflog', p) # <<>>
      BY Zenon, <1>1, <1>20 DEF Stamped
    <3> DEFINE ls == LoggedBy(reflog', p)
    <3> HIDE DEF ls
    <3>2. e = [push |-> p, refs |-> ls]
      BY Zenon DEF e, ls
    <3>3. e \in Events /\ e.push = p /\ e.refs = ls
      BY <3>1, <3>2 DEF Events, Moves, ls
    <3> QED
      BY Zenon, <3>1, <3>3 DEF ls
  <2> DEFINE k == Len(events)
  <2>3. /\ Len(events1) = k + 1 /\ DOMAIN events1 = 1..(k + 1) /\ events1[k + 1] = e
        /\ \A i \in DOMAIN events : events1[i] = events[i]
    <3>1. events1 = Append(events, e)
      BY SMTT(20), <1>2, <2>1, <2>2 DEF events
    <3> HIDE DEF events1
    <3> QED
      BY <1>12, <2>2, <3>1
  <2> HIDE DEF events1, k
  <2>4. \A i \in DOMAIN events1 : i \in DOMAIN events \/ i = k + 1
    BY <1>12, <2>3 DEF k
  <2>5. k \in Nat /\ \A i \in DOMAIN events : ~(k + 1 < i)
    BY <1>12 DEF k
  <2>6. \A i \in DOMAIN events1 :
          events1[i].refs # <<>> /\ events1[i].refs = LoggedBy(reflog', events1[i].push)
    BY Zenon, <1>15, <2>2, <2>3, <2>4
  <2>7. ASSUME NEW i \in DOMAIN events1, NEW j \in DOMAIN events1, i < j,
               NEW a \in DOMAIN reflog', NEW b \in DOMAIN reflog',
               reflog'[a][4] = events1[i].push, reflog'[b][4] = events1[j].push
        PROVE  a < b
    <3>1. i \in DOMAIN events
      <4>1. ~(k + 1 < k + 1)
        BY <2>5
      <4> QED
        BY Zenon, <2>4, <2>5, <2>7, <4>1
    <3>2. CASE j \in DOMAIN events
      BY Zenon, <1>17, <2>3, <2>7, <3>1, <3>2
    <3>3. CASE j = k + 1
      <4>1. reflog'[b][4] = p
        BY Zenon, <2>2, <2>3, <2>7, <3>3
      <4>2. b \notin DOMAIN reflog
        <5>1. \A c \in DOMAIN reflog : reflog[c][4] # p
          BY Zenon, <1>8 DEF L, Loggers
        <5> QED
          BY Zenon, <1>4, <4>1, <5>1
      <4>3. a \in DOMAIN reflog
        BY Zenon, <1>16, <2>3, <2>7, <3>1
      <4>4. b > n /\ b \in Nat /\ a \in 1..n
        BY Zenon, <1>4, <1>5, <4>2, <4>3
      <4> QED
        BY <1>4, <4>4
    <3> QED
      BY Zenon, <2>4, <3>2, <3>3
  <2>8. Len(events1) + dropped' = Cardinality(Loggers(reflog'))
    BY <1>2, <1>9, <1>12, <1>13, <1>18, <1>20, <2>1, <2>3 DEF k
  <2>9. Mirror(reflog', events1, dropped')
    BY Zenon, <2>6, <2>7, <2>8 DEF Mirror
  <2> QED
    BY Zenon, <1>11, <2>9 DEF EventsMirrorReflog, events1
<1> QED
  BY Zenon, <1>19, <1>20

\* A landed commit keeps the histories, HEAD and the memo in step.
LEMMA LandedKeeps ==
    ASSUME IInv, NEW p \in Pushes, NEW s, NEW rh, LandedCommit(p, s, rh)
    PROVE  IInv'
<1>1. PICK row \in PushRows : /\ row.state = "committed" /\ row.result = s.result
                              /\ pushes' = [pushes EXCEPT ![p] = row]
  BY Zenon DEF LandedCommit
<1>2. /\ s \in LoopStates /\ Counted(s) /\ Logged(s) /\ Permitted(s, p) /\ Stamped(s, p)
      /\ refs' = s.refs /\ reflog' = reflog \o s.moved
      /\ UNCHANGED memo /\ pushes[p].state = "open"
      /\ IF s.moved = <<>> THEN UNCHANGED eventVars
         ELSE Posts([push |-> p, refs |-> LoggedBy(reflog', p)])
  BY Zenon DEF LandedCommit, Loop, authVars
<1>3. s.refs \in [Names -> Ids] /\ s.moved \in Seq(Rows)
  BY <1>2 DEF LoopStates
<1>4. TypeOK' /\ IsFiniteSet(Exists(refs))' /\ IsFiniteSet(Committed)'
  BY Zenon, LandedTypes
<1>5. ReflogReplays'
  BY Zenon, <1>2 DEF Logged, ReflogReplays
<1>6. HeadResolves'
  <2>1. head \in Names /\ HeadResolves
    BY Zenon DEF IInv, TypeOK
  <2>2. Exists(s.refs) \cap Heads # {} => AdoptHead(s.refs, head) \in Exists(s.refs)
    BY Zenon, <2>1, AdoptedBranch
  <2>3. s.moved = <<>> => s.refs = refs
    BY Zenon, <1>2 DEF Counted
  <2>4. Exists(s.refs) \cap Heads # {} => head' \in Exists(s.refs)
    BY Zenon, <2>1, <2>2, <2>3 DEF LandedCommit, HeadResolves
  <2> QED
    BY Zenon, <1>2, <2>4 DEF HeadResolves, Exists
<1>7. LogCommitted' /\ EventsMirrorReflog'
  BY Zenon, LandedEvents
<1>8. MemoBehind'
  <2>1. /\ MemoBehind /\ refs_version \in Nat
        /\ memo \subseteq [version : Nat, head : Names, refs : [Names -> Ids]]
    BY Zenon DEF IInv, TypeOK
  <2>2. \/ refs_version' = refs_version + 1
        \/ refs_version' = refs_version /\ refs' = refs
    BY <2>1, <1>2 DEF LandedCommit, Counted
  <2>3. \A m \in memo : m.version \in Nat
    BY <2>1
  <2>4. ASSUME NEW m \in memo
        PROVE  m.version <= refs_version' /\ (m.version = refs_version' => m.refs = refs')
    BY <2>1, <2>2, <2>3 DEF MemoBehind
  <2> QED
    BY Zenon, <1>2, <2>4 DEF MemoBehind
<1> QED
  BY Zenon, <1>4, <1>5, <1>6, <1>7, <1>8 DEF IInv

-----------------------------------------------------------------------------
(* Every other span leaves the refs and the reflog alone, and the events but  *)
(* for how many of them are delivered.                                        *)

EventsKept ==
  /\ sent' \o outbox' = sent \o outbox /\ UNCHANGED dropped
  /\ sent' \in Seq(Events) /\ outbox' \in Seq(Events) /\ Len(outbox') <= MaxPending

QuietStep ==
  /\ UNCHANGED <<refs, head, refs_version, reflog>> /\ EventsKept
  /\ pins' \in [Names -> Ids] /\ protected' \subseteq Patterns
  /\ tokens' \in [Tokens -> TokenRows] /\ pushes' \in [Pushes -> PushRows]
  /\ packs' \in [Pushes -> PackRows] /\ known' \subseteq Oids /\ gc_epoch' \in Nat
  /\ \A p \in Pushes : /\ (pushes[p].state = "committed") <=> (pushes'[p].state = "committed")
                       /\ pushes[p].state = "committed" => pushes'[p].result = pushes[p].result
  /\ memo' \subseteq memo \cup {[version |-> refs_version, head |-> head, refs |-> refs]}
  /\ \A n \in Names : pins[n] = NoOid /\ pins'[n] # NoOid => n \in Exists(refs)

\* A quiet step keeps the invariant.
LEMMA QuietKeeps ==
    ASSUME IInv, QuietStep
    PROVE  IInv'
<1>1. /\ UNCHANGED refs /\ UNCHANGED head /\ UNCHANGED refs_version /\ UNCHANGED reflog
      /\ EventsKept
  BY Zenon DEF QuietStep
<1>2. Committed' = Committed
  BY Zenon DEF QuietStep, Committed
<1> DEFINE now == [version |-> refs_version, head |-> head, refs |-> refs]
<1>3. /\ now \in [version : Nat, head : Names, refs : [Names -> Ids]]
      /\ now.version = refs_version /\ now.refs = refs /\ refs_version <= refs_version
  BY DEF IInv, TypeOK
<1>4. TypeOK'
  <2> HIDE DEF now
  <2>1. memo' \subseteq [version : Nat, head : Names, refs : [Names -> Ids]]
    BY Zenon, <1>3 DEF QuietStep, IInv, TypeOK, now
  <2> QED
    BY Zenon, <1>1, <1>2, <2>1 DEF QuietStep, EventsKept, IInv, TypeOK, Exists
<1>5. MemoBehind'
  <2> HIDE DEF now
  <2> QED
    BY Zenon, <1>1, <1>3 DEF QuietStep, IInv, MemoBehind, now
<1>6. LogCommitted' /\ EventsMirrorReflog'
  BY Zenon, <1>1, <1>2 DEF IInv, LogCommitted, EventsMirrorReflog, EventsKept
<1> QED
  BY Zenon, <1>1, <1>2, <1>4, <1>5, <1>6 DEF IInv, ReflogReplays, HeadResolves, Exists

\* Moving the first of what waits to the end of what went changes no order.
LEMMA HandOver ==
    ASSUME NEW E, NEW went \in Seq(E), NEW waits \in Seq(E), waits # <<>>
    PROVE  Append(went, Head(waits)) \o Tail(waits) = went \o waits
<1> DEFINE f == Append(went, Head(waits)) \o Tail(waits)
<1> DEFINE g == went \o waits
<1> DEFINE a == Len(went)
<1> DEFINE b == Len(waits)
<1>1. a \in Nat /\ b \in Nat /\ b > 0 /\ Head(waits) = waits[1]
  OBVIOUS
<1>2. g \in Seq(E) /\ Len(g) = a + b
      /\ \A i \in 1..(a + b) : g[i] = IF i <= a THEN went[i] ELSE waits[i - a]
  OBVIOUS
<1>3. Tail(waits) \in Seq(E) /\ Len(Tail(waits)) = b - 1
      /\ \A i \in 1..(b - 1) : Tail(waits)[i] = waits[i + 1]
  OBVIOUS
<1>4. Append(went, Head(waits)) \in Seq(E) /\ Len(Append(went, Head(waits))) = a + 1
      /\ \A i \in 1..(a + 1) : Append(went, Head(waits))[i] = IF i <= a THEN went[i] ELSE waits[1]
  BY <1>1
<1> DEFINE u == Append(went, Head(waits))
<1> DEFINE v == Tail(waits)
<1> HIDE DEF u, v
<1>5. /\ Len(u) = a + 1 /\ Len(v) = b - 1
      /\ \A i \in 1..(a + 1) : u[i] = IF i <= a THEN went[i] ELSE waits[1]
      /\ \A i \in 1..(b - 1) : v[i] = waits[i + 1]
  BY Zenon, <1>3, <1>4 DEF u, v
<1> HIDE DEF f, g, a, b
<1>6. f \in Seq(E) /\ Len(f) = a + b
      /\ \A i \in 1..(a + b) : f[i] = IF i <= a + 1 THEN u[i] ELSE v[i - (a + 1)]
  <2>1. f = u \o v /\ u \in Seq(E) /\ v \in Seq(E)
    BY Zenon, <1>3, <1>4 DEF f, u, v
  <2>2. f \in Seq(E) /\ Len(f) = Len(u) + Len(v)
        /\ \A i \in 1..(Len(u) + Len(v)) : f[i] = IF i <= Len(u) THEN u[i] ELSE v[i - Len(u)]
    BY <2>1
  <2>3. Len(u) + Len(v) = a + b
    BY <1>1, <1>5
  <2> QED
    BY Zenon, <1>5, <2>2, <2>3
<1>7. ASSUME NEW i \in 1..(a + b) PROVE f[i] = g[i]
  <2>1. CASE i <= a
    <3>1. i \in 1..(a + 1) /\ i <= a + 1
      BY <1>1, <2>1
    <3> QED
      BY Zenon, <1>2, <1>5, <1>6, <2>1, <3>1
  <2>2. CASE i = a + 1
    <3>1. i \in 1..(a + 1) /\ i <= a + 1 /\ ~(i <= a) /\ i - a = 1
      BY <1>1, <2>2
    <3> QED
      BY Zenon, <1>2, <1>5, <1>6, <3>1
  <2>3. CASE i > a + 1
    <3>1. i - (a + 1) \in 1..(b - 1) /\ (i - (a + 1)) + 1 = i - a /\ ~(i <= a) /\ ~(i <= a + 1)
      BY <1>1, <2>3
    <3> QED
      BY Zenon, <1>2, <1>5, <1>6, <3>1
  <2> QED
    BY <1>1, <2>1, <2>2, <2>3
<1>8. f = [i \in 1..(a + b) |-> f[i]] /\ g = [i \in 1..(a + b) |-> g[i]]
  BY <1>1, <1>2, <1>6
<1>9. f = g
  BY Zenon, <1>7, <1>8
<1> QED
  BY Zenon, <1>9 DEF f, g

\* A step that leaves the outbox alone keeps the events.
LEMMA EventsStill ==
    ASSUME IInv, UNCHANGED eventVars
    PROVE  EventsKept
<1>1. outbox' = outbox /\ sent' = sent /\ dropped' = dropped
  BY Zenon DEF eventVars
<1> QED
  BY Zenon, <1>1 DEF EventsKept, IInv, TypeOK

\* What administrators do to tokens, pins and patterns is quiet.
LEMMA AdminsQuiet ==
    ASSUME IInv, Admins
    PROVE  QuietStep
<1> USE DEF IInv, TypeOK, refVars, authVars
<1>0. UNCHANGED eventVars => EventsKept
  BY Zenon, EventsStill
<1>1. ASSUME NEW t \in Tokens, NEW l \in {"read", "write"}, NEW sc \in Scopes, TokenCreate(t, l, sc)
      PROVE  QuietStep
  <2>1. sc \in SUBSET Names
    BY Zenon, RefsAssumption
  <2>2. [state |-> "minted", level |-> l, scope |-> sc] \in TokenRows
    BY <2>1 DEF TokenRows
  <2>3. tokens' \in [Tokens -> TokenRows]
    BY Zenon, <1>1, <2>2 DEF TokenCreate
  <2> QED
    BY Zenon, <1>0, <1>1, <2>3 DEF TokenCreate, QuietStep
<1>2. ASSUME NEW t \in Tokens, TokenExpire(t) \/ TokenRevoke(t)
      PROVE  QuietStep
  <2>1. tokens' \in [Tokens -> TokenRows]
    <3>1. \E st \in {"expired", "revoked"} : tokens' = [tokens EXCEPT ![t].state = st]
      BY Zenon, <1>2 DEF TokenExpire, TokenRevoke
    <3> QED
      BY ZenonT(30), <3>1 DEF TokenRows
  <2> QED
    BY Zenon, <1>0, <1>2, <2>1 DEF TokenExpire, TokenRevoke, QuietStep
<1>3. ASSUME NEW n \in Names, NEW o \in Oids, Pin(n, o)
      PROVE  QuietStep
  <2>1. pins' \in [Names -> Ids]
    BY Zenon, <1>3 DEF Pin, Ids
  <2>2. refs[n] = o /\ o # NoOid
    BY Zenon, <1>3, RefsAssumption DEF Pin
  <2>3. \A m \in Names : pins[m] = NoOid /\ pins'[m] # NoOid => m \in Exists(refs)
    BY Zenon, <1>3, <2>2 DEF Pin, Exists
  <2> QED
    BY Zenon, <1>0, <1>3, <2>1, <2>3 DEF Pin, QuietStep
<1>4. ASSUME NEW n \in Names, Unpin(n)
      PROVE  QuietStep
  <2>1. pins' \in [Names -> Ids]
    BY Zenon, <1>4 DEF Unpin, Ids
  <2>2. \A m \in Names : pins[m] = NoOid /\ pins'[m] # NoOid => m \in Exists(refs)
    BY Zenon, <1>4 DEF Unpin
  <2> QED
    BY Zenon, <1>0, <1>4, <2>1, <2>2 DEF Unpin, QuietStep
<1>5. ASSUME NEW pat \in Patterns, Protect(pat) \/ Unprotect(pat)
      PROVE  QuietStep
  BY Zenon, <1>0, <1>5 DEF Protect, Unprotect, QuietStep
<1> QED
  BY Zenon, <1>1, <1>2, <1>3, <1>4, <1>5 DEF Admins

\* So are beginning, indexing and aborting a push, a delivery, a sweep, an
\* advertisement and an eviction.
LEMMA OthersQuiet ==
    ASSUME IInv
    PROVE  /\ \A p \in Pushes : \A a \in Tokens \cup {Admin} : PushBegin(p, a) => QuietStep
           /\ \A p \in Pushes : \A objs \in PackSets : PushIndex(p, objs) => QuietStep
           /\ \A p \in Pushes : PushAbort(p) => QuietStep
           /\ \A dead \in SUBSET Pushes : Sweep(dead) => QuietStep
           /\ RefsSnapshot => QuietStep
           /\ Evict => QuietStep
           /\ Deliver => QuietStep
           /\ UNCHANGED vars => QuietStep
<1> USE DEF IInv, TypeOK, refVars, authVars
<1>0. UNCHANGED eventVars => EventsKept
  BY Zenon, EventsStill
<1>1. ASSUME NEW p \in Pushes, NEW a \in Tokens \cup {Admin}, PushBegin(p, a)
      PROVE  QuietStep
  <2>1. PushScope(a) \in SUBSET Names
    BY DEF PushScope, TokenRow, TokenRows
  <2> DEFINE row == [NoPush EXCEPT !.state = "open", !.auth = a, !.scope = PushScope(a),
                                   !.epoch = gc_epoch]
  <2>2. row \in PushRows /\ row.state = "open"
    <3>1. NoPush \in PushRows
      BY DEF NoPush, PushRows
    <3>2. gc_epoch \in Nat
      OBVIOUS
    <3> QED
      BY Zenon, <2>1, <3>1, <3>2 DEF PushRows
  <2>3. pushes' = [pushes EXCEPT ![p] = row] /\ pushes[p].state = "none"
    BY Zenon, <1>1 DEF PushBegin
  <2> HIDE DEF row
  <2>4. pushes' \in [Pushes -> PushRows]
    BY Zenon, <2>2, <2>3
  <2>5. \A q \in Pushes : /\ (pushes[q].state = "committed") <=> (pushes'[q].state = "committed")
                          /\ pushes[q].state = "committed" => pushes'[q].result = pushes[q].result
    BY <2>2, <2>3
  <2> QED
    BY Zenon, <1>0, <1>1, <2>4, <2>5 DEF PushBegin, QuietStep
<1>2. ASSUME NEW p \in Pushes, NEW objs \in PackSets, PushIndex(p, objs)
      PROVE  QuietStep
  <2>1. objs \in SUBSET Oids
    BY Zenon, RefsAssumption
  <2>2. [state |-> "ingesting", objs |-> objs] \in PackRows
    BY <2>1 DEF PackRows
  <2>3. packs' \in [Pushes -> PackRows] /\ known' \subseteq Oids
    BY Zenon, <1>2, <2>1, <2>2 DEF PushIndex
  <2> QED
    BY Zenon, <1>0, <1>2, <2>3 DEF PushIndex, QuietStep
<1>3. ASSUME NEW p \in Pushes, PushAbort(p)
      PROVE  QuietStep
  <2>1. pushes' = [pushes EXCEPT ![p].state = "dead"] /\ pushes[p].state = "open"
    BY Zenon, <1>3 DEF PushAbort
  <2>2. pushes' \in [Pushes -> PushRows]
    BY ZenonT(40), <2>1 DEF PushRows
  <2>3. \A q \in Pushes : /\ (pushes[q].state = "committed") <=> (pushes'[q].state = "committed")
                          /\ pushes[q].state = "committed" => pushes'[q].result = pushes[q].result
    BY <2>1 DEF PushRows
  <2> QED
    BY Zenon, <1>0, <1>3, <2>2, <2>3 DEF PushAbort, QuietStep
<1>4. ASSUME NEW dead \in SUBSET Pushes, Sweep(dead)
      PROVE  QuietStep
  <2>1. packs' = [p \in Pushes |-> IF p \in dead THEN [packs[p] EXCEPT !.state = "dead"]
                                                 ELSE packs[p]]
    BY Zenon, <1>4 DEF Sweep
  <2>2. packs' \in [Pushes -> PackRows]
    <3>1. \A r \in PackRows : [r EXCEPT !.state = "dead"] \in PackRows
      BY Zenon DEF PackRows
    <3>2. packs \in [Pushes -> PackRows]
      BY Zenon
    <3>3. ASSUME NEW p \in Pushes
          PROVE  (IF p \in dead THEN [packs[p] EXCEPT !.state = "dead"] ELSE packs[p]) \in PackRows
      BY Zenon, <3>1, <3>2
    <3> QED
      BY Zenon, <2>1, <3>3
  <2>3. gc_epoch' \in Nat
    BY <1>4 DEF Sweep
  <2> QED
    BY Zenon, <1>0, <1>4, <2>2, <2>3 DEF Sweep, QuietStep
<1>5. ASSUME RefsSnapshot \/ Evict
      PROVE  QuietStep
  BY Zenon, <1>0, <1>5 DEF RefsSnapshot, Evict, QuietStep
<1>6. ASSUME UNCHANGED vars
      PROVE  QuietStep
  <2>1. UNCHANGED eventVars
    BY Zenon, <1>6 DEF vars, eventVars
  <2> QED
    BY Zenon, <1>0, <1>6, <2>1 DEF vars, QuietStep
<1>7. ASSUME Deliver
      PROVE  QuietStep
  <2>1. /\ outbox # <<>> /\ sent' = Append(sent, Head(outbox)) /\ outbox' = Tail(outbox)
        /\ dropped' = dropped
    BY Zenon, <1>7 DEF Deliver
  <2>2. outbox \in Seq(Events) /\ sent \in Seq(Events) /\ Len(outbox) <= MaxPending
        /\ MaxPending \in Nat
    BY Zenon, RefsAssumption
  <2>3. /\ sent' \in Seq(Events) /\ outbox' \in Seq(Events) /\ Len(outbox') <= MaxPending
    BY <2>1, <2>2
  <2>4. sent' \o outbox' = sent \o outbox
    BY Zenon, <2>1, <2>2, HandOver
  <2>5. EventsKept
    BY Zenon, <2>1, <2>3, <2>4 DEF EventsKept
  <2> QED
    BY Zenon, <1>7, <2>5 DEF Deliver, QuietStep
<1> QED
  BY Zenon, <1>1, <1>2, <1>3, <1>4, <1>5, <1>6, <1>7

(* The commit of push p, by its client or by the import it belongs to.        *)
CommitStep(p, rh) == RefusedCommit(p, rh) \/ \E s \in Loop(p) : LandedCommit(p, s, rh)

\* Every step is quiet or commits one push.
LEMMA StepSplit ==
    ASSUME IInv, [Next]_vars
    PROVE  QuietStep \/ \E p \in Pushes, rh \in Names \cup {0} : CommitStep(p, rh)
<1>1. ASSUME NEW p \in Pushes, NEW cmds \in Batches, NEW atomic \in BOOLEAN,
             CommitPush(p, cmds, atomic)
      PROVE  CommitStep(p, 0)
  <2>1. pushes[p].epoch \in Nat
    BY DEF IInv, TypeOK, PushRows
  <2> QED
    BY Zenon, <1>1, <2>1, CommitSplit DEF CommitPush, CommitStep
<1>2. ASSUME NEW p \in Pushes, NEW cmds \in Batches, NEW rh \in RemoteHeads,
             ImportCommit(p, cmds, rh)
      PROVE  CommitStep(p, rh) /\ rh \in Names
  <2>1. gc_epoch \in Nat /\ rh \in Names /\ TRUE \in BOOLEAN
    BY Zenon, RefsAssumption DEF IInv, TypeOK
  <2> QED
    BY Zenon, <1>2, <2>1, CommitSplit DEF ImportCommit, CommitStep
<1>3. ASSUME Clients
      PROVE  QuietStep \/ \E p \in Pushes, rh \in Names \cup {0} : CommitStep(p, rh)
  BY Zenon, <1>1, <1>2, <1>3, OthersQuiet DEF Clients
<1> QED
  BY Zenon, <1>3, AdminsQuiet, OthersQuiet DEF Next

\* The inductive invariant holds throughout.
LEMMA Inductive == Spec => []IInv
<1>1. Init => IInv
  <2> SUFFICES ASSUME Init PROVE IInv
    OBVIOUS
  <2> USE DEF Init
  <2>1. Exists(refs) = {} /\ Committed = {}
    BY DEF Exists, Committed, NoPush
  <2>2. IsFiniteSet({}) /\ Cardinality({}) = 0
    BY Zenon, FS_EmptySet
  <2>3. NoPush \in PushRows /\ [state |-> "none", objs |-> {}] \in PackRows
        /\ [state |-> "none", level |-> "read", scope |-> {}] \in TokenRows
    BY DEF NoPush, PushRows, PackRows, TokenRows
  <2>4. MainRef \in Names /\ MaxRefs \in Nat /\ MaxPending \in Nat
    BY Zenon, RefsAssumption
  <2>5. /\ refs \in [Names -> Ids] /\ pins \in [Names -> Ids] /\ reflog \in Seq(Rows)
        /\ outbox \in Seq(Events) /\ sent \in Seq(Events) /\ Len(outbox) = 0
        /\ Len(reflog) = 0
    BY DEF Ids
  <2>6. TypeOK
    <3>1. 0 <= MaxRefs /\ 0 <= MaxPending /\ 0 <= 0 /\ 0 \in Nat
      BY <2>4
    <3> QED
      BY Zenon, <2>1, <2>2, <2>3, <2>4, <2>5, <3>1 DEF TypeOK
  <2>7. ReflogReplays
    <3>1. DOMAIN reflog = {} /\ 1..Len(reflog) = {}
      BY <2>5
    <3> QED
      BY Zenon, <3>1 DEF ReflogReplays, Replays, LeavesAt
  <2>8. HeadResolves /\ MemoBehind
    BY Zenon, <2>1 DEF HeadResolves, MemoBehind
  <2>9. LogCommitted /\ EventsMirrorReflog
    <3>1. /\ DOMAIN reflog = {} /\ reflog = <<>> /\ Len(sent \o outbox) + dropped = 0
          /\ DOMAIN (sent \o outbox) = {} /\ <<>> \in Seq(Moves)
      BY <2>5
    <3>2. \A q : [i \in DOMAIN <<>> |->
                   IF <<>>[i][4] = q THEN <<<<<<>>[i][1], <<>>[i][2], <<>>[i][3]>>>> ELSE <<>>]
                 = <<>>
      OBVIOUS
    <3>3. FlattenSeq(<<>>) = <<>>
      BY DEF FlattenSeq
    <3>4. \A q : LoggedBy(reflog, q) = <<>>
      BY Zenon, <3>1, <3>2, <3>3 DEF LoggedBy
    <3>5. {reflog[a][4] : a \in DOMAIN reflog} = {}
      BY Zenon, <3>1
    <3>6. LogCommitted
      BY Zenon, <3>1, <3>4, <3>5 DEF LogCommitted, Loggers
    <3>7. EventsMirrorReflog
      BY Zenon, <2>2, <3>1, <3>5 DEF EventsMirrorReflog, Mirror, Loggers
    <3> QED
      BY Zenon, <3>6, <3>7
  <2> QED
    BY Zenon, <2>1, <2>2, <2>6, <2>7, <2>8, <2>9 DEF IInv
<1>2. IInv /\ [Next]_vars => IInv'
  <2> SUFFICES ASSUME IInv, [Next]_vars PROVE IInv'
    BY Zenon
  <2>1. ASSUME NEW p \in Pushes, NEW rh, CommitStep(p, rh)
        PROVE  IInv'
    BY Zenon, <2>1, RefusedKeeps, LandedKeeps DEF CommitStep
  <2> QED
    BY Zenon, <2>1, StepSplit, QuietKeeps
<1> QED
  BY <1>1, <1>2, PTL DEF Spec

-----------------------------------------------------------------------------
(* The results.                                                               *)

\* The tables keep their types; refs never outnumber the cap, whatever mix of
\* creates and deletes a batch carries, and the outbox never passes its bound.
THEOREM RefTypes == Spec => []TypeOK
<1>1. IInv => TypeOK
  BY Zenon DEF IInv
<1> QED
  BY <1>1, Inductive, PTL

\* The reflog written by the write loop is the history of the ref table.
THEOREM RefHistory == Spec => []ReflogReplays
<1>1. IInv => ReflogReplays
  BY Zenon DEF IInv
<1> QED
  BY <1>1, Inductive, PTL

\* A repository with a branch has a HEAD that resolves.
THEOREM RefHead == Spec => []HeadResolves
<1>1. IInv => HeadResolves
  BY Zenon DEF IInv
<1> QED
  BY <1>1, Inductive, PTL

\* The event of a push, waiting or delivered, lists exactly what the push logged
\* in the reflog; events come in the order of the reflog, and every push that
\* moved a ref has its event or is counted as dropped.
THEOREM RefEvents == Spec => []EventsMirrorReflog
<1>1. IInv => EventsMirrorReflog
  BY Zenon DEF IInv
<1> QED
  BY <1>1, Inductive, PTL

\* An advertisement memo that is served shows the refs as they are.
THEOREM RefMemo == Spec => []MemoServesRefs
<1>1. IInv => MemoServesRefs
  BY Zenon DEF IInv, MemoBehind, MemoServesRefs
<1> QED
  BY <1>1, Inductive, PTL

\* A commit moves a ref only under a credential that stands in that span.
LEMMA CommitCredential ==
    ASSUME IInv, NEW p \in Pushes, NEW rh, CommitStep(p, rh),
           NEW n \in Names, refs'[n] # refs[n]
    PROVE  /\ pushes[p].state = "open" /\ pushes'[p].state = "committed"
           /\ pushes[p].auth # Admin =>
                LET t == tokens[pushes[p].auth]
                IN  t.state = "minted" /\ t.level = "write" /\ n \in t.scope
<1>1. ~RefusedCommit(p, rh)
  BY Zenon DEF RefusedCommit
<1>2. PICK s \in Loop(p) : LandedCommit(p, s, rh)
  BY Zenon, <1>1 DEF CommitStep
<1>3. pushes[p].state = "open" /\ CommitAuth(p) /\ refs' = s.refs /\ Permitted(s, p)
  BY Zenon, <1>2 DEF LandedCommit, Loop
<1>4. ScopeAllows(p, n)
  BY Zenon, <1>3 DEF Permitted
<1>5. pushes'[p].state = "committed"
  BY Zenon, <1>2 DEF LandedCommit, IInv, TypeOK
<1> QED
  BY Zenon, <1>3, <1>4, <1>5 DEF CommitAuth, TokenRow, ScopeAllows

\* A ref moves only in the span that commits an open push, under a credential
\* that stands at that moment and inside its current scope.
THEOREM RefCredential == Spec => LandsUnderCredential
<1> DEFINE A == \A n \in Names : refs'[n] # refs[n] =>
                  \E p \in Pushes :
                    /\ pushes[p].state = "open" /\ pushes'[p].state = "committed"
                    /\ pushes[p].auth # Admin =>
                         LET t == tokens[pushes[p].auth]
                         IN  t.state = "minted" /\ t.level = "write" /\ n \in t.scope
<1>1. IInv /\ [Next]_vars => [A]_vars
  <2> SUFFICES ASSUME IInv, [Next]_vars PROVE A
    BY Zenon
  <2>1. QuietStep => A
    BY Zenon DEF QuietStep
  <2>2. (\E p \in Pushes, rh \in Names \cup {0} : CommitStep(p, rh)) => A
    BY Zenon, CommitCredential
  <2> QED
    BY Zenon, <2>1, <2>2, StepSplit
<1> QED
  BY <1>1, Inductive, PTL DEF Spec, LandsUnderCredential

\* A quiet step is one of the administrator's in the register, or changes
\* nothing the register shows.
LEMMA QuietGoverns ==
    ASSUME IInv, QuietStep
    PROVE  Register!Govern
<1>1. /\ UNCHANGED refs /\ UNCHANGED head
      /\ protected' \subseteq SUBSET Names
      /\ \A n \in Names : pins[n] = NoOid /\ pins'[n] # NoOid => n \in Exists(refs)
  BY Zenon, RefsAssumption DEF QuietStep
<1>2. UNION protected' \in SUBSET Names
  BY Zenon, <1>1
<1>3. {n \in Names : pins'[n] # NoOid} \ {n \in Names : pins[n] # NoOid} \subseteq Exists(refs)
  BY Zenon, <1>1
<1> QED
  BY Zenon, <1>1, <1>2, <1>3 DEF Register!Govern, Register!Present, Exists

\* A commit is one transaction of the register.
LEMMA CommitTransacts ==
    ASSUME IInv, NEW p \in Pushes, NEW rh \in Names \cup {0}, CommitStep(p, rh)
    PROVE  Register!Transact
<1>1. /\ refs \in [Names -> Ids] /\ head \in Names /\ HeadResolves /\ known \subseteq Oids
      /\ protected \subseteq SUBSET Names
  BY Zenon, RefsAssumption DEF IInv, TypeOK
<1>2. \A n \in Names : n \in UNION protected <=> IsProtected(n)
  BY Zenon DEF IsProtected
<1>3. CASE RefusedCommit(p, rh)
  <2>1. /\ refs' = refs /\ UNCHANGED pins /\ UNCHANGED protected
        /\ head' = IF rh \in Exists(refs) THEN rh ELSE head
    BY Zenon, <1>3 DEF RefusedCommit, authVars
  <2>2. \A n \in Exists(refs) : refs[n] \in Oids
    BY <1>1 DEF Exists, Ids
  <2>3. \A n \in Exists(refs) : <<refs[n], refs[n]>> \in Ancestry
    BY Zenon, <1>1, <2>2, AncestryFacts
  <2>4. Exists(refs) \cap Heads # {} => head' \in Exists(refs)
    BY Zenon, <1>1, <2>1 DEF HeadResolves
  <2> QED
    BY Zenon, <1>1, <2>1, <2>3, <2>4 DEF Register!Transact, Register!Present, Exists, Ids
<1>4. ASSUME NEW s \in Loop(p), LandedCommit(p, s, rh)
      PROVE  Register!Transact
  <2>1. /\ refs' = s.refs /\ UNCHANGED pins /\ UNCHANGED protected /\ s \in LoopStates
        /\ Permitted(s, p) /\ Counted(s)
        /\ head' = IF rh \in Exists(s.refs) THEN rh
                   ELSE IF s.moved = <<>> THEN head ELSE AdoptHead(s.refs, head)
    BY Zenon, <1>4 DEF LandedCommit, Loop, authVars
  <2>2. s.refs \in [Names -> Ids]
    BY <2>1 DEF LoopStates
  <2>3. head' \in {head} \cup Exists(s.refs)
    BY Zenon, <1>1, <2>1, AdoptedBranch
  <2>4. Exists(s.refs) \cap Heads # {} => head' \in Exists(s.refs)
    BY Zenon, <1>1, <2>1, AdoptedBranch DEF HeadResolves, Counted
  <2>5. \A n \in Names : s.refs[n] # refs[n] => pins[n] = NoOid
    BY Zenon, <2>1 DEF Permitted
  <2>6. \A n \in Exists(refs) : n \in UNION protected => <<refs[n], s.refs[n]>> \in Ancestry
    BY Zenon, <1>2, <2>1 DEF Permitted, Exists
  <2>7. head \in Exists(refs) => head \in Exists(s.refs)
    BY Zenon, <2>1 DEF Permitted
  <2> QED
    BY Zenon, <2>1, <2>2, <2>3, <2>4, <2>5, <2>6, <2>7
       DEF Register!Transact, Register!Present, Exists, Ids
<1> QED
  BY Zenon, <1>3, <1>4 DEF CommitStep

\* The ref table implements the register: to a client, every push moves all
\* the refs it moves in one step, and never a pinned ref, a protected ref
\* backwards or HEAD's target away.
THEOREM RefImplements == Spec => RegisterSpec
<1>1. Init => Register!Init
  <2> SUFFICES ASSUME Init PROVE Register!Init
    OBVIOUS
  <2>1. /\ refs = [n \in Names |-> NoOid] /\ head = MainRef
        /\ {n \in Names : pins[n] # NoOid} = {} /\ UNION protected = {}
    BY DEF Init
  <2> QED
    BY Zenon, <2>1 DEF Register!Init
<1>2. IInv /\ [Next]_vars => [Register!Next]_<<refs, head, {n \in Names : pins[n] # NoOid}, UNION protected>>
  <2> SUFFICES ASSUME IInv, [Next]_vars PROVE Register!Next
    BY Zenon
  <2> QED
    BY Zenon, StepSplit, QuietGoverns, CommitTransacts DEF Register!Next
<1> QED
  BY <1>1, <1>2, Inductive, PTL DEF Spec, RegisterSpec, Register!Spec

=============================================================================
