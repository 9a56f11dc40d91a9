------------------------------ MODULE ImportInv -----------------------------
(***************************************************************************)
(* The shape of everything an import keeps in its tables, in R2 and in     *)
(* the memory of a slice, what the model's operators return, and the       *)
(* shapes through the steps that claim, drain and upload.                  *)
(***************************************************************************)
EXTENDS ImportJob, FiniteSetTheorems, TLAPS

-----------------------------------------------------------------------------
(* Least numbers, counting, and parts one after the other.                    *)

\* A set of naturals that is not empty has a least member.
LEMMA LeastNat ==
    ASSUME NEW S \in SUBSET Nat, S # {}
    PROVE  \E m \in S : \A k \in S : m <= k
<1>1. \E m \in S : \A k \in S : ~(<<k, m>> \in OpToRel(<, Nat))
  BY NatLessThanWellFounded, WFMin, Zenon
<1>2. \E m \in S : \A k \in S : ~(k < m)
  BY Zenon, <1>1 DEF OpToRel
<1> QED
  BY <1>2

\* Counting up from 0 inside G reaches every number up to n.
LEMMA CountUp ==
    ASSUME NEW n \in Nat, NEW G, 0 \in G,
           \A k \in 0..n : k < n /\ k \in G => k + 1 \in G
    PROVE  \A k \in 0..n : k \in G
<1> DEFINE S == {k \in 0..n : k \notin G}
<1>1. SUFFICES ASSUME S # {} PROVE FALSE
  BY Zenon
<1>2. S \in SUBSET Nat
  OBVIOUS
<1>3. PICK m \in S : \A k \in S : m <= k
  BY Zenon, <1>1, <1>2, LeastNat
<1> HIDE DEF S
<1>4. m \in 0..n /\ m \notin G /\ m # 0
  BY Zenon, <1>3 DEF S
<1>5. m - 1 \in 0..n /\ m - 1 < n /\ ~(m <= m - 1) /\ (m - 1) + 1 = m
  BY <1>4
<1>6. m - 1 \notin S
  BY Zenon, <1>3, <1>5
<1>7. m - 1 \in G
  BY Zenon, <1>5, <1>6 DEF S
<1>8. (m - 1) + 1 \in G
  BY Zenon, <1>5, <1>7
<1> QED
  BY Zenon, <1>4, <1>5, <1>8

\* The units of a list of parts, one part more.
LEMMA BytesAppend ==
    ASSUME NEW ps \in Seq(Parts), NEW p \in Parts
    PROVE  Bytes(<<>>) = <<>> /\ Bytes(Append(ps, p)) = Bytes(ps) \o p.b
<1> DEFINE b == Len(ps)
<1> DEFINE n == b + 1
<1> DEFINE U(k) == Append(ps, p)[k].b
<1> DEFINE D(f, m) == [i \in 0..m |-> IF i = 0 THEN <<>> ELSE f[i - 1] \o U(i)]
<1> DEFINE E == {k \in 0..n : \E f : f = D(f, k)}
<1>1. b \in Nat /\ n \in Nat /\ Len(Append(ps, p)) = n /\ U(n) = p.b /\ \A i \in 1..b : U(i) = ps[i].b
  OBVIOUS
<1> HIDE DEF U, b
<1>2. \A k \in 0..n : k \in E
  <2>1. 0 \in E
    <3>1. [i \in 0..0 |-> <<>>] = D([i \in 0..0 |-> <<>>], 0) /\ 0 \in 0..n
      BY <1>1
    <3> HIDE DEF D, n
    <3> QED
      BY Zenon, <3>1
  <2>2. ASSUME NEW k \in 0..n, k < n, k \in E
        PROVE  k + 1 \in E
    <3>1. PICK f : f = D(f, k)
      BY Zenon, <2>2
    <3> DEFINE g == [i \in 0..(k + 1) |-> IF i <= k THEN f[i] ELSE f[k] \o U(k + 1)]
    <3>2. ASSUME NEW i \in 0..(k + 1)
          PROVE  g[i] = IF i = 0 THEN <<>> ELSE g[i - 1] \o U(i)
      <4> HIDE DEF n
      <4>1. CASE i <= k
        <5>1. i \in 0..k /\ (i # 0 => i - 1 \in 0..(k + 1) /\ i - 1 <= k)
          BY <4>1, <1>1
        <5>2. f[i] = IF i = 0 THEN <<>> ELSE f[i - 1] \o U(i)
          BY Zenon, <3>1, <5>1
        <5>3. g[i] = f[i] /\ (i # 0 => g[i - 1] = f[i - 1])
          BY Zenon, <4>1, <5>1
        <5> QED
          BY Zenon, <5>2, <5>3
      <4>2. CASE i = k + 1
        <5>1. i # 0 /\ i - 1 = k /\ k \in 0..(k + 1) /\ k <= k /\ ~(i <= k)
          BY <4>2, <1>1
        <5> QED
          BY Zenon, <4>2, <5>1
      <4> QED
        BY <4>1, <4>2, <1>1
    <3>3. g = D(g, k + 1)
      <4> HIDE DEF g
      <4>1. g = [i \in 0..(k + 1) |-> g[i]]
        BY Zenon DEF g
      <4> QED
        BY Zenon, <3>2, <4>1
    <3>4. k + 1 \in 0..n
      BY <2>2, <1>1
    <3> HIDE DEF g, D
    <3> QED
      BY Zenon, <3>3, <3>4
  <2> HIDE DEF E, n
  <2> QED
    BY Zenon, <1>1, <2>1, <2>2, CountUp
<1> DEFINE f == CHOOSE f_1 : f_1 = D(f_1, n)
<1> DEFINE B(h) == [i \in 0..b |-> IF i = 0 THEN <<>> ELSE h[i - 1] \o ps[i].b]
<1> DEFINE g == CHOOSE h : h = B(h)
<1>3. Bytes(Append(ps, p)) = f[n] /\ Bytes(ps) = g[b]
  <2>1. Bytes(Append(ps, p)) = f[n]
    BY Zenon, <1>1 DEF Bytes, U
  <2>2. Bytes(ps) = g[b]
    BY Zenon DEF Bytes, b
  <2> QED
    BY Zenon, <2>1, <2>2
<1>4. f = D(f, n)
  <2>1. n \in 0..n
    BY <1>1
  <2> HIDE DEF D, n
  <2> QED
    BY Zenon, <1>2, <2>1
<1>5. g = B(g)
  <2>1. b \in E
    <3> HIDE DEF E
    <3>1. b \in 0..n
      BY <1>1
    <3> QED
      BY Zenon, <3>1, <1>2
  <2>2. PICK h : h = D(h, b)
    BY Zenon, <2>1
  <2>3. \A i \in 0..b : i # 0 => U(i) = ps[i].b
    BY <1>1
  <2>4. h = B(h)
    BY Zenon, <2>2, <2>3
  <2> HIDE DEF B
  <2> QED
    BY Zenon, <2>4
<1> HIDE DEF f, g
<1> DEFINE G == {k \in 0..b : f[k] = g[k]}
<1>6. \A k \in 0..b : k \in G
  <2>1. 0 \in G
    <3>1. 0 \in 0..b /\ 0 \in 0..n
      BY <1>1
    <3> QED
      BY Zenon, <3>1, <1>4, <1>5
  <2>2. ASSUME NEW k \in 0..b, k < b, k \in G
        PROVE  k + 1 \in G
    <3> HIDE DEF n
    <3>1. k + 1 \in 0..n /\ k + 1 \in 0..b /\ k + 1 \in 1..b /\ (k + 1) - 1 = k /\ k + 1 # 0
      BY <1>1, <2>2 DEF n
    <3>2. f[k + 1] = f[k] \o U(k + 1)
      BY Zenon, <1>4, <3>1
    <3>3. g[k + 1] = g[k] \o ps[k + 1].b
      BY Zenon, <1>5, <3>1
    <3> QED
      BY Zenon, <1>1, <2>2, <3>1, <3>2, <3>3
  <2> HIDE DEF G
  <2> QED
    BY Zenon, <1>1, <2>1, <2>2, CountUp
<1>7. f[n] = f[b] \o U(n)
  <2>1. n \in 0..n /\ n # 0 /\ n - 1 = b
    BY <1>1
  <2> HIDE DEF n
  <2> QED
    BY Zenon, <2>1, <1>4
<1>8. f[b] = g[b]
  <2>1. b \in 0..b
    BY <1>1
  <2> QED
    BY Zenon, <2>1, <1>6
<1>9. Bytes(<<>>) = <<>>
  <2>1. Bytes(<<>>) = (CHOOSE h : h = [i \in 0..0 |-> IF i = 0 THEN <<>> ELSE h[i - 1] \o <<>>[i].b])[0]
    <3>1. Len(<<>>) = 0
      OBVIOUS
    <3> QED
      BY Zenon, <3>1 DEF Bytes
  <2> DEFINE z == CHOOSE h : h = [i \in 0..0 |-> IF i = 0 THEN <<>> ELSE h[i - 1] \o <<>>[i].b]
  <2> DEFINE y == [i \in 0..0 |-> <<>>]
  <2>2. \A i \in 0..0 : i = 0
    OBVIOUS
  <2>3. y = [i \in 0..0 |-> IF i = 0 THEN <<>> ELSE y[i - 1] \o <<>>[i].b]
    BY Zenon, <2>2
  <2>4. z = [i \in 0..0 |-> IF i = 0 THEN <<>> ELSE z[i - 1] \o <<>>[i].b]
    <3> HIDE DEF y
    <3> QED
      BY Zenon, <2>3
  <2>5. 0 \in 0..0
    OBVIOUS
  <2> HIDE DEF z
  <2>6. z[0] = <<>>
    BY Zenon, <2>4, <2>5
  <2> QED
    BY Zenon, <2>1, <2>6 DEF z
<1> QED
  BY Zenon, <1>1, <1>3, <1>7, <1>8, <1>9

-----------------------------------------------------------------------------
(* Numbers, sets of entries and units.                                        *)

\* The least number of a set.
LEMMA MinIn ==
    ASSUME NEW S \in SUBSET Nat, S # {}
    PROVE  Min(S) \in S /\ \A y \in S : Min(S) <= y
  BY Zenon, LeastNat DEF Min

\* The larger and the smaller of two numbers.
LEMMA MaxPair ==
    ASSUME NEW a \in Nat, NEW b \in Nat
    PROVE  Max({a, b}) \in {a, b} /\ Max({a, b}) >= a /\ Max({a, b}) >= b
<1>1. \E x \in {a, b} : \A y \in {a, b} : x >= y
  <2>1. CASE a >= b
    BY <2>1
  <2>2. CASE b >= a
    BY <2>2
  <2> QED
    BY <2>1, <2>2
<1> QED
  BY Zenon, <1>1 DEF Max

LEMMA MinPair ==
    ASSUME NEW a \in Nat, NEW b \in Nat
    PROVE  Min({a, b}) \in {a, b} /\ Min({a, b}) <= a /\ Min({a, b}) <= b
<1>1. \E x \in {a, b} : \A y \in {a, b} : x <= y
  <2>1. CASE a <= b
    BY <2>1
  <2>2. CASE b <= a
    BY <2>2
  <2> QED
    BY <2>1, <2>2
<1> QED
  BY Zenon, <1>1 DEF Min

\* Whole parts: so many units make so many parts, and back.
LEMMA WholeParts ==
    ASSUME NEW n \in Nat
    PROVE  /\ (PART * n) \div PART = n /\ (PART * n) % PART = 0
           /\ PART * (n + 1) = PART * n + PART
<1>1. PART \in Nat \ {0}
  BY ImportAssumption
<1> QED
  BY <1>1

\* A set of entries is finite and no larger than the pack.
LEMMA EntriesFinite ==
    ASSUME NEW S \in SUBSET Entries
    PROVE  IsFiniteSet(S) /\ Cardinality(S) \in 0..N
<1>1. N \in Nat /\ 1 \in Int /\ N \in Int
  BY ImportAssumption
<1>2. IsFiniteSet(1..N) /\ Cardinality(1..N) = N
  BY <1>1, FS_Interval
<1>3. IsFiniteSet(S) /\ Cardinality(S) <= N
  BY Zenon, <1>2, FS_Subset DEF Entries
<1>4. Cardinality(S) \in Nat
  BY Zenon, <1>3, FS_CardinalityType
<1> QED
  BY <1>1, <1>3, <1>4

\* The units are the header and the numbered units of each entry.
LEMMA UnitFacts ==
    /\ <<0, 0>> \in Units
    /\ \A i \in Entries : \A k \in 1..Size[i] : <<i, k>> \in Units
    /\ \A u \in Units : u = <<0, 0>> \/ (u[1] \in Entries /\ u[2] \in 1..Size[u[1]] /\ u = <<u[1], u[2]>>)
<1>1. <<0, 0>> \in Units
  BY DEF Units
<1>2. ASSUME NEW i \in Entries, NEW k \in 1..Size[i] PROVE <<i, k>> \in Units
  BY DEF Units
<1>3. ASSUME NEW u \in Units
      PROVE  u = <<0, 0>> \/ (u[1] \in Entries /\ u[2] \in 1..Size[u[1]] /\ u = <<u[1], u[2]>>)
  <2>1. CASE u \in {0} \X {0}
    BY <2>1
  <2>2. CASE \E i \in Entries : u \in {i} \X (1..Size[i])
    BY <2>2
  <2> QED
    BY Zenon, <2>1, <2>2 DEF Units
<1> QED
  BY Zenon, <1>1, <1>2, <1>3

\* The header and what is left of an entry behind a cut are units.
LEMMA EntryUnits ==
    /\ Header \in Seq(Units) /\ Len(Header) = 1 /\ Header[1] = <<0, 0>>
    /\ \A i \in Entries : \A f \in Nat :
         LET e == SubSeq(Entry(i), f + 1, Size[i])
         IN  /\ e \in Seq(Units)
             /\ Len(e) = IF f <= Size[i] THEN Size[i] - f ELSE 0
             /\ \A k \in 1..Len(e) : e[k] = <<i, f + k>>
<1>1. Header \in Seq(Units) /\ Len(Header) = 1 /\ Header[1] = <<0, 0>>
  BY UnitFacts DEF Header
<1>2. ASSUME NEW i \in Entries, NEW f \in Nat
      PROVE  LET e == SubSeq(Entry(i), f + 1, Size[i])
             IN  /\ e \in Seq(Units)
                 /\ Len(e) = IF f <= Size[i] THEN Size[i] - f ELSE 0
                 /\ \A k \in 1..Len(e) : e[k] = <<i, f + k>>
  <2>1. Size[i] \in Nat /\ Size[i] > 0
    BY ImportAssumption DEF Entries
  <2>2. Entry(i) \in Seq(Units) /\ Len(Entry(i)) = Size[i] /\ \A k \in 1..Size[i] : Entry(i)[k] = <<i, k>>
    BY <2>1, UnitFacts DEF Entry
  <2> DEFINE e == SubSeq(Entry(i), f + 1, Size[i])
  <2>3. CASE f <= Size[i]
    BY <2>1, <2>2, <2>3
  <2>4. CASE f > Size[i]
    BY <2>1, <2>2, <2>4
  <2> QED
    BY <2>1, <2>3, <2>4
<1> QED
  BY Zenon, <1>1, <1>2

\* Two runs of units, one behind the other.
LEMMA Joined ==
    ASSUME NEW a \in Seq(Units), NEW b \in Seq(Units)
    PROVE  /\ Len(a) \in Nat /\ Len(a) + Len(b) \in Nat
           /\ a \o b \in Seq(Units) /\ Len(a \o b) = Len(a) + Len(b)
           /\ \A k \in 1..Len(a) : (a \o b)[k] = a[k]
           /\ \A k \in 1..Len(b) : (a \o b)[Len(a) + k] = b[k]
OBVIOUS

\* A run of units is its first p units and the others.
LEMMA SplitAt ==
    ASSUME NEW B \in Seq(Units), NEW p \in Nat, p <= Len(B)
    PROVE  /\ SubSeq(B, 1, p) \in Seq(Units) /\ Len(SubSeq(B, 1, p)) = p
           /\ SubSeq(B, p + 1, Len(B)) \in Seq(Units) /\ Len(SubSeq(B, p + 1, Len(B))) = Len(B) - p
           /\ SubSeq(B, 1, p) \o SubSeq(B, p + 1, Len(B)) = B
<1>1. SubSeq(B, 1, p) \in Seq(Units) /\ Len(SubSeq(B, 1, p)) = p
  OBVIOUS
<1>2. SubSeq(B, p + 1, Len(B)) \in Seq(Units) /\ Len(SubSeq(B, p + 1, Len(B))) = Len(B) - p
  OBVIOUS
<1> DEFINE X == SubSeq(B, 1, p)
<1> DEFINE Y == SubSeq(B, p + 1, Len(B))
<1>3. \A k \in 1..Len(B) : (k <= p => X[k] = B[k]) /\ (k > p => Y[k - p] = B[k])
  OBVIOUS
<1> HIDE DEF X, Y
<1>4. X \in Seq(Units) /\ Y \in Seq(Units) /\ Len(X) = p /\ Len(Y) = Len(B) - p
  BY Zenon, <1>1, <1>2 DEF X, Y
<1> DEFINE Z == X \o Y
<1>5. Z \in Seq(Units) /\ Len(Z) = Len(B)
  BY <1>4
<1>6. \A k \in 1..Len(B) : Z[k] = B[k]
  <2> SUFFICES ASSUME NEW k \in 1..Len(B) PROVE Z[k] = B[k]
    OBVIOUS
  <2>1. CASE k <= p
    <3>1. Z[k] = X[k]
      BY <1>4, <2>1
    <3> QED
      BY <1>3, <2>1, <3>1
  <2>2. CASE k > p
    <3>1. Z[k] = Y[k - p]
      BY <1>4, <2>2
    <3> QED
      BY <1>3, <2>2, <3>1
  <2>3. k <= p \/ k > p
    OBVIOUS
  <2> QED
    BY Zenon, <2>1, <2>2, <2>3
<1> HIDE DEF Z
<1>7. Z = [k \in 1..Len(Z) |-> Z[k]] /\ B = [k \in 1..Len(B) |-> B[k]]
  BY <1>5
<1>8. Z = B
  BY Zenon, <1>5, <1>6, <1>7
<1> QED
  BY Zenon, <1>1, <1>2, <1>8 DEF X, Y, Z

-----------------------------------------------------------------------------
(* Shapes.                                                                    *)

Phases == {"toc", "fetch", "resolve", "check", "commit"}
Ats == {"idle", "toc", "fetch", "bind", "drain", "upload", "last", "complete",
        "meta", "dead", "cleanup", "reject"}
Ckpts == [bytes : Seq(Units), count : 0..N]
Cursors ==
  [phase : Phases, next_idx : 0..N, parked : Seq(Entries), upload : 0..MaxUploads,
   st : Ckpts, scan : 0..N, tail : 0..(PART - 1), after : Nat, epoch : Int,
   recheck : BOOLEAN]
Writers == [hash : Seq(Units), buf : Seq(Units), etags : Seq(Parts), count : Nat]
Todos == [cut : SUBSET Entries, parked : Seq(Entries), requeue : SUBSET Entries,
          scan : SUBSET Entries]
Slices ==
  [at : Ats, c : Cursors, w : Writers, i : 0..N, todo : Todos, wakes : Seq(Entries),
   pend : [Shas -> Seq(Entries)], done : SUBSET Entries, rows : Seq(Entries),
   links : SUBSET Oids, took : Nat]
Marks == [off : Nat \cup {-1}, end : Nat \cup {-1}]
Rows == [idx : 0..N, off : Int, len : Int]
Multiparts == [state : {"none", "live", "gone"}, parts : Seq(Parts)]
R2Calls == [op : {"part", "complete", "abort"}, u : 1..MaxUploads, n : Nat, p : Parts,
            etags : Seq(Parts)]
JobStates == {"none", "queued", "running", "dead", "gone"}
PushStates == {"open", "committed", "rejected", "dead", "expired"}

Drains == {"drain", "upload"}
Bound == {"drain", "upload", "last", "complete", "meta", "dead", "reject"}

(* The shape of every variable.                                               *)
TJob ==
  /\ job \in [state : JobStates, attempts : 0..MaxAttempts]
  /\ job.state \in {"none", "queued", "running"} => job.attempts < MaxAttempts
  /\ sl.at = "idle" <=> job.state # "running"
TCur ==
  /\ cur \in Cursors /\ toc \in 0..N
  /\ push = "open" => cur.next_idx <= toc /\ sl.c.next_idx <= toc
  /\ cur.upload = 0 => cur.st = NoSt /\ cur.tail = 0 /\ cur.phase \notin {"check", "commit"}
TTables ==
  /\ open \in [Entries -> Marks] /\ objects \in [Shas -> Rows]
  /\ \A s \in Shas : objects[s] # NoRow => objects[s].idx \in Entries /\ Sha[objects[s].idx] = s
  /\ tail \in Seq(Units) /\ parts \in Seq(Parts) /\ push_links \subseteq Oids
TWorld ==
  /\ push \in PushStates /\ gc_epoch \in 0..MaxEpoch /\ live \subseteq Oids \ Shas
  /\ faults \in 0..MaxFaults
TR2 ==
  /\ uploads \in [1..MaxUploads -> Multiparts] /\ object \in Seq(Parts)
  /\ \A q \in late : q \in Seq(R2Calls) /\ Len(q) > 0
Unstarted(s) ==
  /\ s.i = 0 /\ s.wakes = <<>> /\ s.pend = NoWaiters /\ s.done = {} /\ s.rows = <<>>
  /\ s.links = {} /\ s.w = NoWriter /\ s.todo = NoTodo
TSlice ==
  /\ sl \in Slices
  /\ sl.at \in Bound => sl.c.upload # 0
  /\ sl.at \in {"toc", "fetch"} => sl.c.st = cur.st /\ sl.c.upload = cur.upload /\ sl.c.tail = cur.tail
                                   /\ sl.c.phase \notin {"check", "commit"}
  /\ sl.at \in {"bind", "drain", "upload"} => sl.c.st = cur.st
  /\ sl.at = "bind" => sl.c.tail = cur.tail /\ Unstarted(sl)
  /\ sl.at = "drain" => Len(sl.w.buf) < PART
  /\ sl.at = "upload" => Len(sl.w.buf) >= PART /\ sl.i \in Entries
  /\ sl.at \in Drains => Len(cur.st.bytes) <= Len(sl.w.hash)
TCut ==
  sl.at \in Drains /\ sl.todo.cut # {} =>
    /\ sl.wakes = <<>> /\ sl.pend = NoWaiters
    /\ sl.i \notin sl.todo.cut
    /\ \A i \in sl.todo.cut : open[i].off < Len(cur.st.bytes)

(* What is uploaded is whole parts.                                           *)
WholeLen(b) == \E n \in Nat : Len(b) = PART * n
TWhole ==
  /\ WholeLen(cur.st.bytes) /\ WholeLen(sl.c.st.bytes)
  /\ sl.at \in {"drain", "upload", "last"} => WholeLen(sl.w.hash)

(* The checkpoint of c is the bytes of the first parts of ps.                 *)
CkptIn(c, ps) ==
  \E n \in 0..Len(ps) : Len(c.st.bytes) = PART * n /\ c.st.bytes = Bytes(SubSeq(ps, 1, n))
SealedBy(ps) == ps # <<>> /\ Last(ps).h = Bytes(ps)

Types == TJob /\ TCur /\ TTables /\ TWorld /\ TR2 /\ TSlice /\ TCut /\ TWhole

-----------------------------------------------------------------------------
(* Shapes of what the operators return.                                       *)

\* The empty values.
LEMMA EmptyShapes ==
    /\ Idle \in Slices /\ NoWriter \in Writers /\ NoTodo \in Todos
    /\ NoWaiters \in [Shas -> Seq(Entries)] /\ NoMark \in Marks /\ NoRow \in Rows
    /\ \A p \in Phases : FreshCursor(p) \in Cursors
    /\ NoSt \in Ckpts /\ NoObject \in Seq(Parts)
<1>1. N \in Nat /\ N > 0 /\ PART \in Nat /\ PART > 1 /\ MaxUploads \in Nat
  BY ImportAssumption
<1>2. NoWriter \in Writers /\ NoTodo \in Todos /\ NoMark \in Marks /\ NoRow \in Rows
  BY <1>1 DEF NoWriter, Writers, NoTodo, Todos, NoMark, Marks, NoRow, Rows, NoEnd
<1>3. NoWaiters \in [Shas -> Seq(Entries)]
  BY DEF NoWaiters
<1>4. NoSt \in Ckpts
  BY <1>1 DEF NoSt, Ckpts
<1>5. ASSUME NEW p \in Phases PROVE FreshCursor(p) \in Cursors
  BY <1>1, <1>4 DEF FreshCursor, Cursors, NoEpoch
<1>6. FreshCursor("toc") \in Cursors
  BY <1>5 DEF Phases
<1>7. Idle \in Slices
  <2>1. "idle" \in Ats /\ 0 \in 0..N /\ <<>> \in Seq(Entries) /\ {} \in SUBSET Entries
        /\ {} \in SUBSET Oids /\ 0 \in Nat
    BY <1>1 DEF Ats
  <2> QED
    BY <2>1, <1>2, <1>3, <1>6 DEF Idle, Slices
<1> QED
  BY <1>2, <1>3, <1>4, <1>5, <1>7 DEF NoObject

\* What the shapes say of the cursors, the slice and the numbers.
LEMMA TypedFacts ==
    ASSUME Types
    PROVE  /\ sl \in Slices /\ sl.c \in Cursors /\ sl.w \in Writers /\ sl.todo \in Todos
           /\ cur \in Cursors /\ cur.st \in Ckpts /\ sl.c.st \in Ckpts
           /\ gc_epoch \in Nat /\ faults \in Nat /\ toc \in 0..N
           /\ open \in [Entries -> Marks] /\ objects \in [Shas -> Rows] /\ tail \in Seq(Units)
           /\ parts \in Seq(Parts) /\ push_links \subseteq Oids
<1>1. sl \in Slices /\ cur \in Cursors /\ toc \in 0..N /\ gc_epoch \in 0..MaxEpoch /\ faults \in 0..MaxFaults
  BY Zenon DEF Types, TSlice, TCur, TWorld
<1>2. sl.c \in Cursors /\ sl.w \in Writers /\ sl.todo \in Todos
  BY <1>1 DEF Slices
<1>3. cur.st \in Ckpts /\ sl.c.st \in Ckpts
  BY <1>1, <1>2 DEF Cursors
<1>4. gc_epoch \in Nat /\ faults \in Nat
  BY <1>1, ImportAssumption
<1>5. /\ open \in [Entries -> Marks] /\ objects \in [Shas -> Rows] /\ tail \in Seq(Units)
      /\ parts \in Seq(Parts) /\ push_links \subseteq Oids
  BY Zenon DEF Types, TTables
<1> QED
  BY Zenon, <1>1, <1>2, <1>3, <1>4, <1>5

-----------------------------------------------------------------------------
(* What a drain begins with: lost marks, parked and waiting entries. *)

\* Of some entries, one has the lowest mark.
LEMMA LowestIn ==
    ASSUME NEW S \in SUBSET Entries, S # {}, open \in [Entries -> Marks]
    PROVE  Lowest(S) \in S /\ \A j \in S : open[Lowest(S)].off <= open[j].off
<1> DEFINE O == {open[i].off + 1 : i \in S}
<1>1. \A i \in S : open[i].off \in Nat \cup {-1}
  BY DEF Marks
<1>2. O \in SUBSET Nat /\ O # {}
  BY <1>1
<1>3. PICK m \in O : \A k \in O : m <= k
  BY Zenon, <1>2, LeastNat
<1>4. PICK i \in S : m = open[i].off + 1
  BY Zenon, <1>3
<1>5. \A j \in S : open[i].off + 1 <= open[j].off + 1
  BY Zenon, <1>3, <1>4
<1>6. \A j \in S : open[i].off <= open[j].off
  BY <1>1, <1>5
<1> HIDE DEF O
<1> QED
  BY Zenon, <1>6 DEF Lowest

\* Where an entry ends, as far as a slice can tell: no later than its own end
\* and than any mark behind it.
LEMMA EntryEndFacts ==
    ASSUME NEW i \in Entries, open \in [Entries -> Marks], cur \in Cursors
    PROVE  /\ EntryEnd(i) \in Nat
           /\ \/ /\ EntryEnd(i) = Len(cur.st.bytes) + 1
                 /\ ~Sealed(i) /\ \A j \in Entries : open[j].off <= open[i].off
              \/ Sealed(i) /\ EntryEnd(i) = open[i].end
              \/ \E j \in Entries : EntryEnd(i) = open[j].off /\ open[j].off > open[i].off
           /\ Sealed(i) => EntryEnd(i) <= open[i].end
           /\ \A j \in Entries : open[j].off > open[i].off => EntryEnd(i) <= open[j].off
<1> DEFINE later == {k \in Entries : open[k].off > open[i].off}
<1> DEFINE after == {open[j].off : j \in later}
<1> DEFINE own == IF Sealed(i) THEN {open[i].end} ELSE {}
<1> DEFINE ends == after \cup own
<1>1. \A j \in Entries : open[j].off \in Nat \cup {-1} /\ open[j].end \in Nat \cup {-1}
  BY DEF Marks
<1>2. Len(cur.st.bytes) + 1 \in Nat
  BY DEF Cursors, Ckpts
<1>3. \A j \in later : open[j].off \in Nat
  BY <1>1
<1>4. Sealed(i) => open[i].end \in Nat
  BY <1>1 DEF Sealed, NoEnd
<1>5. ends \in SUBSET Nat
  BY Zenon, <1>3, <1>4
<1>6. EntryEnd(i) = IF ends = {} THEN Len(cur.st.bytes) + 1 ELSE Min(ends)
  BY Zenon DEF EntryEnd
<1>7. CASE ends = {}
  <2>1. ~Sealed(i) /\ \A j \in Entries : ~(open[j].off > open[i].off)
    BY Zenon, <1>7
  <2>2. \A j \in Entries : open[j].off <= open[i].off
    BY <1>1, <2>1
  <2>3. EntryEnd(i) = Len(cur.st.bytes) + 1
    BY Zenon, <1>6, <1>7
  <2> HIDE DEF ends, own, after, later
  <2> QED
    BY Zenon, <2>1, <2>2, <2>3, <1>2
<1>8. CASE ends # {}
  <2>1. EntryEnd(i) \in ends /\ \A y \in ends : EntryEnd(i) <= y
    <3> HIDE DEF ends
    <3>1. EntryEnd(i) = Min(ends)
      BY Zenon, <1>6, <1>8
    <3>2. Min(ends) \in ends /\ \A y \in ends : Min(ends) <= y
      BY Zenon, <1>5, <1>8, MinIn
    <3> QED
      BY <3>1, <3>2
  <2>2. EntryEnd(i) \in Nat
    BY Zenon, <2>1, <1>5
  <2> QED
    BY Zenon, <2>1, <2>2
<1> QED
  BY Zenon, <1>7, <1>8

\* The rows and marks a slice resumes with have their shape.
LEMMA ResumeShapes ==
    ASSUME Types, NEW c \in Cursors
    PROVE  /\ RowsAtResume(c) \in [Shas -> Rows]
           /\ \A s \in Shas : RowsAtResume(c)[s] # NoRow =>
                RowsAtResume(c)[s].idx \in Entries /\ Sha[RowsAtResume(c)[s].idx] = s
           /\ OpenAtResume(c) \in [Entries -> Marks]
           /\ \A i \in Entries : OpenAtResume(c)[i].off = open[i].off
           /\ TailLen(c) \in Nat /\ TailLen(c) \in {0, c.tail} /\ TailLen(c) \in {0, Len(tail)}
           /\ TailLen(c) # 0 => Straddlers(Len(c.st.bytes)) = {}
<1> DEFINE d == Len(c.st.bytes)
<1> DEFINE kept == [s \in Shas |-> IF objects[s].off + objects[s].len > d + TailLen(c)
                                   THEN NoRow ELSE objects[s]]
<1> DEFINE F(s) == {i \in Resealed(d) : Sha[i] = s}
<1> DEFINE row(i) == [idx |-> i, off |-> open[i].off, len |-> EntryEnd(i) - open[i].off]
<1>1. open \in [Entries -> Marks] /\ cur \in Cursors /\ objects \in [Shas -> Rows]
      /\ \A s \in Shas : objects[s] # NoRow => objects[s].idx \in Entries /\ Sha[objects[s].idx] = s
  BY Zenon DEF Types, TTables, TCur
<1>2. RowsAtResume(c) = [s \in Shas |-> IF kept[s] = NoRow /\ F(s) # {}
                                        THEN row(Lowest(F(s))) ELSE kept[s]]
  BY Zenon DEF RowsAtResume
<1>3. \A s \in Shas : kept[s] = NoRow \/ kept[s] = objects[s]
  BY Zenon
<1>4. \A i \in Entries : row(i) \in Rows /\ row(i).idx = i
  <2> SUFFICES ASSUME NEW i \in Entries PROVE row(i) \in Rows /\ row(i).idx = i
    OBVIOUS
  <2>1. EntryEnd(i) \in Nat
    BY Zenon, <1>1, EntryEndFacts
  <2>2. open[i].off \in Int
    BY <1>1 DEF Marks
  <2>3. i \in 0..N
    BY ImportAssumption DEF Entries
  <2> QED
    BY <2>1, <2>2, <2>3 DEF Rows
<1>5. \A s \in Shas : F(s) \in SUBSET Entries
  BY Zenon DEF Resealed, Lost
<1>6. ASSUME NEW s \in Shas, F(s) # {} PROVE Lowest(F(s)) \in Entries /\ Sha[Lowest(F(s))] = s
  <2>1. Lowest(F(s)) \in F(s)
    <3> HIDE DEF F
    <3> QED
      BY Zenon, <1>1, <1>5, <1>6, LowestIn
  <2> QED
    BY Zenon, <2>1, <1>5
<1>7. ASSUME NEW s \in Shas
      PROVE  /\ RowsAtResume(c)[s] \in Rows
             /\ RowsAtResume(c)[s] # NoRow =>
                  RowsAtResume(c)[s].idx \in Entries /\ Sha[RowsAtResume(c)[s].idx] = s
  <2>1. CASE kept[s] = NoRow /\ F(s) # {}
    <3>1. RowsAtResume(c)[s] = row(Lowest(F(s)))
      <4> HIDE DEF kept, row, F
      <4> QED
        BY Zenon, <1>2, <2>1
    <3> HIDE DEF kept, row, F
    <3> QED
      BY Zenon, <3>1, <1>4, <1>6, <2>1
  <2>2. CASE ~(kept[s] = NoRow /\ F(s) # {})
    <3>1. RowsAtResume(c)[s] = kept[s]
      <4> HIDE DEF kept, row, F
      <4> QED
        BY Zenon, <1>2, <2>2
    <3> HIDE DEF kept, row, F
    <3> QED
      BY Zenon, <3>1, <1>3, <1>1, EmptyShapes
  <2> QED
    BY Zenon, <2>1, <2>2
<1>8. RowsAtResume(c) \in [Shas -> Rows]
  <2> HIDE DEF kept, row, F
  <2> QED
    BY Zenon, <1>2, <1>7
<1>9. OpenAtResume(c) \in [Entries -> Marks] /\ \A i \in Entries : OpenAtResume(c)[i].off = open[i].off
  <2>1. \A i \in Entries : EntryEnd(i) \in Nat
    BY Zenon, <1>1, EntryEndFacts
  <2> QED
    BY <1>1, <2>1 DEF OpenAtResume, Marks
<1>10. c.tail \in Nat /\ Len(tail) \in Nat
  BY ImportAssumption DEF Types, TTables, Cursors
<1>11. /\ TailLen(c) \in Nat /\ TailLen(c) \in {0, c.tail} /\ TailLen(c) \in {0, Len(tail)}
       /\ TailLen(c) # 0 => Straddlers(Len(c.st.bytes)) = {}
  BY <1>10 DEF TailLen
<1> QED
  BY Zenon, <1>7, <1>8, <1>9, <1>11

\* Posted rows have their shape, and only fill places that were empty.
LEMMA PostedShapes ==
    ASSUME Types, NEW q \in Seq(Entries), NEW op \in [Entries -> Marks]
    PROVE  /\ Posted(q, op) \in [Shas -> Rows]
           /\ \A s \in Shas : Posted(q, op)[s] # NoRow =>
                Posted(q, op)[s].idx \in Entries /\ Sha[Posted(q, op)[s].idx] = s
           /\ \A s \in Shas : objects[s] # NoRow => Posted(q, op)[s] = objects[s]
           /\ \A s \in Shas : objects[s] = NoRow =>
                \/ Posted(q, op)[s] = NoRow /\ \A k \in DOMAIN q : Sha[q[k]] # s
                \/ \E k \in DOMAIN q :
                     /\ Sha[q[k]] = s
                     /\ Posted(q, op)[s] = [idx |-> q[k], off |-> op[q[k]].off,
                                            len |-> op[q[k]].end - op[q[k]].off]
<1> DEFINE M(s) == {k \in DOMAIN q : Sha[q[k]] = s}
<1> DEFINE row(i) == [idx |-> i, off |-> op[i].off, len |-> op[i].end - op[i].off]
<1>1. objects \in [Shas -> Rows]
      /\ \A s \in Shas : objects[s] # NoRow => objects[s].idx \in Entries /\ Sha[objects[s].idx] = s
  BY Zenon DEF Types, TTables
<1>2. Posted(q, op) = [s \in Shas |-> IF objects[s] # NoRow \/ M(s) = {} THEN objects[s]
                                      ELSE row(q[Min(M(s))])]
  BY Zenon DEF Posted
<1>3. \A i \in Entries : row(i) \in Rows /\ row(i).idx = i
  <2>1. \A i \in Entries : op[i].off \in Int /\ op[i].end \in Int
    BY DEF Marks
  <2>2. \A i \in Entries : i \in 0..N
    BY ImportAssumption DEF Entries
  <2> QED
    BY <2>1, <2>2 DEF Rows
<1>4. \A s \in Shas : M(s) \in SUBSET Nat
  OBVIOUS
<1>5. \A k \in DOMAIN q : q[k] \in Entries
  OBVIOUS
<1>6. ASSUME NEW s \in Shas, M(s) # {}
      PROVE  Min(M(s)) \in DOMAIN q /\ Sha[q[Min(M(s))]] = s
  <2>1. Min(M(s)) \in M(s)
    <3> HIDE DEF M
    <3> QED
      BY Zenon, <1>4, <1>6, MinIn
  <2> QED
    BY Zenon, <2>1
<1>7. \A s \in Shas : M(s) = {} => \A k \in DOMAIN q : Sha[q[k]] # s
  BY Zenon
<1> HIDE DEF M
<1>8. ASSUME NEW s \in Shas
      PROVE  /\ Posted(q, op)[s] \in Rows
             /\ Posted(q, op)[s] # NoRow =>
                  Posted(q, op)[s].idx \in Entries /\ Sha[Posted(q, op)[s].idx] = s
             /\ objects[s] # NoRow => Posted(q, op)[s] = objects[s]
             /\ objects[s] = NoRow =>
                  \/ Posted(q, op)[s] = NoRow /\ \A k \in DOMAIN q : Sha[q[k]] # s
                  \/ \E k \in DOMAIN q : Sha[q[k]] = s /\ Posted(q, op)[s] = row(q[k])
  <2>1. CASE objects[s] # NoRow \/ M(s) = {}
    <3>1. Posted(q, op)[s] = objects[s]
      BY Zenon, <1>2, <2>1
    <3> QED
      BY Zenon, <3>1, <1>1, <1>7, <2>1
  <2>2. CASE ~(objects[s] # NoRow \/ M(s) = {})
    <3>1. Posted(q, op)[s] = row(q[Min(M(s))])
      <4> HIDE DEF row
      <4> QED
        BY Zenon, <1>2, <2>2
    <3>2. PICK k \in DOMAIN q : Sha[q[k]] = s /\ Posted(q, op)[s] = row(q[k])
      <4> HIDE DEF row
      <4> QED
        BY Zenon, <3>1, <1>6, <2>2
    <3>3. row(q[k]) \in Rows /\ row(q[k]).idx = q[k] /\ q[k] \in Entries
      BY Zenon, <1>3, <1>5
    <3> HIDE DEF row
    <3> QED
      BY Zenon, <3>2, <3>3, <2>2
  <2> QED
    BY Zenon, <2>1, <2>2
<1>9. Posted(q, op) \in [Shas -> Rows]
  <2> HIDE DEF row
  <2> QED
    BY Zenon, <1>2, <1>8
<1> QED
  BY Zenon, <1>8, <1>9

(* What taking the entry at hand leaves of a slice.                           *)
TakenFrom ==
  /\ Taken.at = sl.at /\ Taken.w = sl.w /\ Taken.pend = sl.pend /\ Taken.done = sl.done
  /\ Taken.rows = sl.rows /\ Taken.links = sl.links /\ Taken.took = sl.took /\ Taken.i = sl.i
  /\ Taken.c = IF How = "scan" THEN [sl.c EXCEPT !.scan = Item] ELSE sl.c
  /\ Taken.wakes = IF How = "wake" THEN Tail(sl.wakes) ELSE sl.wakes
  /\ Taken.todo.cut = IF How = "cut" THEN sl.todo.cut \ {Item} ELSE sl.todo.cut
  /\ Taken.todo.parked = IF How = "parked" THEN Tail(sl.todo.parked) ELSE sl.todo.parked
  /\ Taken.todo.requeue = IF How = "requeue" THEN sl.todo.requeue \ {Item} ELSE sl.todo.requeue
  /\ Taken.todo.scan = IF How = "scan" THEN sl.todo.scan \ {Item} ELSE sl.todo.scan

(* Where the entry at hand comes from, and what is exhausted before it.       *)
ItemFrom ==
  \/ How = "wake" /\ sl.wakes # <<>> /\ Item = Head(sl.wakes)
  \/ /\ How = "cut" /\ sl.wakes = <<>> /\ Item \in sl.todo.cut
     /\ \A j \in sl.todo.cut : open[Item].off <= open[j].off
  \/ /\ How = "parked" /\ sl.wakes = <<>> /\ sl.todo.cut = {} /\ sl.todo.parked # <<>>
     /\ Item = Head(sl.todo.parked)
  \/ /\ How = "requeue" /\ sl.wakes = <<>> /\ sl.todo.cut = {} /\ sl.todo.parked = <<>>
     /\ Item \in sl.todo.requeue
  \/ /\ How = "scan" /\ sl.wakes = <<>> /\ sl.todo.cut = {} /\ sl.todo.parked = <<>>
     /\ sl.todo.requeue = {} /\ Item \in sl.todo.scan /\ \A j \in sl.todo.scan : Item <= j

\* The entry at hand and the slice without it.
LEMMA TaskFacts ==
    ASSUME Types, HasTask
    PROVE  /\ Item \in Entries /\ Taken \in Slices /\ TakenFrom /\ ItemFrom
           /\ Frag \in Nat /\ (How # "cut" => Frag = 0)
           /\ How = "cut" => Frag > 0 /\ Frag = Len(cur.st.bytes) - open[Item].off
<1>1. sl \in Slices /\ open \in [Entries -> Marks] /\ sl.todo \in Todos /\ cur \in Cursors
  BY DEF Types, TSlice, TTables, TCur, Slices
<1>2. sl.wakes \in Seq(Entries) /\ sl.todo.parked \in Seq(Entries) /\ sl.todo.cut \in SUBSET Entries
      /\ sl.todo.requeue \in SUBSET Entries /\ sl.todo.scan \in SUBSET Entries
  BY <1>1 DEF Slices, Todos
<1>3. Entries \in SUBSET Nat
  BY DEF Entries
<1>4. /\ sl.wakes = <<>> \/ (Head(sl.wakes) \in Entries /\ Tail(sl.wakes) \in Seq(Entries))
      /\ sl.todo.parked = <<>> \/ (Head(sl.todo.parked) \in Entries /\ Tail(sl.todo.parked) \in Seq(Entries))
  BY <1>2
<1>5. How \in {"wake", "cut", "parked", "requeue", "scan"}
  BY DEF HasTask, How
<1>6. CASE How = "wake"
  <2>1. sl.wakes # <<>> /\ Item = Head(sl.wakes)
    BY <1>6 DEF How, Item
  <2>2. Taken = [sl EXCEPT !.wakes = Tail(@)]
    BY <1>6 DEF Taken
  <2>3. Taken \in Slices
    BY Zenon, <2>1, <2>2, <1>1, <1>4 DEF Slices
  <2>4. TakenFrom
    BY <2>2, <1>1, <1>6 DEF TakenFrom, Slices, Todos
  <2> QED
    BY <2>1, <2>3, <2>4, <1>4, <1>6 DEF ItemFrom, Frag
<1>7. CASE How = "cut"
  <2>1. sl.wakes = <<>> /\ sl.todo.cut # {} /\ Item = Lowest(sl.todo.cut)
    BY <1>7 DEF How, Item
  <2>2. Item \in sl.todo.cut /\ \A j \in sl.todo.cut : open[Item].off <= open[j].off
    BY Zenon, <2>1, <1>1, <1>2, LowestIn
  <2>3. Taken = [sl EXCEPT !.todo.cut = @ \ {Item}]
    BY <1>7 DEF Taken
  <2>4. Taken \in Slices
    BY Zenon, <2>3, <1>1 DEF Slices, Todos
  <2>5. TakenFrom
    BY <2>3, <1>1, <1>7 DEF TakenFrom, Slices, Todos
  <2>6. open[Item].off < Len(cur.st.bytes)
    BY Zenon, <2>1, <2>2 DEF Types, TCut, HasTask, Drains
  <2>7. Frag = Len(cur.st.bytes) - open[Item].off
    BY <1>7 DEF Frag
  <2>8. open[Item].off \in Int /\ Len(cur.st.bytes) \in Nat
    BY <1>1, <1>2, <2>2 DEF Marks, Cursors, Ckpts
  <2>9. Frag \in Nat /\ Frag > 0
    BY <2>6, <2>7, <2>8
  <2> QED
    BY Zenon, <2>1, <2>2, <2>4, <2>5, <2>7, <2>9, <1>2, <1>7 DEF ItemFrom
<1>8. CASE How = "parked"
  <2>1. sl.wakes = <<>> /\ sl.todo.cut = {} /\ sl.todo.parked # <<>> /\ Item = Head(sl.todo.parked)
    BY <1>8 DEF How, Item
  <2>2. Taken = [sl EXCEPT !.todo.parked = Tail(@)]
    BY <1>8 DEF Taken
  <2>3. Taken \in Slices
    BY Zenon, <2>1, <2>2, <1>1, <1>4 DEF Slices, Todos
  <2>4. TakenFrom
    BY Zenon, <2>2, <1>1, <1>8 DEF TakenFrom, Slices, Todos
  <2> QED
    BY <2>1, <2>3, <2>4, <1>4, <1>8 DEF ItemFrom, Frag
<1>9. CASE How = "requeue"
  <2>1. sl.wakes = <<>> /\ sl.todo.cut = {} /\ sl.todo.parked = <<>> /\ sl.todo.requeue # {}
        /\ Item = Min(sl.todo.requeue)
    BY <1>9 DEF How, Item
  <2>2. Item \in sl.todo.requeue
    BY Zenon, <2>1, <1>2, <1>3, MinIn
  <2>3. Taken = [sl EXCEPT !.todo.requeue = @ \ {Item}]
    BY <1>9 DEF Taken
  <2>4. Taken \in Slices
    BY Zenon, <2>3, <1>1 DEF Slices, Todos
  <2>5. TakenFrom
    BY <2>3, <1>1, <1>9 DEF TakenFrom, Slices, Todos
  <2> QED
    BY <2>1, <2>2, <2>4, <2>5, <1>2, <1>9 DEF ItemFrom, Frag
<1>10. CASE How = "scan"
  <2>1. sl.wakes = <<>> /\ sl.todo.cut = {} /\ sl.todo.parked = <<>> /\ sl.todo.requeue = {}
        /\ sl.todo.scan # {} /\ Item = Min(sl.todo.scan)
    BY <1>10 DEF How, Item
  <2>2. Item \in sl.todo.scan /\ \A j \in sl.todo.scan : Item <= j
    BY Zenon, <2>1, <1>2, <1>3, MinIn
  <2>3. Taken = [sl EXCEPT !.todo.scan = @ \ {Item}, !.c.scan = Item]
    BY <1>10 DEF Taken
  <2>4. Item \in 0..N
    BY <2>2, <1>2, ImportAssumption DEF Entries
  <2>5. Taken \in Slices
    BY Zenon, <2>3, <2>4, <1>1 DEF Slices, Todos, Cursors
  <2>6. TakenFrom
    BY <2>3, <1>1, <1>10 DEF TakenFrom, Slices, Todos, Cursors
  <2> QED
    BY <2>1, <2>2, <2>5, <2>6, <1>2, <1>10 DEF ItemFrom, Frag
<1> QED
  BY Zenon, <1>5, <1>6, <1>7, <1>8, <1>9, <1>10

-----------------------------------------------------------------------------
(* Steps that leave most of the state alone. *)

\* Nothing is a whole number of parts.
LEMMA EmptyWhole == WholeLen(<<>>) /\ WholeLen(NoSt.bytes)
<1>1. Len(<<>>) = PART * 0 /\ NoSt.bytes = <<>>
  BY ImportAssumption DEF NoSt
<1> QED
  BY <1>1 DEF WholeLen

\* An idle slice satisfies what Types says of slices.
LEMMA IdleTypes ==
    ASSUME sl' = Idle
    PROVE  TSlice' /\ TCut' /\ sl'.at = "idle" /\ sl'.c.next_idx = 0 /\ WholeLen(sl'.c.st.bytes)
<1>1. Idle \in Slices
  BY Zenon, EmptyShapes
<1>2. sl'.at = "idle" /\ sl'.c = FreshCursor("toc")
  BY DEF Idle
<1>3. FreshCursor("toc").next_idx = 0 /\ FreshCursor("toc").st.bytes = <<>>
  BY DEF FreshCursor, NoSt
<1>4. WholeLen(<<>>)
  BY Zenon, EmptyWhole
<1> QED
  BY <1>1, <1>2, <1>3, <1>4 DEF TSlice, TCut, Bound, Drains

\* A slice that ends and leaves the cursor.
LEMMA EndsTyped ==
    ASSUME Types, sl' = Idle, cur' = cur, toc' \in 0..N, push' = "open" => toc' = toc /\ push = "open",
           job' \in [state : JobStates \ {"running"}, attempts : 0..MaxAttempts],
           job'.state \in {"none", "queued"} => job'.attempts < MaxAttempts,
           TTables', TWorld', TR2'
    PROVE  Types'
<1>1. TSlice' /\ TCut' /\ sl'.at = "idle" /\ sl'.c.next_idx = 0 /\ WholeLen(sl'.c.st.bytes)
  BY Zenon, IdleTypes
<1>2. TJob'
  BY <1>1 DEF TJob, JobStates
<1>3. TCur'
  BY <1>1 DEF TCur, Types
<1>4. TWhole'
  BY Zenon, <1>1 DEF TWhole, Types
<1> QED
  BY Zenon, <1>1, <1>2, <1>3, <1>4 DEF Types

\* A slice that ends and saves a cursor.
LEMMA YieldsTyped ==
    ASSUME Types, Continue(cur'), job.state \in {"queued", "running"}, cur' \in Cursors, toc' \in 0..N,
           push' = "open" => cur'.next_idx <= toc',
           cur'.upload = 0 => cur'.st = NoSt /\ cur'.tail = 0 /\ cur'.phase \notin {"check", "commit"},
           WholeLen(cur'.st.bytes), TTables', TWorld', TR2'
    PROVE  Types'
<1>0. sl' = Idle /\ job' = [job EXCEPT !.state = "queued"]
  BY DEF Continue
<1>1. TSlice' /\ TCut' /\ sl'.at = "idle" /\ sl'.c.next_idx = 0 /\ WholeLen(sl'.c.st.bytes)
  BY Zenon, IdleTypes, <1>0
<1>2. TJob'
  BY <1>0, <1>1 DEF TJob, JobStates, Types
<1>3. TCur'
  BY <1>1 DEF TCur
<1>4. TWhole'
  BY Zenon, <1>1 DEF TWhole
<1> QED
  BY Zenon, <1>1, <1>2, <1>3, <1>4 DEF Types

\* What no table, no world and no R2 step disturbs.
LEMMA FrameTypes ==
    ASSUME Types
    PROVE  /\ UNCHANGED <<open, objects, tail, parts, push_links>> => TTables'
           /\ UNCHANGED <<world, faults>> => TWorld'
           /\ UNCHANGED r2 => TR2'
           /\ UNCHANGED <<job, sl>> => TJob'
           /\ UNCHANGED <<cur, toc, push, sl>> => TCur'
           /\ UNCHANGED <<cur, sl>> => TSlice' /\ TWhole'
           /\ UNCHANGED <<cur, sl, open>> => TCut'
  BY SMTT(30) DEF Types, TTables, TWorld, world, TR2, r2, TJob, TCur, TSlice, TWhole, TCut

\* R2 keeps its shape.
LEMMA R2Shapes ==
    ASSUME TR2
    PROVE  /\ \A u \in 1..MaxUploads : Aborted(u) \in [1..MaxUploads -> Multiparts]
           /\ \A u \in 1..MaxUploads, n \in Nat, p \in Parts :
                WithPart(u, n, p) \in [1..MaxUploads -> Multiparts]
<1>1. uploads \in [1..MaxUploads -> Multiparts]
  BY DEF TR2
<1>2. ASSUME NEW u \in 1..MaxUploads PROVE Aborted(u) \in [1..MaxUploads -> Multiparts]
  <2> DEFINE f == [uploads EXCEPT ![u].state = "gone"]
  <2>1. f \in [1..MaxUploads -> Multiparts]
    BY <1>1 DEF Multiparts
  <2>2. Aborted(u) = [f EXCEPT ![u].parts = <<>>]
    BY Zenon DEF Aborted
  <2>3. <<>> \in Seq(Parts)
    OBVIOUS
  <2> HIDE DEF f
  <2> QED
    BY Zenon, <2>1, <2>2, <2>3 DEF Multiparts
<1>3. ASSUME NEW u \in 1..MaxUploads, NEW n \in Nat, NEW p \in Parts
      PROVE  WithPart(u, n, p) \in [1..MaxUploads -> Multiparts]
  <2>1. uploads[u].parts \in Seq(Parts)
    BY <1>1 DEF Multiparts
  <2> DEFINE q == IF n <= Len(uploads[u].parts) THEN [uploads[u].parts EXCEPT ![n] = p]
                  ELSE Append(uploads[u].parts, p)
  <2>2. q \in Seq(Parts)
    <3>0. uploads[u].parts \in [1..Len(uploads[u].parts) -> Parts]
      BY <2>1
    <3>1. [uploads[u].parts EXCEPT ![n] = p] \in [1..Len(uploads[u].parts) -> Parts]
      BY Zenon, <3>0
    <3> QED
      BY <3>1, <2>1
  <2>3. WithPart(u, n, p) = [uploads EXCEPT ![u].parts = q]
    BY Zenon DEF WithPart
  <2> HIDE DEF q
  <2> QED
    BY <2>2, <2>3, <1>1 DEF Multiparts
<1> QED
  BY Zenon, <1>2, <1>3

\* Everything is emptied, or nothing is.
LEMMA EmptyTables ==
    /\ NoStaging /\ objects' = objects /\ Types => TTables' /\ toc' \in 0..N
    /\ [s \in Shas |-> NoRow] \in [Shas -> Rows] /\ [i \in Entries |-> NoMark] \in [Entries -> Marks]
<1>1. NoRow \in Rows /\ NoMark \in Marks /\ N \in Nat
  BY Zenon, EmptyShapes, ImportAssumption
<1>2. [s \in Shas |-> NoRow] \in [Shas -> Rows] /\ [i \in Entries |-> NoMark] \in [Entries -> Marks]
  BY Zenon, <1>1
<1>3. ASSUME NoStaging, objects' = objects, Types PROVE TTables' /\ toc' \in 0..N
  <2>1. <<>> \in Seq(Units) /\ <<>> \in Seq(Parts) /\ 0 \in 0..N
    BY <1>1
  <2> QED
    BY Zenon, <2>1, <1>2, <1>3 DEF NoStaging, Types, TTables
<1> QED
  BY Zenon, <1>2, <1>3

\* Steps of the world and of the janitor.
LEMMA QuietTyped ==
    ASSUME Types, Sweep \/ Arrive \/ PushAbort \/ PushExpires \/ UploadReaped \/ LateCall
                  \/ JanitorPack \/ JanitorStaging \/ JanitorDeadJob
    PROVE  Types'
<1>1. CASE Sweep \/ Arrive
  <2>1. TWorld' /\ UNCHANGED <<job, cur, tables, push, r2, sl>>
    BY <1>1, ImportAssumption DEF Sweep, Arrive, Types, TWorld
  <2> QED
    BY Zenon, <2>1, FrameTypes DEF Types, tables
<1>2. CASE PushAbort \/ PushExpires
  <2>1. TWorld' /\ TCur' /\ UNCHANGED <<job, cur, tables, r2, sl>>
    BY <1>2 DEF PushAbort, PushExpires, Types, TWorld, TCur, PushStates, tables
  <2> QED
    BY Zenon, <2>1, FrameTypes DEF Types, tables
<1>3. CASE UploadReaped
  <2>1. TR2'
    BY Zenon, <1>3, R2Shapes DEF UploadReaped, TR2, Types
  <2>2. TWorld' /\ UNCHANGED <<job, cur, tables, push, sl>>
    BY <1>3, ImportAssumption DEF UploadReaped, Types, TWorld, world
  <2> QED
    BY Zenon, <2>1, <2>2, FrameTypes DEF Types, tables
<1>4. CASE LateCall
  <2>0. UNCHANGED <<job, cur, tables, world, sl, faults>>
    BY Zenon, <1>4 DEF LateCall
  <2>1. PICK q \in late :
       LET call == Head(q)
           rest == (late \ {q}) \cup (IF Len(q) > 1 THEN {Tail(q)} ELSE {})
       IN  \/ late' = late \ {q} /\ UNCHANGED <<uploads, object>>
           \/ late' = rest /\ uploads' = WithPart(call.u, call.n, call.p) /\ UNCHANGED object
           \/ late' = rest /\ uploads' = Aborted(call.u) /\ object' \in {object, call.etags}
    BY Zenon, <1>4 DEF LateCall
  <2>2. q \in Seq(R2Calls) /\ Len(q) > 0 /\ \A r \in late : r \in Seq(R2Calls) /\ Len(r) > 0
    BY Zenon DEF Types, TR2
  <2>3. Head(q) \in R2Calls /\ (Len(q) > 1 => Tail(q) \in Seq(R2Calls) /\ Len(Tail(q)) > 0)
    BY <2>2
  <2>4. Head(q).u \in 1..MaxUploads /\ Head(q).n \in Nat /\ Head(q).p \in Parts /\ Head(q).etags \in Seq(Parts)
    BY <2>3 DEF R2Calls
  <2>5. WithPart(Head(q).u, Head(q).n, Head(q).p) \in [1..MaxUploads -> Multiparts]
        /\ Aborted(Head(q).u) \in [1..MaxUploads -> Multiparts]
    BY Zenon, <2>4, R2Shapes DEF Types
  <2>6. TR2'
    BY <2>1, <2>2, <2>3, <2>4, <2>5 DEF Types, TR2
  <2> QED
    BY Zenon, <2>0, <2>6, FrameTypes DEF Types, tables, world
<1>5. CASE JanitorPack
  <2>1. TTables' /\ UNCHANGED <<job, cur, toc, open, world, r2, sl, faults>>
    BY <1>5, EmptyTables DEF JanitorPack, Types, TTables
  <2> QED
    BY Zenon, <2>1, FrameTypes DEF Types, world
<1>6. CASE JanitorStaging
  <2>1. TTables' /\ toc' \in 0..N /\ push # "open" /\ sl.at = "idle" /\ UNCHANGED <<job, cur, world, r2, sl, faults>>
    BY Zenon, <1>6, EmptyTables DEF JanitorStaging
  <2>2. TCur' /\ TCut'
    BY <2>1 DEF Types, TCur, TCut, world, Drains
  <2> QED
    BY Zenon, <2>1, <2>2, FrameTypes DEF Types
<1>7. CASE JanitorDeadJob
  <2>1. UNCHANGED <<cur, tables, world, object, sl, late, faults>> /\ uploads' \in {uploads, Aborted(cur.upload)}
        /\ (cur.upload = 0 => uploads' = uploads)
    BY Zenon, <1>7 DEF JanitorDeadJob
  <2>2. TJob'
    BY <1>7 DEF JanitorDeadJob, Types, TJob, JobStates
  <2>3. cur.upload # 0 => cur.upload \in 1..MaxUploads
    BY ImportAssumption DEF Types, TCur, Cursors
  <2>4. TR2'
    BY Zenon, <2>1, <2>3, R2Shapes DEF Types, TR2
  <2> QED
    BY Zenon, <2>1, <2>2, <2>4, FrameTypes DEF Types, tables, world
<1> QED
  BY Zenon, <1>1, <1>2, <1>3, <1>4, <1>5, <1>6, <1>7

-----------------------------------------------------------------------------
(* The calls of a slice, and slices that end. *)

\* The whole parts in a buffer.
LEMMA PartCount ==
    ASSUME NEW x \in Nat
    PROVE  x \div PART \in Nat /\ \A k \in 1..(x \div PART) : k * PART <= x
<1>1. PART \in Nat /\ PART > 0
  BY ImportAssumption
<1>2. PICK m \in Int : m = x \div PART
  BY <1>1
<1>3. m >= 0 /\ m * PART <= x
  BY <1>1, <1>2
<1>4. ASSUME NEW k \in 1..m PROVE k * PART <= x
  <2>1. PICK j \in Nat : m = k + j
    <3>1. m - k \in Nat /\ m = k + (m - k)
      BY <1>3
    <3> QED
      BY Zenon, <3>1
  <2>2. j * PART >= 0 /\ m * PART = k * PART + j * PART
    BY <1>1, <2>1
  <2> QED
    BY <2>2, <1>3, <1>1, <2>1
<1> QED
  BY <1>2, <1>3, <1>4

\* What a slice may still send has the shape of calls.
LEMMA CallShapes ==
    ASSUME Types, sl.at # "idle"
    PROVE  /\ Calls \in Seq(R2Calls)
           /\ \A k \in 0..Len(Calls) : k > 0 => SubSeq(Calls, 1, k) \in Seq(R2Calls) /\ Len(SubSeq(Calls, 1, k)) > 0
<1> DEFINE u == sl.c.upload
<1> DEFINE n == Len(sl.w.etags)
<1> DEFINE Chunk(k) == SubSeq(sl.w.buf, (k - 1) * PART + 1, k * PART)
<1>1. sl.w.buf \in Seq(Units) /\ sl.w.hash \in Seq(Units) /\ sl.w.etags \in Seq(Parts) /\ u \in 0..MaxUploads
  BY DEF Types, TSlice, Slices, Writers, Cursors
<1>2. sl.at \in Bound => u \in 1..MaxUploads
  BY <1>1, ImportAssumption DEF Types, TSlice
<1>3. n \in Nat /\ PART \in Nat /\ PART > 1 /\ <<>> \in Seq(Parts) /\ <<>> \in Seq(Units)
  BY <1>1, ImportAssumption
<1>3a. Len(sl.w.buf) \in Nat
  BY <1>1
<1>4. LastPart(sl.w) \in Parts /\ [b |-> <<>>, h |-> <<>>] \in Parts
  BY <1>1 DEF LastPart, Parts
<1>5. \A v \in 1..MaxUploads, m \in Nat, p \in Parts, es \in Seq(Parts) :
        PartCall(v, m, p) \in R2Calls /\ CompleteCall(v, es) \in R2Calls /\ AbortCall(v) \in R2Calls
  BY <1>4, <1>3 DEF PartCall, CompleteCall, AbortCall, R2Calls
<1>6. Calls \in Seq(R2Calls)
  <2>1. CASE sl.at = "upload"
    <3> DEFINE m == Len(sl.w.buf) \div PART
    <3>1. m \in Nat
      BY <1>3a, PartCount
    <3>2. ASSUME NEW k \in 1..m PROVE PartCall(u, n + k, [b |-> Chunk(k), h |-> <<>>]) \in R2Calls
      <4>1. Chunk(k) \in Seq(Units)
        <5>1. (k - 1) * PART + 1 \in Int /\ k * PART \in Int /\ (k - 1) * PART + 1 >= 1
          BY <1>3, <3>1
        <5>2. k * PART <= Len(sl.w.buf)
          BY Zenon, <1>3a, PartCount
        <5> QED
          BY <5>1, <5>2, <1>1
      <4>2. [b |-> Chunk(k), h |-> <<>>] \in Parts /\ n + k \in Nat
        BY <4>1, <1>3, <3>1 DEF Parts
      <4> QED
        BY Zenon, <4>2, <1>2, <1>3, <1>5, <2>1 DEF Bound
    <3>3. Calls = [k \in 1..m |-> PartCall(u, n + k, [b |-> Chunk(k), h |-> <<>>])]
      BY Zenon, <2>1 DEF Calls
    <3> HIDE DEF m, u, n, Chunk
    <3> QED
      BY <3>1, <3>2, <3>3
  <2>2. CASE sl.at = "last"
    <3>1. Append(sl.w.etags, LastPart(sl.w)) \in Seq(Parts) /\ n + 1 \in Nat /\ u \in 1..MaxUploads
      BY <1>1, <1>2, <1>3, <1>4, <2>2 DEF Bound
    <3>2. PartCall(u, n + 1, LastPart(sl.w)) \in R2Calls /\ CompleteCall(u, Append(sl.w.etags, LastPart(sl.w))) \in R2Calls
      BY Zenon, <3>1, <1>4, <1>5
    <3>3. Calls = <<PartCall(u, n + 1, LastPart(sl.w)), CompleteCall(u, Append(sl.w.etags, LastPart(sl.w)))>>
      BY <2>2 DEF Calls
    <3> HIDE DEF u, n
    <3> QED
      BY <3>2, <3>3
  <2>3. CASE sl.at = "complete" \/ sl.at = "reject"
    <3>1. CompleteCall(u, sl.w.etags) \in R2Calls /\ AbortCall(u) \in R2Calls
      BY Zenon, <1>1, <1>2, <1>3, <1>4, <1>5, <2>3 DEF Bound
    <3>2. Calls = <<CompleteCall(u, sl.w.etags)>> \/ Calls = <<AbortCall(u)>>
      BY <2>3 DEF Calls
    <3> HIDE DEF u
    <3>3. <<CompleteCall(u, sl.w.etags)>> \in Seq(R2Calls) /\ <<AbortCall(u)>> \in Seq(R2Calls)
      BY <3>1
    <3> QED
      BY Zenon, <3>2, <3>3
  <2>4. CASE sl.at \notin {"upload", "last", "complete", "reject"}
    <3>1. Calls = <<>>
      BY Zenon, <2>4 DEF Calls
    <3> QED
      BY <3>1
  <2> QED
    BY Zenon, <2>1, <2>2, <2>3, <2>4
<1> QED
  BY <1>6

\* Steps that end a slice and leave its cursor.
LEMMA EndingTyped ==
    ASSUME Types, Retire \/ FetchRejected \/ CheckRetry \/ RejectPush \/ Lose \/ Fail \/ Cleanup
    PROVE  Types'
<1>1. sl' = Idle /\ cur' = cur /\ UNCHANGED tables /\ UNCHANGED object /\ UNCHANGED <<gc_epoch, live>>
      /\ (push' = push \/ push' = "rejected")
  BY Zenon DEF Retire, FetchRejected, CheckRetry, RejectPush, Lose, Fail, Cleanup, Done, Err, r2, world
<1>2. toc' \in 0..N /\ (push' = "open" => toc' = toc /\ push = "open")
  BY <1>1 DEF tables, Types, TCur
<1>3. TTables'
  BY Zenon, <1>1, FrameTypes DEF tables
<1>4. TWorld'
  <2>1. faults' = faults \/ (faults < MaxFaults /\ faults' = faults + 1)
    BY Zenon DEF Retire, FetchRejected, CheckRetry, RejectPush, Lose, Fail, Fault, Cleanup
  <2>2. faults' \in 0..MaxFaults
    BY <2>1, ImportAssumption DEF Types, TWorld
  <2> QED
    BY <1>1, <2>2 DEF Types, TWorld, PushStates
<1>5. job.state \in {"queued", "running"}
  BY DEF Retire, FetchRejected, CheckRetry, RejectPush, Lose, Fail, Fault, Cleanup, Due, Types, TJob
<1>6. job' \in [state : JobStates \ {"running"}, attempts : 0..MaxAttempts]
      /\ (job'.state \in {"none", "queued"} => job'.attempts < MaxAttempts)
  <2>1. \/ job' = [job EXCEPT !.state = "gone"] \/ job' = [job EXCEPT !.state = "queued"]
        \/ job' = [state |-> IF job.attempts + 1 >= MaxAttempts THEN "dead" ELSE "queued",
                   attempts |-> job.attempts + 1]
    BY Zenon DEF Retire, FetchRejected, CheckRetry, RejectPush, Lose, Fail, Cleanup, Done, Err
  <2> QED
    BY <2>1, <1>5, ImportAssumption DEF Types, TJob, JobStates
<1>7. TR2'
  <2>1. CASE RejectPush
    <3>1. sl.c.upload \in 1..MaxUploads
      BY <2>1, ImportAssumption DEF RejectPush, Types, TSlice, Slices, Cursors, Bound
    <3> QED
      BY Zenon, <2>1, <3>1, R2Shapes DEF Types, TR2, RejectPush
  <2>2. CASE Lose
    <3>1. UNCHANGED <<uploads, object>> /\ sl.at # "idle"
      BY Zenon, <2>2 DEF Lose, Fault
    <3>2. PICK k \in 0..Len(Calls) : late' = IF k = 0 THEN late ELSE late \cup {SubSeq(Calls, 1, k)}
      BY Zenon, <2>2 DEF Lose
    <3>3. k # 0 => SubSeq(Calls, 1, k) \in Seq(R2Calls) /\ Len(SubSeq(Calls, 1, k)) > 0
      BY <3>1, <3>2, CallShapes
    <3> QED
      BY Zenon, <3>1, <3>2, <3>3 DEF Types, TR2
  <2>3. CASE ~RejectPush /\ ~Lose
    <3>1. UNCHANGED r2
      BY Zenon, <2>3 DEF Retire, FetchRejected, CheckRetry, Fail, Cleanup
    <3> QED
      BY Zenon, <3>1, FrameTypes
  <2> QED
    BY Zenon, <2>1, <2>2, <2>3
<1> QED
  BY Zenon, <1>1, <1>2, <1>3, <1>4, <1>6, <1>7, EndsTyped

\* Objects are numbers.
LEMMA OidsNat == Oids \in SUBSET Nat /\ Shas \in SUBSET Oids /\ \A i \in Entries : Sha[i] \in Shas /\ Link[i] \in SUBSET Oids
<1>1. Sha \in [Entries -> Nat] /\ Link \in [Entries -> SUBSET Nat]
  BY ImportAssumption DEF Entries
<1>2. Range(Sha) \in SUBSET Nat /\ \A S \in Range(Link) : S \in SUBSET Nat
  BY Zenon, <1>1 DEF Range
<1>3. \A i \in Entries : Sha[i] \in Range(Sha) /\ Link[i] \in Range(Link)
  BY Zenon, <1>1 DEF Range
<1> QED
  BY Zenon, <1>2, <1>3 DEF Oids, Shas

\* Cursors a step may leave, and the ones it makes of them.
LEMMA CursorShapes ==
    ASSUME NEW c \in Cursors, gc_epoch \in Nat
    PROVE  /\ Pinned(c) \in Cursors /\ ResetToCheck(c) \in Cursors
           /\ Pinned(c).next_idx = c.next_idx /\ Pinned(c).upload = c.upload /\ Pinned(c).st = c.st
           /\ Pinned(c).tail = c.tail /\ Pinned(c).phase = c.phase
           /\ ResetToCheck(c).next_idx = c.next_idx /\ ResetToCheck(c).upload = c.upload
           /\ ResetToCheck(c).st = c.st /\ ResetToCheck(c).tail = c.tail
<1>1. ResetToCheck(c) \in Cursors
  <2>1. "check" \in Phases /\ 0 \in Nat /\ NoEpoch \in Int /\ TRUE \in BOOLEAN
    BY DEF Phases, NoEpoch
  <2> QED
    BY Zenon, <2>1 DEF ResetToCheck, Cursors
<1>2. Pinned(c) \in Cursors
  BY DEF Pinned, Cursors
<1> QED
  BY <1>1, <1>2 DEF Pinned, ResetToCheck, Cursors

\* Steps that begin a slice, or change no more than its program counter and
\* its upload.
LEMMA ClaimTyped ==
    ASSUME Types, Claim \/ CheckReject \/ CommitClaim
    PROVE  Types'
<1>1. UNCHANGED <<cur, tables, world, r2, faults>> /\ Claimed /\ job.state = "queued" /\ push = "open"
  BY Zenon DEF Claim, CheckReject, CommitClaim, Due
<1>2. PICK a \in {"toc", "fetch", "bind", "reject"}, c \in {cur, Pinned(cur)} :
        /\ sl' = [Idle EXCEPT !.at = a, !.c = c]
        /\ a \in {"toc", "fetch"} => c = cur /\ cur.phase \notin {"check", "commit"}
        /\ a = "reject" => cur.phase = "check"
  BY DEF Claim, CheckReject, CommitClaim, Due
<1>3. cur \in Cursors /\ gc_epoch \in Nat
  BY ImportAssumption DEF Types, TCur, TWorld
<1>4. c \in Cursors /\ c.next_idx = cur.next_idx /\ c.upload = cur.upload /\ c.st = cur.st
      /\ c.tail = cur.tail /\ c.phase = cur.phase
  BY Zenon, <1>2, <1>3, CursorShapes
<1>5. sl' \in Slices /\ sl'.at = a /\ sl'.c = c
  BY Zenon, <1>2, <1>4, EmptyShapes DEF Slices, Ats
<1>5a. Unstarted(sl')
  BY <1>2 DEF Unstarted, Idle
<1>6. TSlice' /\ TCut'
  BY <1>1, <1>2, <1>4, <1>5, <1>5a DEF TSlice, TCut, Bound, Drains, Types, TCur
<1>7. TJob'
  BY <1>1, <1>5 DEF Claimed, Types, TJob, JobStates
<1>8. TCur' /\ TWhole'
  BY <1>1, <1>4, <1>5 DEF Types, TCur, TWhole, tables, world
<1> QED
  BY Zenon, <1>1, <1>6, <1>7, <1>8, FrameTypes DEF Types, tables

(* Complete, when R2 accepts the parts and when it refuses them.              *)
Completes ==
  /\ sl.at = "complete" /\ Completable(sl.c.upload, sl.w.etags)
  /\ object' = sl.w.etags /\ uploads' = Aborted(sl.c.upload)
  /\ sl' = [sl EXCEPT !.at = "meta"]
  /\ UNCHANGED <<job, cur, tables, world, late, faults>>
Refused ==
  sl.at = "complete" /\ Err /\ UNCHANGED <<tables, world, r2, faults>>

LEMMA CompleteCases == Complete => Completes \/ Refused
  BY Zenon DEF Complete, Completes, Refused, r2

LEMMA CallTyped ==
    ASSUME Types, CreateUpload \/ UploadDead \/ UploadLast \/ Completes
    PROVE  Types'
<1>1. UNCHANGED <<job, cur, tables, world, late, faults>>
  BY Zenon DEF CreateUpload, UploadDead, UploadLast, Completes, r2
<1>2. sl \in Slices /\ sl.at \in {"bind", "upload", "last", "complete"} /\ (sl.at = "bind" \/ sl.c.upload # 0)
  BY DEF CreateUpload, UploadDead, UploadLast, Completes, Types, TSlice, Bound
<1>3. sl.c.upload # 0 => sl.c.upload \in 1..MaxUploads
  BY SMTT(30), <1>2, ImportAssumption DEF Slices, Cursors
<1>4. CASE CreateUpload
  <2>1. PICK u \in 1..MaxUploads : uploads' = [uploads EXCEPT ![u].state = "live"] /\ sl' = [sl EXCEPT !.c.upload = u]
    BY Zenon, <1>4 DEF CreateUpload
  <2>2. sl.at = "bind" /\ UNCHANGED object
    BY Zenon, <1>4 DEF CreateUpload
  <2>3. uploads' \in [1..MaxUploads -> Multiparts]
    BY <2>1 DEF Types, TR2, Multiparts
  <2>4. TR2'
    BY Zenon, <2>3, <2>2, <1>1 DEF Types, TR2
  <2>5. u \in 0..MaxUploads
    BY ImportAssumption
  <2>6. sl' \in Slices
    BY Zenon, <1>2, <2>1, <2>5 DEF Slices, Cursors
  <2>7. sl'.at = "bind" /\ sl'.c.st = sl.c.st /\ sl'.c.tail = sl.c.tail /\ sl'.c.next_idx = sl.c.next_idx
    BY <1>2, <2>1, <2>2 DEF Slices, Cursors
  <2>7a. Unstarted(sl')
    BY <1>2, <2>1, <2>2 DEF Unstarted, Types, TSlice, Slices
  <2>8. TSlice' /\ TCut'
    BY <2>2, <2>6, <2>7, <2>7a, <1>1 DEF TSlice, TCut, Types, Bound, Drains
  <2>9. TJob' /\ TCur' /\ TWhole'
    BY <2>2, <2>7, <1>1 DEF Types, TJob, TCur, TWhole, tables, world
  <2> QED
    BY Zenon, <1>1, <2>4, <2>8, <2>9, FrameTypes DEF Types, tables
<1>5. CASE ~CreateUpload
  <2>1. PICK a \in {"complete", "meta", "dead"} :
          /\ sl.at # "bind"
          /\ \/ sl' = [sl EXCEPT !.at = a]
             \/ sl' = [sl EXCEPT !.at = a, !.w.etags = Append(@, LastPart(sl.w))]
    BY <1>5 DEF UploadDead, UploadLast, Completes
  <2>2. LastPart(sl.w) \in Parts /\ sl.w.etags \in Seq(Parts) /\ Len(sl.w.etags) + 1 \in Nat
    BY SMTT(30), <1>2 DEF LastPart, Parts, Slices, Writers
  <2>3. Append(sl.w.etags, LastPart(sl.w)) \in Seq(Parts)
    BY <2>2
  <2>4. sl' \in Slices
    <3>1. a \in Ats
      BY <2>1 DEF Ats
    <3>2. [sl EXCEPT !.at = a] \in Slices
      BY Zenon, <1>2, <3>1 DEF Slices
    <3>3. [sl EXCEPT !.at = a, !.w.etags = Append(@, LastPart(sl.w))] \in Slices
      BY <1>2, <3>1, <2>2, <2>3 DEF Slices, Writers
    <3> QED
      BY Zenon, <2>1, <3>2, <3>3
  <2>4a. sl'.at = a /\ sl'.c = sl.c
    BY <1>2, <2>1 DEF Slices
  <2>5. TSlice' /\ TCut' /\ TJob' /\ TCur' /\ TWhole'
    BY <1>1, <1>2, <2>1, <2>4, <2>4a DEF Types, TSlice, TCut, TJob, TCur, TWhole, Bound, Drains, tables, world
  <2>6. TR2'
    <3>1. CASE UploadDead
      BY Zenon, <3>1, FrameTypes DEF UploadDead
    <3>2. CASE UploadLast
      <4>1. uploads' \in [1..MaxUploads -> Multiparts]
        BY Zenon, <3>2, <2>1, <2>2, <1>2, <1>3, R2Shapes DEF UploadLast, Types
      <4> QED
        BY Zenon, <4>1, <3>2 DEF UploadLast, Types, TR2
    <3>3. CASE Completes
      <4>1. object' = sl.w.etags /\ uploads' = Aborted(sl.c.upload)
        BY Zenon, <3>3 DEF Completes
      <4> QED
        BY Zenon, <4>1, <2>1, <2>2, <1>1, <1>2, <1>3, R2Shapes DEF Types, TR2
    <3> QED
      BY Zenon, <1>5, <3>1, <3>2, <3>3
  <2> QED
    BY Zenon, <1>1, <2>5, <2>6, FrameTypes DEF Types, tables
<1> QED
  BY Zenon, <1>4, <1>5

-----------------------------------------------------------------------------
(* Cursors, claims and the toc. *)

\* Steps that change the cursor of a queued job.
LEMMA CursorTyped ==
    ASSUME Types, ImportStart \/ CheckPages \/ CommitStale
    PROVE  Types'
<1>1. UNCHANGED <<tables, world, r2, sl, faults>>
  BY Zenon DEF ImportStart, CheckPages, CommitStale
<1>2. sl.at = "idle" /\ cur \in Cursors /\ gc_epoch \in Nat
  <2>1. job.state \in {"none", "queued"}
    BY DEF ImportStart, CheckPages, CommitStale, Due
  <2>2. sl.at = "idle" /\ cur \in Cursors /\ gc_epoch \in 0..MaxEpoch
    BY <2>1 DEF Types, TJob, TCur, TWorld
  <2> QED
    BY <2>2, ImportAssumption
<1>3. cur' \in Cursors /\ WholeLen(cur'.st.bytes) /\ (push = "open" => cur'.next_idx <= toc)
      /\ (cur'.upload = 0 => cur'.st = NoSt /\ cur'.tail = 0 /\ cur'.phase \notin {"check", "commit"})
  <2>1. CASE ImportStart
    <3>1. PICK p \in {"toc", "fetch"} : cur' = FreshCursor(p)
      BY Zenon, <2>1 DEF ImportStart
    <3>2. p \in Phases
      BY DEF Phases
    <3>3. FreshCursor(p) \in Cursors
      BY Zenon, <3>2, EmptyShapes
    <3>4. FreshCursor(p).st = NoSt /\ FreshCursor(p).tail = 0 /\ FreshCursor(p).next_idx = 0 /\ FreshCursor(p).phase = p
      BY DEF FreshCursor
    <3>5. WholeLen(NoSt.bytes)
      BY Zenon, EmptyWhole
    <3>6. toc >= 0
      <4>1. toc \in 0..N /\ N \in Nat
        BY Zenon, ImportAssumption DEF Types, TCur
      <4> QED
        BY <4>1
    <3> QED
      BY <3>1, <3>3, <3>4, <3>5, <3>6
  <2>2. CASE CheckPages
    <3>1. PICK after \in {cur.after} \cup Unchecked(cur) :
             \/ cur' = [Pinned(cur) EXCEPT !.after = after]
             \/ cur' = [Pinned(cur) EXCEPT !.after = after, !.phase = "commit"]
      BY Zenon, <2>2 DEF CheckPages
    <3>2. Unchecked(cur) \in SUBSET Nat
      BY Zenon, OidsNat DEF Unchecked, Types, TTables
    <3>3. after \in Nat
      BY <3>1, <3>2, <1>2 DEF Cursors
    <3>4. Pinned(cur) \in Cursors /\ Pinned(cur).next_idx = cur.next_idx /\ Pinned(cur).upload = cur.upload
          /\ Pinned(cur).st = cur.st /\ Pinned(cur).tail = cur.tail
      BY Zenon, <1>2, CursorShapes
    <3>5. cur' \in Cursors /\ cur'.next_idx = cur.next_idx /\ cur'.upload = cur.upload /\ cur'.st = cur.st
      BY <3>1, <3>3, <3>4 DEF Cursors, Phases
    <3>6. cur.upload # 0 /\ WholeLen(cur.st.bytes) /\ (push = "open" => cur.next_idx <= toc)
      BY <2>2 DEF CheckPages, Due, Types, TCur, TWhole
    <3> QED
      BY Zenon, <3>5, <3>6
  <2>3. CASE CommitStale
    <3>1. cur' = ResetToCheck(cur) /\ cur.phase = "commit"
      BY Zenon, <2>3 DEF CommitStale, Due
    <3>2. cur.upload # 0 /\ WholeLen(cur.st.bytes) /\ (push = "open" => cur.next_idx <= toc)
      BY <3>1 DEF Types, TCur, TWhole
    <3> QED
      BY Zenon, <3>1, <3>2, <1>2, CursorShapes
  <2> QED
    BY Zenon, <2>1, <2>2, <2>3
<1>4. TJob'
  BY <1>1, <1>2 DEF ImportStart, CheckPages, CommitStale, Due, Types, TJob, JobStates
<1>5. TCur' /\ TWhole' /\ TSlice' /\ TCut'
  BY <1>1, <1>2, <1>3 DEF Types, TCur, TWhole, TSlice, TCut, Bound, Drains, tables, world
<1> QED
  BY Zenon, <1>1, <1>4, <1>5, FrameTypes DEF Types, tables

\* Pass A.
LEMMA TocTyped ==
    ASSUME Types, FetchStaged \/ TocBatch \/ TocYield
    PROVE  Types'
<1>1. UNCHANGED <<open, objects, tail, parts, push_links, world, r2, faults>>
      /\ sl.at \in {"toc", "fetch"} /\ sl \in Slices /\ sl.c \in Cursors /\ job.state = "running"
  BY DEF FetchStaged, TocBatch, TocYield, Types, TSlice, TJob, Slices, tables
<1>2. sl.c.next_idx \in 0..N /\ toc \in 0..N /\ N \in Nat /\ TocFanout \in Nat \ {0}
  BY <1>1, ImportAssumption DEF Cursors, Types, TCur
<1>3. TTables' /\ TWorld' /\ TR2'
  BY Zenon, <1>1, FrameTypes
<1>4. (sl.c.upload = 0 => sl.c.st = NoSt /\ sl.c.tail = 0) /\ WholeLen(sl.c.st.bytes)
      /\ (push = "open" => sl.c.next_idx <= toc) /\ push' = push
  BY <1>1 DEF Types, TSlice, TCur, TWhole, world
<1>5. CASE TocBatch
  <2> DEFINE n == sl.c.next_idx + TocFanout
  <2>1. n \in 0..N /\ toc' = Max({toc, n}) /\ sl' = [sl EXCEPT !.c.next_idx = n] /\ UNCHANGED <<job, cur>>
    BY <1>2, <1>5 DEF TocBatch
  <2>2. toc' \in 0..N /\ toc' >= n /\ toc' >= toc
    BY <2>1, <1>2, MaxPair
  <2> HIDE DEF n
  <2>3. sl' \in Slices
    BY Zenon, <1>1, <2>1 DEF Slices, Cursors
  <2>4. sl'.at = sl.at /\ sl'.c.next_idx = n /\ sl'.c.st = sl.c.st /\ sl'.c.upload = sl.c.upload
        /\ sl'.c.tail = sl.c.tail /\ sl'.c.phase = sl.c.phase
    BY <1>1, <2>1 DEF Slices, Cursors
  <2>5. TCur'
    <3>1. cur.next_idx \in Int /\ n \in Int /\ (push = "open" => cur.next_idx <= toc)
      BY <2>1, ImportAssumption DEF Types, TCur, Cursors
    <3>2. push = "open" => cur.next_idx <= toc' /\ n <= toc'
      BY <3>1, <2>2, <1>2
    <3> QED
      BY Zenon, <3>2, <2>1, <2>2, <2>4, <1>4 DEF Types, TCur
  <2>6. TJob' /\ TWhole' /\ TSlice' /\ TCut'
    BY <1>1, <2>1, <2>3, <2>4 DEF Types, TJob, TWhole, TSlice, TCut, Bound, Drains
  <2> QED
    BY Zenon, <2>5, <2>6, <1>3 DEF Types
<1>6. CASE FetchStaged \/ TocYield
  <2>1. PICK n \in 0..N, p \in {"toc", "resolve"} :
           /\ cur' = [sl.c EXCEPT !.next_idx = n, !.phase = p] /\ Continue(cur')
           /\ toc' \in 0..N /\ (push = "open" => n <= toc')
    <3>1. CASE FetchStaged
      <4>1. cur' = [sl.c EXCEPT !.next_idx = sl.c.next_idx, !.phase = "toc"] /\ Continue(cur') /\ toc' = toc
        BY <3>1, <1>1 DEF FetchStaged, Continue, Cursors, tables
      <4> QED
        BY Zenon, <4>1, <1>2, <1>4
    <3>2. CASE TocYield
      <4>1. PICK n \in sl.c.next_idx..Min({N, sl.c.next_idx + TocFanout - 1}) :
              /\ toc' = Max({toc, n})
              /\ Continue([sl.c EXCEPT !.next_idx = n, !.phase = IF n = N THEN "resolve" ELSE "toc"])
        BY Zenon, <3>2 DEF TocYield
      <4>2. sl.c.next_idx + TocFanout - 1 \in Nat
        BY <1>2
      <4>3. n \in 0..N
        <5>1. Min({N, sl.c.next_idx + TocFanout - 1}) \in {N, sl.c.next_idx + TocFanout - 1}
              /\ Min({N, sl.c.next_idx + TocFanout - 1}) <= N
          BY Zenon, <4>2, <1>2, MinPair
        <5> QED
          BY <4>1, <4>2, <1>2, <5>1
      <4>4. toc' \in 0..N /\ n <= toc'
        BY <4>1, <4>3, <1>2, MaxPair
      <4>5. cur' = [sl.c EXCEPT !.next_idx = n, !.phase = IF n = N THEN "resolve" ELSE "toc"] /\ Continue(cur')
        BY Zenon, <4>1 DEF Continue
      <4> QED
        BY Zenon, <4>3, <4>4, <4>5
    <3> QED
      BY Zenon, <1>6, <3>1, <3>2
  <2>2. cur' \in Cursors /\ cur'.next_idx = n /\ cur'.st = sl.c.st /\ cur'.upload = sl.c.upload
        /\ cur'.tail = sl.c.tail /\ cur'.phase = p
    BY <1>1, <2>1 DEF Cursors, Phases
  <2>3. cur'.upload = 0 => cur'.st = NoSt /\ cur'.tail = 0 /\ cur'.phase \notin {"check", "commit"}
    BY <2>2, <1>4
  <2> QED
    BY Zenon, <2>1, <2>2, <2>3, <1>1, <1>3, <1>4, YieldsTyped
<1> QED
  BY Zenon, <1>5, <1>6

-----------------------------------------------------------------------------
(* Rows that a drain seals. *)

\* The waiters of a base, last one first.
LEMMA ReverseShape ==
    ASSUME NEW q \in Seq(Entries)
    PROVE  Reverse(q) \in Seq(Entries) /\ Len(Reverse(q)) = Len(q) /\ Reverse(<<>>) = <<>>
           /\ \A k \in 1..Len(q) : Reverse(q)[k] = q[(Len(q) - k) + 1]
<1>1. \A k \in 1..Len(q) : q[(Len(q) - k) + 1] \in Entries
  OBVIOUS
<1>2. Len(q) \in Nat /\ Reverse(q) = [k \in 1..Len(q) |-> q[(Len(q) - k) + 1]]
  BY DEF Reverse
<1>3. Reverse(<<>>) = <<>>
  BY DEF Reverse
<1> QED
  BY <1>1, <1>2, <1>3

(* What Seal makes of a slice s whose entry s.i is all in the writer.         *)
SealedFrom(s) ==
  /\ sl'.at = "drain" /\ sl'.c = s.c /\ sl'.todo = s.todo /\ sl'.took = s.took /\ sl'.i = 0
  /\ sl'.w.hash = s.w.hash /\ sl'.w.buf = s.w.buf /\ sl'.w.etags = s.w.etags
  /\ sl'.w.count = s.w.count + 1 /\ sl'.done = s.done \cup {s.i}
  /\ sl'.pend = [s.pend EXCEPT ![Sha[s.i]] = <<>>]
  /\ sl'.wakes = Reverse(s.pend[Sha[s.i]]) \o s.wakes

\* Sealing keeps every shape.
LEMMA SealShapes ==
    ASSUME Types, NEW s \in Slices, s.i \in Entries, NEW op \in [Entries -> Marks], Seal(s, op)
    PROVE  /\ sl' \in Slices /\ SealedFrom(s)
           /\ open' \in [Entries -> Marks] /\ open' = [op EXCEPT ![s.i].end = Offset(s.w)]
           /\ objects' \in [Shas -> Rows]
           /\ \A x \in Shas : objects'[x] # NoRow => objects'[x].idx \in Entries /\ Sha[objects'[x].idx] = x
           /\ push_links' \subseteq Oids
<1> DEFINE i == s.i
<1> DEFINE rows == Append(s.rows, i)
<1> DEFINE full == Len(rows) >= RowBatch
<1>1. s.w \in Writers /\ s.rows \in Seq(Entries) /\ s.links \in SUBSET Oids /\ s.pend \in [Shas -> Seq(Entries)]
      /\ s.wakes \in Seq(Entries) /\ s.done \in SUBSET Entries
  BY DEF Slices
<1>2. Offset(s.w) \in Nat /\ s.w.count + 1 \in Nat
  <2>1. s.w.hash \in Seq(Units) /\ s.w.buf \in Seq(Units) /\ s.w.count \in Nat
    BY <1>1 DEF Writers
  <2>2. Offset(s.w) \in Nat
    BY Zenon, <2>1, Joined DEF Offset
  <2> QED
    BY <2>1, <2>2
<1>3. open' = [op EXCEPT ![i].end = Offset(s.w)]
  BY Zenon DEF Seal
<1>4. open' \in [Entries -> Marks]
  BY <1>2, <1>3 DEF Marks
<1>5. rows \in Seq(Entries)
  BY <1>1
<1>6. objects' = IF full THEN Posted(rows, open') ELSE objects
  BY Zenon, <1>3 DEF Seal
<1>7. push_links' = IF full THEN push_links \cup s.links ELSE push_links
  BY Zenon DEF Seal
<1>8. /\ objects' \in [Shas -> Rows]
      /\ \A x \in Shas : objects'[x] # NoRow => objects'[x].idx \in Entries /\ Sha[objects'[x].idx] = x
  <2>1. CASE full
    <3>1. objects' = Posted(rows, open')
      BY Zenon, <1>6, <2>1
    <3> HIDE DEF rows
    <3> QED
      BY ZenonT(40), <3>1, <1>4, <1>5, PostedShapes
  <2>2. CASE ~full
    BY Zenon, <1>6, <2>2 DEF Types, TTables
  <2> QED
    BY Zenon, <2>1, <2>2
<1>9. push_links' \subseteq Oids
  BY Zenon, <1>7, <1>1 DEF Types, TTables
<1>10. Sha[i] \in Shas
  BY Zenon, OidsNat
<1>11. Reverse(s.pend[Sha[i]]) \o s.wakes \in Seq(Entries)
  <2>1. Reverse(s.pend[Sha[i]]) \in Seq(Entries)
    BY Zenon, <1>1, <1>10, ReverseShape
  <2> QED
    BY <2>1, <1>1
<1>12. [s.pend EXCEPT ![Sha[i]] = <<>>] \in [Shas -> Seq(Entries)]
  BY <1>1, <1>10
<1> DEFINE rs == IF full THEN <<>> ELSE rows
<1> DEFINE ls == IF full THEN {} ELSE s.links
<1>13. sl' = [s EXCEPT !.at = "drain", !.i = 0, !.w = [s.w EXCEPT !.count = s.w.count + 1], !.rows = rs, !.links = ls,
                       !.done = s.done \cup {i}, !.pend = [s.pend EXCEPT ![Sha[i]] = <<>>],
                       !.wakes = Reverse(s.pend[Sha[i]]) \o s.wakes]
  <2>1. s.w.count = s.w.count
    OBVIOUS
  <2> QED
    BY Zenon DEF Seal
<1>14. [s.w EXCEPT !.count = s.w.count + 1] \in Writers
  BY <1>1, <1>2 DEF Writers
<1>15. rs \in Seq(Entries) /\ ls \in SUBSET Oids /\ s.done \cup {i} \in SUBSET Entries /\ 0 \in 0..N /\ "drain" \in Ats
  BY <1>1, <1>5, ImportAssumption DEF Ats
<1> HIDE DEF rs, ls, rows, full
<1>16. sl' \in Slices
  BY Zenon, <1>11, <1>12, <1>13, <1>14, <1>15 DEF Slices
<1>17. SealedFrom(s)
  <2>1. sl'.w = [s.w EXCEPT !.count = s.w.count + 1]
    BY <1>13 DEF Slices
  <2>2. sl'.w.hash = s.w.hash /\ sl'.w.buf = s.w.buf /\ sl'.w.etags = s.w.etags /\ sl'.w.count = s.w.count + 1
    BY <2>1, <1>1 DEF Writers
  <2> QED
    BY <2>2, <1>13 DEF SealedFrom, Slices
<1> QED
  BY Zenon, <1>3, <1>4, <1>8, <1>9, <1>16, <1>17

\* A step of a drain that leaves the cursor, the world and R2's other state.
LEMMA DrainTyped ==
    ASSUME Types, sl.at \in Drains, UNCHANGED <<job, cur, toc, world, faults>>, sl' \in Slices,
           sl'.at \in Drains, sl'.c.upload = sl.c.upload, sl'.c.st = sl.c.st,
           sl'.c.next_idx = sl.c.next_idx,
           sl'.at = "drain" => Len(sl'.w.buf) < PART,
           sl'.at = "upload" => Len(sl'.w.buf) >= PART /\ sl'.i \in Entries,
           Len(cur.st.bytes) <= Len(sl'.w.hash), WholeLen(sl'.w.hash), TTables', TR2', TCut'
    PROVE  Types'
<1>1. sl.at # "idle" /\ sl'.at # "idle" /\ sl'.at \in {"drain", "upload"} /\ sl.at \in {"drain", "upload"} /\ sl.at \in Bound
  BY DEF Drains, Bound
<1>2. TJob' /\ TCur' /\ TWorld'
  BY Zenon, <1>1 DEF Types, TJob, TCur, TWorld, world
<1>3. TSlice'
  BY <1>1 DEF Types, TSlice, Drains, Bound
<1>4. TWhole'
  BY Zenon, <1>1 DEF Types, TSlice, TWhole
<1> QED
  BY Zenon, <1>2, <1>3, <1>4 DEF Types

\* A slice that is about to take an entry.
LEMMA AtHand ==
    ASSUME Types, HasTask
    PROVE  /\ sl.at = "drain" /\ sl \in Slices /\ Len(sl.w.buf) < PART
           /\ Len(cur.st.bytes) <= Len(sl.w.hash) /\ WholeLen(sl.w.hash)
           /\ Taken.c.upload = sl.c.upload /\ Taken.c.st = sl.c.st /\ Taken.c.next_idx = sl.c.next_idx
           /\ Taken.c.phase = sl.c.phase
           /\ Taken.at = "drain" /\ Taken.w = sl.w /\ Taken.pend = sl.pend
           /\ sl.todo.cut # {} => sl.wakes = <<>> /\ sl.pend = NoWaiters /\ How = "cut"
<1>1. sl.at = "drain" /\ sl \in Slices /\ Len(sl.w.buf) < PART /\ WholeLen(sl.w.hash)
  BY DEF HasTask, Types, TSlice, TWhole
<1>2. Len(cur.st.bytes) <= Len(sl.w.hash)
  BY <1>1 DEF Types, TSlice, Drains
<1>3. TakenFrom
  BY Zenon, TaskFacts
<1>4. /\ Taken.c.upload = sl.c.upload /\ Taken.c.st = sl.c.st /\ Taken.c.next_idx = sl.c.next_idx
      /\ Taken.c.phase = sl.c.phase
      /\ Taken.at = "drain" /\ Taken.w = sl.w /\ Taken.pend = sl.pend
  BY <1>1, <1>3 DEF TakenFrom, Slices, Cursors
<1>5. sl.todo.cut # {} => sl.wakes = <<>> /\ sl.pend = NoWaiters /\ How = "cut"
  BY <1>1 DEF Types, TCut, Drains, How
<1> QED
  BY Zenon, <1>1, <1>2, <1>4, <1>5

\* An entry is passed over, or waits for its base.
LEMMA SkipTyped ==
    ASSUME Types, Skip \/ Park
    PROVE  Types'
<1>1. HasTask /\ How # "cut" /\ UNCHANGED <<job, cur, tables, world, r2, faults>>
  BY DEF Skip, Park, Passed
<1>2. Item \in Entries /\ Taken \in Slices /\ TakenFrom
  BY Zenon, <1>1, TaskFacts
<1>3. sl.todo.cut = {}
  BY Zenon, <1>1, AtHand
<1>4. PICK s \in {Taken, [Taken EXCEPT !.pend[Base[Item]] = Append(@, Item)]} :
         sl' = s /\ (s = Taken \/ Base[Item] # NoSha)
  BY Zenon DEF Skip, Park, Ready
<1>5. Base[Item] # NoSha => Base[Item] \in Shas
  BY <1>2, ImportAssumption DEF Entries, Shas
<1>6. sl' \in Slices /\ sl'.at = Taken.at /\ sl'.c = Taken.c /\ sl'.w = Taken.w /\ sl'.todo = Taken.todo
  <2>1. CASE s = Taken
    BY Zenon, <2>1, <1>4, <1>2
  <2>2. CASE s # Taken
    <3>1. Taken.pend \in [Shas -> Seq(Entries)] /\ Base[Item] \in Shas
      BY Zenon, <1>2, <1>4, <1>5, <2>2 DEF Slices
    <3>2. [Taken.pend EXCEPT ![Base[Item]] = Append(@, Item)] \in [Shas -> Seq(Entries)]
      BY <3>1, <1>2
    <3>3. sl' = [Taken EXCEPT !.pend = [Taken.pend EXCEPT ![Base[Item]] = Append(@, Item)]]
      BY Zenon, <1>4, <2>2
    <3>4. sl' \in Slices
      BY Zenon, <3>2, <3>3, <1>2 DEF Slices
    <3> QED
      BY <3>3, <3>4, <1>2 DEF Slices
  <2> QED
    BY Zenon, <2>1, <2>2
<1>7. sl'.todo.cut = {} /\ TCut'
  <2>1. sl'.todo.cut = {}
    BY Zenon, <1>1, <1>2, <1>3, <1>6 DEF TakenFrom
  <2> QED
    BY Zenon, <2>1 DEF TCut
<1>8. TTables' /\ TR2'
  BY Zenon, <1>1, FrameTypes DEF tables
<1>9. UNCHANGED <<job, cur, toc, world, faults>>
  BY Zenon, <1>1 DEF tables
<1>10. sl.at \in Drains /\ sl'.at = "drain" /\ sl'.at \in Drains /\ sl'.w = sl.w
  BY Zenon, <1>1, <1>6, AtHand DEF Drains
<1>11. sl'.at # "upload"
  BY <1>10
<1> QED
  BY Zenon, <1>1, <1>6, <1>7, <1>8, <1>9, <1>10, <1>11, AtHand, DrainTyped

-----------------------------------------------------------------------------
(* One entry, one part. *)

(* The entry at hand written to the buffer, and where it is marked.           *)
Written ==
  [Taken EXCEPT !.i = Item, !.links = @ \cup Link[Item],
                !.w.buf = @ \o SubSeq(Entry(Item), Frag + 1, Size[Item])]
MarkedNow == [open EXCEPT ![Item] = [off |-> Offset(sl.w) - Frag, end |-> NoEnd]]

\* Writing keeps every shape.
LEMMA WrittenShapes ==
    ASSUME Types, HasTask
    PROVE  /\ Written \in Slices /\ MarkedNow \in [Entries -> Marks]
           /\ Written.at = "drain" /\ Written.i = Item /\ Written.c = Taken.c /\ Written.todo = Taken.todo
           /\ Written.pend = sl.pend /\ Written.wakes = Taken.wakes /\ Written.done = sl.done
           /\ Written.rows = sl.rows /\ Written.links = sl.links \cup Link[Item] /\ Written.took = sl.took
           /\ Written.w = [sl.w EXCEPT !.buf = @ \o SubSeq(Entry(Item), Frag + 1, Size[Item])]
           /\ Written.w \in Writers /\ Written.w.hash = sl.w.hash /\ Written.w.etags = sl.w.etags
           /\ Written.w.count = sl.w.count
           /\ Written.w.buf = sl.w.buf \o SubSeq(Entry(Item), Frag + 1, Size[Item])
<1> DEFINE e == SubSeq(Entry(Item), Frag + 1, Size[Item])
<1> DEFINE w == [sl.w EXCEPT !.buf = @ \o e]
<1>1. Item \in Entries /\ Taken \in Slices /\ TakenFrom /\ Frag \in Nat
      /\ (How # "cut" => Frag = 0) /\ (How = "cut" => Frag = Len(cur.st.bytes) - open[Item].off)
  BY Zenon, TaskFacts
<1>2. sl \in Slices /\ sl.at = "drain" /\ Len(cur.st.bytes) <= Len(sl.w.hash)
  BY Zenon, AtHand
<1>3. sl.w \in Writers /\ sl.w.buf \in Seq(Units) /\ sl.w.hash \in Seq(Units)
  BY <1>2 DEF Slices, Writers
<1>4. e \in Seq(Units)
  BY Zenon, <1>1, EntryUnits
<1> HIDE DEF e
<1>5. sl.w.buf \o e \in Seq(Units)
  BY Zenon, <1>3, <1>4, Joined
<1>6. w \in Writers /\ w.hash = sl.w.hash /\ w.etags = sl.w.etags /\ w.count = sl.w.count /\ w.buf = sl.w.buf \o e
  BY <1>3, <1>5 DEF Writers
<1>7. Taken.w = sl.w /\ Taken.links = sl.links
  BY Zenon, <1>1 DEF TakenFrom
<1>8. Written = [Taken EXCEPT !.i = Item, !.links = sl.links \cup Link[Item], !.w = w]
  BY Zenon, <1>7 DEF Written, e
<1>9. Item \in 0..N /\ sl.links \cup Link[Item] \in SUBSET Oids
  <2>1. Item \in 0..N
    BY <1>1 DEF Entries
  <2> QED
    BY Zenon, <2>1, <1>1, <1>2, OidsNat DEF Slices
<1> HIDE DEF w
<1>10. Written \in Slices
  BY Zenon, <1>1, <1>6, <1>8, <1>9 DEF Slices
<1>11. /\ Written.at = "drain" /\ Written.i = Item /\ Written.c = Taken.c /\ Written.todo = Taken.todo
       /\ Written.pend = sl.pend /\ Written.wakes = Taken.wakes /\ Written.done = sl.done
       /\ Written.rows = sl.rows /\ Written.links = sl.links \cup Link[Item] /\ Written.took = sl.took /\ Written.w = w
  BY <1>8, <1>1, <1>2 DEF Slices, TakenFrom
<1>12. MarkedNow \in [Entries -> Marks]
  <2>1. open \in [Entries -> Marks] /\ cur.st.bytes \in Seq(Units)
    BY DEF Types, TTables, TCur, Cursors, Ckpts
  <2>2. open[Item].off \in Nat \cup {-1}
    BY <2>1, <1>1 DEF Marks
  <2>3. PICK h \in Nat, b \in Nat, d \in Nat : h = Len(sl.w.hash) /\ b = Len(sl.w.buf) /\ d = Len(cur.st.bytes)
    BY Zenon, <1>3, <2>1, Joined
  <2>4. Offset(sl.w) = h + b /\ d <= h /\ (How = "cut" => Frag = d - open[Item].off)
    BY Zenon, <2>3, <1>1, <1>2 DEF Offset
  <2>5. Offset(sl.w) - Frag \in Nat \cup {-1}
    BY <2>2, <2>4, <1>1
  <2> QED
    BY <2>1, <2>5 DEF MarkedNow, Marks, NoEnd
<1> QED
  BY Zenon, <1>6, <1>10, <1>11, <1>12 DEF w, e

\* An entry is written.
LEMMA OneEntryTyped ==
    ASSUME Types, OneEntry
    PROVE  Types'
<1>1. HasTask /\ UNCHANGED <<job, cur, toc, tail, parts, world, r2, faults>>
      /\ \/ Len(Written.w.buf) < PART /\ Seal(Written, MarkedNow)
         \/ /\ Len(Written.w.buf) >= PART /\ open' = MarkedNow /\ sl' = [Written EXCEPT !.at = "upload"]
            /\ UNCHANGED <<objects, push_links>>
  BY Zenon DEF OneEntry, Written, MarkedNow
<1>2. Item \in Entries /\ TakenFrom
  BY Zenon, <1>1, TaskFacts
<1>3. sl'.at \in Drains /\ sl' \in Slices /\ sl'.c = Taken.c /\ sl'.todo = Taken.todo
      /\ sl'.w.hash = sl.w.hash /\ sl'.i \in {0, Item}
      /\ (sl'.at = "drain" => Len(sl'.w.buf) < PART)
      /\ (sl'.at = "upload" => Len(sl'.w.buf) >= PART /\ sl'.i \in Entries)
      /\ TTables'
      /\ open' \in [Entries -> Marks] /\ (\A j \in Entries \ {Item} : open'[j] = open[j])
      /\ (sl.pend = NoWaiters /\ Taken.wakes = <<>> => sl'.pend = NoWaiters /\ sl'.wakes = <<>>)
  <2>0. MarkedNow \in [Entries -> Marks] /\ Written \in Slices /\ Written.i \in Entries
    BY Zenon, <1>1, <1>2, WrittenShapes
  <2>1. \A j \in Entries \ {Item} : MarkedNow[j] = open[j]
    BY DEF MarkedNow, Types, TTables
  <2>2. CASE Len(Written.w.buf) < PART /\ Seal(Written, MarkedNow)
    <3>1. /\ sl' \in Slices /\ SealedFrom(Written)
          /\ open' \in [Entries -> Marks] /\ open' = [MarkedNow EXCEPT ![Written.i].end = Offset(Written.w)]
          /\ objects' \in [Shas -> Rows]
          /\ \A x \in Shas : objects'[x] # NoRow => objects'[x].idx \in Entries /\ Sha[objects'[x].idx] = x
          /\ push_links' \subseteq Oids
      BY Zenon, <2>0, <2>2, SealShapes
    <3>2. \A j \in Entries \ {Item} : open'[j] = open[j]
      <4>1. Written.i = Item
        BY Zenon, <1>1, WrittenShapes
      <4> QED
        BY Zenon, <4>1, <3>1, <2>0, <2>1
    <3>3. TTables'
      BY Zenon, <3>1, <1>1 DEF Types, TTables
    <3>4. sl.pend = NoWaiters /\ Taken.wakes = <<>> => sl'.pend = NoWaiters /\ sl'.wakes = <<>>
      <4>1. Written.pend = sl.pend /\ Written.wakes = Taken.wakes /\ Sha[Item] \in Shas /\ Written.i = Item
        BY Zenon, <1>1, <1>2, WrittenShapes, OidsNat
      <4>2. ASSUME sl.pend = NoWaiters, Taken.wakes = <<>> PROVE sl'.pend = NoWaiters /\ sl'.wakes = <<>>
        <5>1. sl'.pend = [NoWaiters EXCEPT ![Sha[Item]] = <<>>] /\ sl'.wakes = Reverse(NoWaiters[Sha[Item]]) \o <<>>
          BY Zenon, <4>1, <4>2, <3>1 DEF SealedFrom
        <5>2. NoWaiters[Sha[Item]] = <<>> /\ [NoWaiters EXCEPT ![Sha[Item]] = <<>>] = NoWaiters
          BY <4>1 DEF NoWaiters
        <5>3. Reverse(<<>>) = <<>> /\ <<>> \o <<>> = <<>>
          BY DEF Reverse
        <5> QED
          BY Zenon, <5>1, <5>2, <5>3
      <4> QED
        BY Zenon, <4>2
    <3>5. sl'.at = "drain" /\ sl'.c = Written.c /\ sl'.todo = Written.todo /\ sl'.w.hash = Written.w.hash
          /\ sl'.w.buf = Written.w.buf /\ sl'.i = 0
      BY Zenon, <3>1 DEF SealedFrom
    <3>6. sl'.at # "upload"
      BY <3>5
    <3> QED
      BY Zenon, <1>1, <2>2, <3>1, <3>2, <3>3, <3>4, <3>5, <3>6, WrittenShapes DEF Drains
  <2>3. CASE /\ Len(Written.w.buf) >= PART /\ open' = MarkedNow /\ sl' = [Written EXCEPT !.at = "upload"]
             /\ UNCHANGED <<objects, push_links>>
    <3>1. "upload" \in Ats
      BY DEF Ats
    <3>2. sl' \in Slices
      BY Zenon, <2>0, <2>3, <3>1 DEF Slices
    <3>3. sl'.at = "upload" /\ sl'.c = Written.c /\ sl'.todo = Written.todo /\ sl'.w = Written.w
          /\ sl'.i = Written.i /\ sl'.pend = Written.pend /\ sl'.wakes = Written.wakes
      BY <2>0, <2>3 DEF Slices
    <3>4. TTables'
      BY Zenon, <2>0, <2>3, <1>1 DEF Types, TTables
    <3>5. sl'.at # "drain"
      BY <3>3
    <3> QED
      BY Zenon, <1>1, <1>2, <2>0, <2>1, <2>3, <3>2, <3>3, <3>4, <3>5, WrittenShapes DEF Drains
  <2> QED
    BY Zenon, <1>1, <2>2, <2>3
<1>4. TCut'
  <2> SUFFICES ASSUME sl'.todo.cut # {} PROVE TCut'
    BY Zenon DEF TCut
  <2>1. sl.todo.cut # {}
    BY Zenon, <1>2, <1>3 DEF TakenFrom
  <2>2. sl.wakes = <<>> /\ sl.pend = NoWaiters /\ How = "cut" /\ \A j \in sl.todo.cut : open[j].off < Len(cur.st.bytes)
    BY Zenon, <1>1, <2>1, AtHand DEF Types, TCut, Drains
  <2>3. sl'.todo.cut = sl.todo.cut \ {Item} /\ Taken.wakes = <<>>
    BY <1>2, <1>3, <2>2 DEF TakenFrom
  <2>4. sl'.pend = NoWaiters /\ sl'.wakes = <<>>
    BY Zenon, <1>3, <2>2, <2>3
  <2>5. sl'.todo.cut \in SUBSET Entries /\ 0 \notin Entries
    BY SMTT(30), <1>3 DEF Slices, Todos, Entries
  <2>6. \A j \in sl'.todo.cut : open'[j].off < Len(cur'.st.bytes)
    BY Zenon, <1>1, <1>3, <2>2, <2>3, <2>5
  <2> QED
    BY Zenon, <1>3, <2>3, <2>4, <2>5, <2>6 DEF TCut
<1>5. TR2' /\ UNCHANGED <<job, cur, toc, world, faults>>
  BY Zenon, <1>1, FrameTypes
<1> QED
  BY Zenon, <1>1, <1>3, <1>4, <1>5, AtHand, DrainTyped DEF Drains

\* What one part takes from a full buffer.
LEMMA UploadedFacts ==
    ASSUME NEW w \in Writers, Len(w.buf) >= PART
    PROVE  LET chunk == SubSeq(w.buf, 1, PART)
           IN  /\ Uploaded(w) \in Writers
               /\ chunk \in Seq(Units) /\ Len(chunk) = PART /\ [b |-> chunk, h |-> <<>>] \in Parts
               /\ Uploaded(w).hash = w.hash \o chunk
               /\ Uploaded(w).etags = Append(w.etags, [b |-> chunk, h |-> <<>>])
               /\ Uploaded(w).count = w.count
               /\ Uploaded(w).buf \in Seq(Units) /\ Len(Uploaded(w).buf) = Len(w.buf) - PART
               /\ Uploaded(w).hash \o Uploaded(w).buf = w.hash \o w.buf
<1> DEFINE chunk == SubSeq(w.buf, 1, PART)
<1> DEFINE rest == SubSeq(w.buf, PART + 1, Len(w.buf))
<1> DEFINE p == [b |-> chunk, h |-> <<>>]
<1>1. w.hash \in Seq(Units) /\ w.buf \in Seq(Units) /\ w.etags \in Seq(Parts) /\ w.count \in Nat
  BY DEF Writers
<1>2. PICK B \in Seq(Units), H \in Seq(Units) : B = w.buf /\ H = w.hash
  BY Zenon, <1>1
<1>3. PART \in Nat /\ PART > 1 /\ PART <= Len(B)
  BY <1>2, ImportAssumption
<1>4. chunk \in Seq(Units) /\ Len(chunk) = PART /\ rest \in Seq(Units) /\ Len(rest) = Len(B) - PART
      /\ chunk \o rest = B
  BY Zenon, <1>2, <1>3, SplitAt
<1>6. p \in Parts
  BY SMTT(30), <1>4 DEF Parts
<1>7. (H \o chunk) \o rest = H \o B
  <2> HIDE DEF chunk, rest
  <2>0. chunk \in Seq(Units) /\ rest \in Seq(Units)
    BY Zenon, <1>4
  <2>1. (H \o chunk) \o rest = H \o (chunk \o rest)
    BY SMTT(30), <2>0
  <2> QED
    BY Zenon, <2>1, <1>4
<1>8. Append(w.etags, p) \in Seq(Parts)
  <2> HIDE DEF p
  <2> QED
    BY <1>1, <1>6
<1>9. Uploaded(w) = [w EXCEPT !.hash = w.hash \o chunk, !.buf = rest, !.etags = Append(w.etags, p)]
  BY Zenon DEF Uploaded
<1>10. w.hash \o chunk \in Seq(Units)
  BY Zenon, <1>1, <1>4, Joined
<1> HIDE DEF chunk, rest, p
<1>11. Uploaded(w) \in Writers /\ Uploaded(w).hash = w.hash \o chunk /\ Uploaded(w).buf = rest
       /\ Uploaded(w).etags = Append(w.etags, p) /\ Uploaded(w).count = w.count
  BY <1>1, <1>4, <1>8, <1>9, <1>10 DEF Writers
<1> QED
  BY Zenon, <1>2, <1>4, <1>6, <1>7, <1>11 DEF chunk, p

\* One more part of whole parts.
LEMMA WholeNext ==
    ASSUME NEW a \in Seq(Units), NEW b \in Seq(Units), WholeLen(a), Len(b) = PART
    PROVE  WholeLen(a \o b) /\ Len(a) <= Len(a \o b)
<1>1. PICK n \in Nat : Len(a) = PART * n
  BY Zenon DEF WholeLen
<1>2. PART * (n + 1) = PART * n + PART /\ PART \in Nat
  BY <1>1, WholeParts, ImportAssumption
<1>3. Len(a \o b) = PART * (n + 1) /\ n + 1 \in Nat
  BY <1>1, <1>2
<1> QED
  BY <1>2, <1>3 DEF WholeLen

LEMMA UploadPartTyped ==
    ASSUME Types, UploadPart
    PROVE  Types'
<1> DEFINE w == Uploaded(sl.w)
<1> DEFINE s == [sl EXCEPT !.w = w]
<1>1. sl.at = "upload" /\ uploads' = WithPart(sl.c.upload, Len(w.etags), Last(w.etags))
      /\ UNCHANGED <<job, cur, toc, tail, parts, world, object, late, faults>>
      /\ \/ Len(w.buf) >= PART /\ sl' = s /\ UNCHANGED <<open, objects, push_links>>
         \/ Len(w.buf) < PART /\ Seal(s, open)
  BY Zenon DEF UploadPart
<1>2. sl \in Slices /\ Len(sl.w.buf) >= PART /\ sl.i \in Entries /\ sl.c.upload \in 1..MaxUploads
      /\ Len(cur.st.bytes) <= Len(sl.w.hash) /\ sl.w \in Writers /\ WholeLen(sl.w.hash) /\ sl.w.hash \in Seq(Units)
  <2>1. sl \in Slices /\ Len(sl.w.buf) >= PART /\ sl.i \in Entries /\ sl.c.upload # 0
      /\ Len(cur.st.bytes) <= Len(sl.w.hash) /\ WholeLen(sl.w.hash)
    BY Zenon, <1>1 DEF Types, TSlice, TWhole, Drains, Bound
  <2>2. sl.c.upload \in 1..MaxUploads
    <3>1. sl.c.upload \in 0..MaxUploads /\ sl.c.upload # 0
      BY Zenon, <2>1 DEF Slices, Cursors
    <3>2. MaxUploads \in Nat
      BY Zenon, ImportAssumption
    <3> HIDE DEF s, w
    <3> QED
      BY <3>1, <3>2
  <2> QED
    BY Zenon, <2>1, <2>2 DEF Slices, Writers
<1>3. PICK chunk \in Seq(Units) : /\ Len(chunk) = PART /\ [b |-> chunk, h |-> <<>>] \in Parts
               /\ w \in Writers /\ w.hash = sl.w.hash \o chunk
               /\ w.etags = Append(sl.w.etags, [b |-> chunk, h |-> <<>>])
  BY Zenon, <1>2, UploadedFacts
<1>4. WholeLen(w.hash) /\ Len(sl.w.hash) <= Len(w.hash)
  BY Zenon, <1>2, <1>3, WholeNext
<1>5. Len(cur.st.bytes) <= Len(w.hash)
  <2>1. cur.st.bytes \in Seq(Units) /\ w.hash \in Seq(Units)
    BY <1>3 DEF Types, TCur, Cursors, Ckpts, Writers
  <2>2. Len(cur.st.bytes) \in Nat /\ Len(w.hash) \in Nat /\ Len(sl.w.hash) \in Nat
    BY Zenon, <1>2, <2>1, Joined
  <2>3. PICK x \in Nat, y \in Nat, z \in Nat : x = Len(cur.st.bytes) /\ y = Len(w.hash) /\ z = Len(sl.w.hash)
    BY Zenon, <2>2
  <2> HIDE DEF w
  <2>4. x <= z /\ z <= y
    BY Zenon, <1>2, <1>4, <2>3
  <2>5. x <= y
    BY <2>3, <2>4
  <2> QED
    BY Zenon, <2>3, <2>5
<1>6. TR2'
  <2>1. Len(w.etags) \in Nat /\ Last(w.etags) \in Parts
    <3>1. PICK E \in Seq(Parts), p \in Parts : E = sl.w.etags /\ w.etags = Append(E, p)
      BY Zenon, <1>2, <1>3 DEF Writers
    <3> HIDE DEF w
    <3> QED
      BY <3>1 DEF Last
  <2>2. uploads' \in [1..MaxUploads -> Multiparts]
    BY Zenon, <1>1, <1>2, <2>1, R2Shapes DEF Types
  <2> QED
    BY Zenon, <1>1, <2>2 DEF Types, TR2
<1> HIDE DEF w
<1>7. s \in Slices /\ s.w = w /\ s.at = "upload" /\ s.i = sl.i /\ s.c = sl.c /\ s.todo = sl.todo
      /\ s.pend = sl.pend /\ s.wakes = sl.wakes
  BY <1>1, <1>2, <1>3 DEF Slices
<1> HIDE DEF s
<1>8. CASE Len(w.buf) >= PART /\ sl' = s /\ UNCHANGED <<open, objects, push_links>>
  <2>1. sl'.at # "drain" /\ sl'.at \in Drains /\ sl.at \in Drains
    BY <1>1, <1>7, <1>8 DEF Drains
  <2>2. TTables'
    BY Zenon, <1>1, <1>8, FrameTypes
  <2>3. TCut'
    BY Zenon, <1>1, <1>7, <1>8 DEF Types, TCut, Drains
  <2> QED
    BY Zenon, <1>1, <1>2, <1>4, <1>5, <1>6, <1>7, <1>8, <2>1, <2>2, <2>3, DrainTyped
<1>9. CASE Len(w.buf) < PART /\ Seal(s, open)
  <2>1. /\ sl' \in Slices /\ SealedFrom(s)
        /\ open' \in [Entries -> Marks] /\ open' = [open EXCEPT ![s.i].end = Offset(s.w)]
        /\ objects' \in [Shas -> Rows]
        /\ \A x \in Shas : objects'[x] # NoRow => objects'[x].idx \in Entries /\ Sha[objects'[x].idx] = x
        /\ push_links' \subseteq Oids
    BY Zenon, <1>2, <1>7, <1>9, SealShapes DEF Types, TTables
  <2>2. sl'.at = "drain" /\ sl'.c = sl.c /\ sl'.todo = sl.todo /\ sl'.w.hash = w.hash /\ sl'.w.buf = w.buf
        /\ sl'.i = 0 /\ sl'.pend = [sl.pend EXCEPT ![Sha[sl.i]] = <<>>]
        /\ sl'.wakes = Reverse(sl.pend[Sha[sl.i]]) \o sl.wakes
    BY Zenon, <1>7, <2>1 DEF SealedFrom
  <2>3. TTables'
    BY Zenon, <2>1, <1>1 DEF Types, TTables
  <2>4. TCut'
    <3> SUFFICES ASSUME sl.todo.cut # {} PROVE TCut'
      BY Zenon, <2>2 DEF TCut
    <3>1. sl.wakes = <<>> /\ sl.pend = NoWaiters /\ sl.i \notin sl.todo.cut
          /\ \A i \in sl.todo.cut : open[i].off < Len(cur.st.bytes)
      BY Zenon, <1>1 DEF Types, TCut, Drains
    <3>2. Sha[sl.i] \in Shas
      BY Zenon, <1>2, OidsNat
    <3>3. NoWaiters[Sha[sl.i]] = <<>> /\ [NoWaiters EXCEPT ![Sha[sl.i]] = <<>>] = NoWaiters
      BY <3>2 DEF NoWaiters
    <3>4. Reverse(<<>>) \o <<>> = <<>>
      BY DEF Reverse
    <3>5. sl'.pend = NoWaiters /\ sl'.wakes = <<>>
      BY Zenon, <2>2, <3>1, <3>3, <3>4
    <3>6. sl.todo.cut \in SUBSET Entries /\ 0 \notin Entries
      BY <1>2 DEF Slices, Todos, Entries
    <3>7. \A i \in sl.todo.cut : open'[i].off = open[i].off
      BY <1>7, <2>1, <3>1, <3>6 DEF Types, TTables, Marks
    <3> QED
      BY Zenon, <1>1, <2>2, <3>1, <3>5, <3>6, <3>7 DEF TCut
  <2>5. sl'.at # "upload" /\ sl'.at \in Drains /\ sl.at \in Drains
    BY <1>1, <2>2 DEF Drains
  <2> QED
    BY Zenon, <1>1, <1>2, <1>4, <1>5, <1>6, <1>9, <2>1, <2>2, <2>3, <2>4, <2>5, DrainTyped
<1> QED
  BY Zenon, <1>1, <1>8, <1>9

=============================================================================
