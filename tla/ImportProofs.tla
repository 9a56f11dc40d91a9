---------------------------- MODULE ImportProofs ----------------------------
(***************************************************************************)
(* For every pack (any number of entries, any sizes, bases and links), any *)
(* part size, any number of uploads, faults and sweeps, and whatever tails *)
(* the faults strike: an import keeps its types, and an object completed   *)
(* at the pack key ends with the hash of the very units before it.         *)
(***************************************************************************)
EXTENDS ImportInv

-----------------------------------------------------------------------------
(* Resuming, yielding and the end of a slice. *)

(* The writer that Resume makes.                                              *)
Opened == TailRestored(sl.c, IF cur.upload = 0 THEN Created ELSE Resumed(sl.c))

\* A resumed writer: what is durable is hashed, and what is in the buffer is
\* the header, nothing or the tail.
LEMMA OpenedFacts ==
    ASSUME Types, sl.at = "bind", CkptIn(cur, parts)
    PROVE  /\ Opened \in Writers /\ Opened.hash = cur.st.bytes
           /\ \E n \in 0..Len(parts) : Len(cur.st.bytes) = PART * n /\ cur.st.bytes = Bytes(SubSeq(parts, 1, n))
                 /\ Opened.etags = SubSeq(parts, 1, n)
           /\ Opened.buf = IF TailLen(cur) # 0 THEN tail ELSE IF cur.st.bytes = <<>> THEN Header ELSE <<>>
           /\ Opened.count = cur.st.count + IF TailLen(cur) = 0 THEN 0 ELSE
                Cardinality({i \in Entries : open[i].end > Len(cur.st.bytes)
                                             /\ open[i].end <= Len(cur.st.bytes) + TailLen(cur)})
           /\ TailLen(sl.c) = TailLen(cur) /\ Len(Opened.buf) < PART
<1> DEFINE c == sl.c
<1> DEFINE w == IF cur.upload = 0 THEN Created ELSE Resumed(c)
<1> DEFINE ends == {i \in Entries : open[i].end > Len(cur.st.bytes) /\ open[i].end <= Len(cur.st.bytes) + TailLen(cur)}
<1>1. sl \in Slices /\ c \in Cursors /\ c.st = cur.st /\ c.tail = cur.tail /\ cur \in Cursors
      /\ (cur.upload = 0 => cur.st = NoSt /\ cur.tail = 0)
  BY DEF Types, TSlice, TCur, Slices
<1>2. cur.st.bytes \in Seq(Units) /\ cur.st.count \in Nat /\ tail \in Seq(Units) /\ parts \in Seq(Parts) /\ cur.tail \in 0..(PART - 1)
  BY SMTT(30), <1>1 DEF Cursors, Ckpts, Types, TTables
<1>3. TailLen(c) = TailLen(cur)
  BY Zenon, <1>1 DEF TailLen
<1>4. PICK n \in 0..Len(parts) : Len(cur.st.bytes) = PART * n /\ cur.st.bytes = Bytes(SubSeq(parts, 1, n))
  BY Zenon DEF CkptIn
<1>5. Len(cur.st.bytes) \div PART = n /\ n \in Nat
  <2>1. n \in Nat
    BY <1>2, <1>4
  <2> QED
    BY Zenon, <1>4, <2>1, WholeParts
<1>6. SubSeq(parts, 1, n) \in Seq(Parts)
  BY <1>2, <1>4
<1>7. Header \in Seq(Units) /\ <<>> \in Seq(Units) /\ <<>> \in Seq(Parts)
  <2>1. <<>> \in Seq(Units) /\ <<>> \in Seq(Parts)
    OBVIOUS
  <2> QED
    BY Zenon, <2>1, EntryUnits
<1>8. w.hash = cur.st.bytes /\ w.buf = (IF cur.st.bytes = <<>> THEN Header ELSE <<>>) /\ w.count = cur.st.count
      /\ w.etags = SubSeq(parts, 1, n) /\ w \in Writers
  <2>1. CASE cur.upload = 0
    <3>1. cur.st.bytes = <<>> /\ cur.st.count = 0
      BY <2>1, <1>1 DEF NoSt
    <3>2. n = 0
      <4>1. PART * n = 0 /\ PART \in Nat /\ PART > 0
        BY <3>1, <1>4, ImportAssumption
      <4> QED
        BY <4>1, <1>5
    <3>3. SubSeq(parts, 1, n) = <<>>
      BY <3>2, <1>2
    <3>4. w = [hash |-> <<>>, buf |-> Header, etags |-> <<>>, count |-> 0]
      BY <2>1 DEF Created, NoWriter
    <3> HIDE DEF w
    <3>5. w.hash = <<>> /\ w.buf = Header /\ w.etags = <<>> /\ w.count = 0
      BY <3>4
    <3>6. w \in Writers
      BY <3>4, <1>7 DEF Writers
    <3> QED
      BY Zenon, <3>1, <3>3, <3>5, <3>6
  <2>2. CASE cur.upload # 0
    <3>1. w = [hash |-> cur.st.bytes, count |-> cur.st.count,
               buf |-> IF cur.st.bytes = <<>> THEN Header ELSE <<>>, etags |-> SubSeq(parts, 1, n)]
      BY Zenon, <2>2, <1>1, <1>5 DEF Resumed
    <3> HIDE DEF w
    <3>2. w.hash = cur.st.bytes /\ w.buf = (IF cur.st.bytes = <<>> THEN Header ELSE <<>>) /\ w.count = cur.st.count
          /\ w.etags = SubSeq(parts, 1, n)
      BY <3>1
    <3>3. w.buf \in Seq(Units)
      BY Zenon, <1>7, <3>2
    <3>4. w \in Writers
      BY <3>1, <3>2, <3>3, <1>2, <1>6 DEF Writers
    <3> QED
      BY Zenon, <3>2, <3>4
  <2> QED
    BY Zenon, <2>1, <2>2
<1>9. Cardinality(ends) \in Nat
  <2>1. ends \in SUBSET Entries
    OBVIOUS
  <2>2. Cardinality(ends) \in 0..N
    BY Zenon, <2>1, EntriesFinite
  <2> QED
    BY <2>2
<1>10. Opened = IF TailLen(cur) = 0 THEN w ELSE [w EXCEPT !.buf = tail, !.count = @ + Cardinality(ends)]
  BY Zenon, <1>1, <1>3 DEF Opened, TailRestored
<1>11. TailLen(cur) # 0 => Len(tail) = cur.tail
  BY Zenon DEF TailLen
<1>12. Len(Header) = 1 /\ PART \in Nat /\ PART > 1
  <2>1. Len(Header) = 1
    BY Zenon, EntryUnits
  <2> QED
    BY <2>1, ImportAssumption
<1> HIDE DEF w, ends
<1>13. Opened \in Writers /\ Opened.hash = cur.st.bytes /\ Opened.etags = SubSeq(parts, 1, n)
       /\ Opened.buf = (IF TailLen(cur) # 0 THEN tail ELSE IF cur.st.bytes = <<>> THEN Header ELSE <<>>)
       /\ Opened.count = cur.st.count + IF TailLen(cur) = 0 THEN 0 ELSE Cardinality(ends)
  <2>1. CASE TailLen(cur) = 0
    BY <1>2, <1>8, <1>10, <2>1
  <2>2. CASE TailLen(cur) # 0
    <3>1. w.count + Cardinality(ends) \in Nat
      BY <1>2, <1>8, <1>9
    <3>2. Opened = [w EXCEPT !.buf = tail, !.count = @ + Cardinality(ends)]
      BY Zenon, <1>10, <2>2
    <3> QED
      BY <1>2, <1>8, <3>1, <3>2, <2>2 DEF Writers
  <2> QED
    BY Zenon, <2>1, <2>2
<1>14. Len(Opened.buf) < PART
  <2>1. CASE TailLen(cur) # 0
    <3>1. Opened.buf = tail /\ Len(tail) = cur.tail /\ cur.tail < PART
      BY <1>2, <1>11, <1>12, <1>13, <2>1
    <3> QED
      BY Zenon, <3>1
  <2>2. CASE TailLen(cur) = 0
    <3>1. Opened.buf = Header \/ Opened.buf = <<>>
      BY Zenon, <1>13, <2>2
    <3>2. Len(Header) < PART /\ Len(<<>>) < PART
      BY <1>12
    <3> QED
      BY Zenon, <3>1, <3>2
  <2> QED
    BY Zenon, <2>1, <2>2
<1> QED
  BY Zenon, <1>3, <1>4, <1>13, <1>14 DEF ends

\* A slice resumes.
LEMMA ResumeTyped ==
    ASSUME Types, Resume, CkptIn(cur, parts)
    PROVE  Types'
<1> DEFINE c == sl.c
<1> DEFINE td == Todo(c, RowsAtResume(c))
<1>1. /\ sl.at = "bind" /\ c.upload # 0 /\ tail' = <<>> /\ objects' = RowsAtResume(c) /\ open' = OpenAtResume(c)
      /\ sl' = [sl EXCEPT !.at = "drain", !.w = Opened, !.took = TailLen(c), !.c.tail = 0, !.c.parked = <<>>, !.todo = td]
      /\ UNCHANGED <<job, cur, toc, parts, push_links, world, r2, faults>>
  BY Zenon DEF Resume, Opened
<1>2. sl \in Slices /\ c \in Cursors /\ c.st = cur.st /\ Unstarted(sl) /\ toc \in 0..N
  BY <1>1 DEF Types, TSlice, TCur, Slices
<1>3. Opened \in Writers /\ Opened.hash = cur.st.bytes /\ Len(Opened.buf) < PART
  BY Zenon, <1>1, OpenedFacts
<1>4. td \in Todos /\ td.cut \in SUBSET Entries /\ \A i \in td.cut : open[i].off < Len(cur.st.bytes)
  <2>1. 1..toc \in SUBSET Entries
    BY <1>2, ImportAssumption DEF Entries
  <2>2. Straddlers(Len(c.st.bytes)) \in SUBSET Entries
    BY Zenon DEF Straddlers, Lost
  <2>3. td = [cut     |-> {i \in Straddlers(Len(c.st.bytes)) : open[i].off < Len(c.st.bytes)},
              parked  |-> c.parked, requeue |-> td.requeue, scan |-> td.scan]
        /\ td.requeue \in SUBSET (1..toc) /\ td.scan \in SUBSET (1..toc)
    BY DEF Todo
  <2>4. c.parked \in Seq(Entries)
    BY <1>2 DEF Cursors
  <2> HIDE DEF td
  <2>5. td.cut = {i \in Straddlers(Len(c.st.bytes)) : open[i].off < Len(c.st.bytes)} /\ td.parked = c.parked
    BY <2>3
  <2>6. td.cut \in SUBSET Entries /\ td.requeue \in SUBSET Entries /\ td.scan \in SUBSET Entries
    BY Zenon, <2>1, <2>2, <2>3, <2>5
  <2>7. td \in Todos
    BY <2>3, <2>4, <2>5, <2>6 DEF Todos
  <2> QED
    BY Zenon, <1>2, <2>5, <2>6, <2>7
<1>5. /\ RowsAtResume(c) \in [Shas -> Rows]
      /\ \A s \in Shas : RowsAtResume(c)[s] # NoRow =>
           RowsAtResume(c)[s].idx \in Entries /\ Sha[RowsAtResume(c)[s].idx] = s
      /\ OpenAtResume(c) \in [Entries -> Marks]
      /\ \A i \in Entries : OpenAtResume(c)[i].off = open[i].off
      /\ TailLen(c) \in Nat
  BY Zenon, <1>2, ResumeShapes
<1>6. TTables'
  <2>1. <<>> \in Seq(Units)
    OBVIOUS
  <2> QED
    BY Zenon, <2>1, <1>1, <1>5 DEF Types, TTables
<1> HIDE DEF td
<1>7. sl' \in Slices
  <2>1. "drain" \in Ats /\ 0 \in 0..(PART - 1) /\ <<>> \in Seq(Entries)
    BY ImportAssumption DEF Ats
  <2>2. [sl.c EXCEPT !.tail = 0, !.parked = <<>>] \in Cursors
    BY Zenon, <1>2, <2>1 DEF Cursors
  <2>3. sl' = [sl EXCEPT !.at = "drain", !.w = Opened, !.took = TailLen(c),
                         !.c = [sl.c EXCEPT !.tail = 0, !.parked = <<>>], !.todo = td]
    BY <1>1, <1>2 DEF Slices
  <2> QED
    BY Zenon, <1>2, <1>3, <1>4, <1>5, <2>1, <2>2, <2>3 DEF Slices
<1>8. /\ sl'.at = "drain" /\ sl'.w = Opened /\ sl'.todo = td /\ sl'.i = sl.i /\ sl'.wakes = sl.wakes /\ sl'.pend = sl.pend
      /\ sl'.c.upload = c.upload /\ sl'.c.st = c.st /\ sl'.c.next_idx = c.next_idx
  BY <1>1, <1>2 DEF Slices, Cursors
<1>9. TCut'
  <2>1. sl'.i \notin Entries
    BY <1>2, <1>8 DEF Unstarted, Entries
  <2>2. \A i \in td.cut : open'[i].off < Len(cur'.st.bytes)
    BY Zenon, <1>1, <1>4, <1>5
  <2> QED
    BY Zenon, <1>2, <1>4, <1>8, <2>1, <2>2 DEF TCut, Unstarted
<1>10. TJob' /\ TCur' /\ TWorld' /\ TR2'
  <2>1. sl'.at # "idle" /\ sl.at # "idle"
    BY <1>1, <1>8
  <2>2. TWorld' /\ TR2'
    BY Zenon, <1>1, FrameTypes
  <2> QED
    BY Zenon, <1>1, <1>8, <2>1, <2>2 DEF Types, TJob, TCur, world
<1>11. TSlice'
  <2>1. sl'.at \in Drains /\ sl'.at \notin {"toc", "fetch", "bind", "upload"}
    BY <1>8 DEF Drains
  <2>2. Len(cur'.st.bytes) <= Len(sl'.w.hash)
    <3>1. cur.st.bytes \in Seq(Units)
      BY DEF Types, TCur, Cursors, Ckpts
    <3>2. Len(cur.st.bytes) <= Len(cur.st.bytes)
      <4>1. Len(cur.st.bytes) \in Nat
        BY Zenon, <3>1, Joined
      <4>2. \A n \in Nat : n <= n
        OBVIOUS
      <4> QED
        BY Zenon, <4>1, <4>2
    <3> QED
      BY Zenon, <3>2, <1>1, <1>3, <1>8
  <2> QED
    BY <1>1, <1>2, <1>3, <1>7, <1>8, <2>1, <2>2 DEF TSlice
<1>12. TWhole'
  BY Zenon, <1>1, <1>2, <1>3, <1>8 DEF Types, TWhole
<1> QED
  BY Zenon, <1>6, <1>9, <1>10, <1>11, <1>12 DEF Types

\* The checkpoint of a drain.
LEMMA CheckpointShapes ==
    ASSUME Types, sl.at = "drain", NEW parked \in Seq(Entries)
    PROVE  /\ Checkpointed(parked) \in Cursors
           /\ Checkpointed(parked).st.bytes = sl.w.hash /\ Checkpointed(parked).tail = Len(sl.w.buf)
           /\ Checkpointed(parked).parked = parked /\ Checkpointed(parked).upload = sl.c.upload
           /\ Checkpointed(parked).next_idx = sl.c.next_idx /\ Checkpointed(parked).phase = sl.c.phase
           /\ Checkpointed(parked).scan = sl.c.scan /\ Checkpointed(parked).after = sl.c.after
           /\ Checkpointed(parked).epoch = sl.c.epoch
           /\ Checkpointed(parked).st.count =
                Cardinality({i \in Entries : Sealed(i) /\ open[i].end <= Len(sl.w.hash)})
<1> DEFINE k == Cardinality({i \in Entries : Sealed(i) /\ open[i].end <= Len(sl.w.hash)})
<1>1. sl.c \in Cursors /\ sl.w \in Writers /\ Len(sl.w.buf) < PART
  BY DEF Types, TSlice, Slices
<1>2. k \in 0..N
  <2>1. {i \in Entries : Sealed(i) /\ open[i].end <= Len(sl.w.hash)} \in SUBSET Entries
    OBVIOUS
  <2> QED
    BY Zenon, <2>1, EntriesFinite
<1>3. Len(sl.w.buf) \in 0..(PART - 1)
  <2>1. PICK b \in Seq(Units) : b = sl.w.buf
    BY <1>1 DEF Writers
  <2>2. Len(b) \in Nat /\ Len(b) < PART /\ PART \in Nat
    BY <1>1, <2>1, ImportAssumption
  <2> QED
    BY <2>1, <2>2
<1>4. [bytes |-> sl.w.hash, count |-> k] \in Ckpts
  BY <1>1, <1>2 DEF Writers, Ckpts
<1>5. Checkpointed(parked) = [sl.c EXCEPT !.st = [bytes |-> sl.w.hash, count |-> k], !.tail = Len(sl.w.buf), !.parked = parked]
  BY Zenon DEF Checkpointed
<1> HIDE DEF k
<1>6. Checkpointed(parked) \in Cursors
  BY Zenon, <1>1, <1>3, <1>4, <1>5 DEF Cursors
<1>7. Checkpointed(parked).st = [bytes |-> sl.w.hash, count |-> k]
  BY <1>1, <1>5 DEF Cursors
<1> QED
  BY SMTT(30), <1>1, <1>5, <1>6, <1>7 DEF Cursors, k

\* What flush_ckpt writes.
LEMMA FlushShapes ==
    ASSUME Types, sl.at = "drain", FlushCkpt, UNCHANGED open
    PROVE  TTables'
<1>1. sl.w.etags \in Seq(Parts) /\ sl.w.buf \in Seq(Units) /\ sl.rows \in Seq(Entries) /\ sl.links \in SUBSET Oids
      /\ open \in [Entries -> Marks] /\ push_links \in SUBSET Oids
  BY DEF Types, TSlice, Slices, Writers, TTables
<1>2. /\ Posted(sl.rows, open) \in [Shas -> Rows]
      /\ \A s \in Shas : Posted(sl.rows, open)[s] # NoRow =>
           Posted(sl.rows, open)[s].idx \in Entries /\ Sha[Posted(sl.rows, open)[s].idx] = s
  BY Zenon, <1>1, PostedShapes
<1>3. parts' = sl.w.etags /\ tail' = sl.w.buf /\ objects' = Posted(sl.rows, open) /\ push_links' = push_links \cup sl.links
      /\ open' = open
  BY DEF FlushCkpt
<1> QED
  BY Zenon, <1>1, <1>2, <1>3 DEF TTables

\* A parked list is a list of entries.
LEMMA ParkedShape ==
    ASSUME Types, sl.at # "idle", NEW q \in ParkedLists
    PROVE  q \in Seq(Entries)
<1>1. \A b \in Shas : sl.pend[b] \in Seq(Entries)
  BY DEF Types, TSlice, Slices
<1>2. sl.todo.parked \in Seq(Entries)
  BY DEF Types, TSlice, Slices, Todos
<1>3. WaitingSet \in SUBSET Entries
  <2>1. Range(sl.todo.parked) \in SUBSET Entries /\ \A b \in Shas : Range(sl.pend[b]) \in SUBSET Entries
    BY <1>1, <1>2 DEF Range
  <2> QED
    BY Zenon, <2>1 DEF WaitingSet
<1>4. Cardinality(WaitingSet) \in Nat
  <2>1. Cardinality(WaitingSet) \in 0..N
    BY Zenon, <1>3, EntriesFinite
  <2> QED
    BY <2>1
<1>5. q \in [1..Cardinality(WaitingSet) -> WaitingSet]
  BY Zenon DEF ParkedLists, Bijection, Injection, Surjection
<1>6. q \in Seq(WaitingSet)
  BY <1>4, <1>5
<1> QED
  BY <1>3, <1>6

\* A drain yields.
LEMMA YieldTyped ==
    ASSUME Types, Yield
    PROVE  Types'
<1>1. PICK done \in BOOLEAN, parked \in ParkedLists :
        /\ Drained(done) /\ (done => sl.c.phase = "resolve") /\ FlushCkpt
        /\ Continue(IF done THEN [Checkpointed(parked) EXCEPT !.phase = "check"] ELSE Checkpointed(parked))
  BY Zenon DEF Yield
<1>2. sl.at = "drain" /\ UNCHANGED <<toc, open, world, r2, faults>>
  BY <1>1 DEF Drained, Yield
<1>3. parked \in Seq(Entries)
  <2>1. sl.at # "idle"
    BY <1>2
  <2> QED
    BY Zenon, <2>1, ParkedShape
<1>4. Checkpointed(parked) \in Cursors /\ Checkpointed(parked).st.bytes = sl.w.hash
      /\ Checkpointed(parked).upload = sl.c.upload /\ Checkpointed(parked).next_idx = sl.c.next_idx
  BY Zenon, <1>2, <1>3, CheckpointShapes
<1>5. cur' = (IF done THEN [Checkpointed(parked) EXCEPT !.phase = "check"] ELSE Checkpointed(parked))
  BY Zenon, <1>1 DEF Continue
<1>6. Continue(cur')
  BY Zenon, <1>1, <1>5
<1>7. cur' \in Cursors /\ cur'.st.bytes = sl.w.hash /\ cur'.upload = sl.c.upload /\ cur'.next_idx = sl.c.next_idx
  <2>1. CASE done
    <3>1. cur' = [Checkpointed(parked) EXCEPT !.phase = "check"]
      BY Zenon, <1>5, <2>1
    <3> QED
      BY <3>1, <1>4 DEF Cursors, Phases
  <2>2. CASE ~done
    BY Zenon, <1>4, <1>5, <2>2
  <2> QED
    BY Zenon, <2>1, <2>2
<1>8. sl.c.upload # 0 /\ WholeLen(sl.w.hash) /\ job.state = "running" /\ toc \in 0..N
      /\ (push = "open" => sl.c.next_idx <= toc)
  BY <1>2 DEF Types, TSlice, TWhole, TJob, TCur, Bound
<1>9. TTables'
  BY Zenon, <1>1, <1>2, FlushShapes
<1>10. TWorld' /\ TR2'
  BY Zenon, <1>2, FrameTypes
<1>11. toc' = toc /\ push' = push
  BY <1>2 DEF world
<1> QED
  BY Zenon, <1>6, <1>7, <1>8, <1>9, <1>10, <1>11, YieldsTyped

\* A slice that fails leaves the cursor, and counts.
LEMMA ErrTyped ==
    ASSUME Types, Err, sl.at # "idle", toc' \in 0..N, push' = push, push = "open" => toc' = toc,
           TTables', TWorld', TR2'
    PROVE  Types'
<1>1. job.state = "running" /\ job.attempts \in Nat /\ job.attempts < MaxAttempts /\ MaxAttempts \in Nat
  BY ImportAssumption DEF Types, TJob
<1>2. /\ job' \in [state : JobStates \ {"running"}, attempts : 0..MaxAttempts]
      /\ job'.state \in {"none", "queued"} => job'.attempts < MaxAttempts
  BY <1>1 DEF Err, JobStates
<1>3. sl' = Idle /\ cur' = cur
  BY DEF Err
<1> QED
  BY Zenon, <1>2, <1>3, EndsTyped

\* The staging tables, emptied.
LEMMA NoStagingShapes ==
    ASSUME Types, NoStaging, UNCHANGED objects
    PROVE  TTables' /\ toc' \in 0..N
<1>1. NoMark \in Marks
  BY Zenon, EmptyShapes
<1>2. <<>> \in Seq(Units) /\ <<>> \in Seq(Parts) /\ 0 \in 0..N /\ {} \in SUBSET Oids
  BY ImportAssumption
<1>3. open' \in [Entries -> Marks]
  BY <1>1 DEF NoStaging
<1> QED
  BY Zenon, <1>2, <1>3 DEF NoStaging, TTables, Types

\* The drain of the commit phase ends.
LEMMA FinishDrainTyped ==
    ASSUME Types, FinishDrain
    PROVE  Types'
<1>1. sl.at = "drain" /\ FlushCkpt /\ UNCHANGED <<toc, open, world, r2, faults>>
  BY Zenon DEF FinishDrain, Drained
<1>2. TTables' /\ TWorld' /\ TR2'
  BY Zenon, <1>1, FlushShapes, FrameTypes
<1>3. toc' = toc /\ push' = push /\ toc \in 0..N /\ sl.at # "idle"
  BY <1>1 DEF world, Types, TCur
<1>4. CASE Err
  BY Zenon, <1>2, <1>3, <1>4, ErrTyped
<1>5. CASE sl' = [sl EXCEPT !.at = "last", !.c = Checkpointed(<<>>)] /\ UNCHANGED <<job, cur>>
  <2>0. <<>> \in Seq(Entries)
    OBVIOUS
  <2>1. Checkpointed(<<>>) \in Cursors /\ Checkpointed(<<>>).st.bytes = sl.w.hash
        /\ Checkpointed(<<>>).upload = sl.c.upload /\ Checkpointed(<<>>).next_idx = sl.c.next_idx
    BY Zenon, <1>1, <2>0, CheckpointShapes
  <2>2. sl \in Slices /\ sl.c.upload # 0 /\ WholeLen(sl.w.hash) /\ job.state = "running"
        /\ (push = "open" => sl.c.next_idx <= toc)
    BY <1>1 DEF Types, TSlice, Bound, TWhole, TJob, TCur
  <2>3. sl' \in Slices /\ sl'.at = "last" /\ sl'.c = Checkpointed(<<>>) /\ sl'.w = sl.w
    <3>1. "last" \in Ats
      BY DEF Ats
    <3> QED
      BY Zenon, <1>5, <2>1, <2>2, <3>1 DEF Slices
  <2>4. TSlice' /\ TCut'
    BY <2>1, <2>2, <2>3 DEF TSlice, TCut, Drains
  <2>5. TJob' /\ TCur'
    BY <1>3, <1>5, <2>1, <2>2, <2>3 DEF Types, TJob, TCur
  <2>6. TWhole'
    BY Zenon, <1>5, <2>1, <2>2, <2>3 DEF Types, TWhole
  <2> QED
    BY Zenon, <1>2, <2>4, <2>5, <2>6 DEF Types
<1> QED
  BY Zenon, <1>4, <1>5 DEF FinishDrain

\* commit_meta.
LEMMA CommitTyped ==
    ASSUME Types, Commit \/ CommitLanded
    PROVE  Types'
<1>1. sl.at \in {"meta", "dead"} /\ CommitMeta /\ UNCHANGED <<gc_epoch, live, r2, faults>>
  BY Zenon DEF Commit, CommitLanded
<1>2. sl.at # "idle" /\ sl.c.upload # 0 /\ sl \in Slices /\ job.state = "running" /\ toc \in 0..N
      /\ (push = "open" => sl.c.next_idx <= toc) /\ WholeLen(sl.c.st.bytes) /\ gc_epoch \in Nat /\ sl.c \in Cursors
  <2>1. sl.at # "idle" /\ sl.c.upload # 0 /\ job.state = "running" /\ WholeLen(sl.c.st.bytes)
        /\ (push = "open" => sl.c.next_idx <= toc)
    BY <1>1 DEF Types, TSlice, Bound, TJob, TCur, TWhole
  <2> QED
    BY Zenon, <2>1, TypedFacts
<1>3. TR2'
  BY Zenon, <1>1, FrameTypes
<1>4. push' \in PushStates => TWorld'
  BY Zenon, <1>1 DEF Types, TWorld
<1>5. CASE Continue(ResetToCheck(sl.c)) /\ UNCHANGED <<tables, push>>
  <2>1. ResetToCheck(sl.c) \in Cursors /\ ResetToCheck(sl.c).next_idx = sl.c.next_idx
        /\ ResetToCheck(sl.c).upload = sl.c.upload /\ ResetToCheck(sl.c).st = sl.c.st
    BY Zenon, <1>2, CursorShapes
  <2>2. TTables' /\ toc' = toc /\ push' = push
    BY Zenon, <1>5, FrameTypes DEF tables
  <2>3. cur' = ResetToCheck(sl.c) /\ Continue(cur')
    BY Zenon, <1>5 DEF Continue
  <2>4. TWorld'
    BY Zenon, <1>4, <2>2 DEF Types, TWorld
  <2> QED
    BY Zenon, <1>2, <1>3, <2>1, <2>2, <2>3, <2>4, YieldsTyped
<1>6. CASE NoStaging /\ push' \in {"committed", "rejected"} /\ sl' = [sl EXCEPT !.at = "cleanup"]
           /\ UNCHANGED <<job, cur, objects>>
  <2>1. TTables' /\ toc' \in 0..N
    BY Zenon, <1>6, NoStagingShapes
  <2>2. TWorld' /\ push' # "open"
    BY <1>4, <1>6 DEF PushStates
  <2>3. sl' \in Slices /\ sl'.at = "cleanup" /\ sl'.c = sl.c
    <3>1. "cleanup" \in Ats
      BY DEF Ats
    <3> QED
      BY Zenon, <1>2, <1>6, <3>1 DEF Slices
  <2>4. TSlice' /\ TCut'
    BY <2>3 DEF TSlice, TCut, Drains, Bound
  <2>5. TJob' /\ TCur'
    BY <1>2, <1>6, <2>1, <2>2, <2>3 DEF Types, TJob, TCur
  <2>6. TWhole'
    BY <1>6, <2>3 DEF Types, TWhole
  <2> QED
    BY Zenon, <1>3, <2>1, <2>2, <2>4, <2>5, <2>6 DEF Types
<1>7. CASE push # "open" /\ NoStaging /\ Err /\ UNCHANGED <<push, objects>>
  <2>1. TTables' /\ toc' \in 0..N /\ push' = push
    BY Zenon, <1>7, NoStagingShapes
  <2>2. TWorld'
    BY Zenon, <1>4, <2>1 DEF Types, TWorld
  <2> QED
    BY Zenon, <1>2, <1>3, <1>7, <2>1, <2>2, ErrTyped
<1> QED
  BY Zenon, <1>1, <1>5, <1>6, <1>7 DEF CommitMeta

\* The output starts over.
LEMMA WipeTyped ==
    ASSUME Types, WipeOutput
    PROVE  Types'
<1>1. /\ sl.at = "dead" /\ Continue(Wiped(sl.c)) /\ UNCHANGED <<toc, push_links, world, r2, faults>>
      /\ open' = [i \in Entries |-> NoMark] /\ tail' = <<>> /\ parts' = <<>> /\ objects' = [s \in Shas |-> NoRow]
  BY Zenon DEF WipeOutput
<1>2. sl.c \in Cursors /\ job.state = "running" /\ toc \in 0..N /\ (push = "open" => sl.c.next_idx <= toc)
  BY <1>1 DEF Types, TSlice, Slices, TJob, TCur
<1>3. FreshCursor("resolve") \in Cursors /\ NoMark \in Marks /\ NoRow \in Rows
  <2>1. "resolve" \in Phases
    BY DEF Phases
  <2> QED
    BY Zenon, <2>1, EmptyShapes
<1>4. /\ Wiped(sl.c) \in Cursors /\ Wiped(sl.c).next_idx = sl.c.next_idx /\ Wiped(sl.c).st = NoSt
      /\ Wiped(sl.c).tail = 0 /\ Wiped(sl.c).phase = "resolve"
  <2>1. Wiped(sl.c) = [FreshCursor("resolve") EXCEPT !.next_idx = sl.c.next_idx, !.parked = sl.c.parked]
    BY DEF Wiped
  <2>2. FreshCursor("resolve").st = NoSt /\ FreshCursor("resolve").tail = 0 /\ FreshCursor("resolve").phase = "resolve"
    BY DEF FreshCursor
  <2>3. sl.c.next_idx \in 0..N /\ sl.c.parked \in Seq(Entries)
    BY <1>2 DEF Cursors
  <2> QED
    BY Zenon, <1>3, <2>1, <2>2, <2>3 DEF Cursors
<1>5. TTables'
  <2>1. open' \in [Entries -> Marks] /\ objects' \in [Shas -> Rows] /\ <<>> \in Seq(Units) /\ <<>> \in Seq(Parts)
        /\ \A s \in Shas : objects'[s] = NoRow
    BY <1>1, <1>3
  <2>2. push_links' \subseteq Oids
    BY Zenon, <1>1 DEF Types, TTables
  <2> QED
    BY Zenon, <1>1, <2>1, <2>2 DEF TTables
<1>6. TWorld' /\ TR2' /\ toc' = toc /\ push' = push
  <2>1. TWorld' /\ TR2'
    BY Zenon, <1>1, FrameTypes
  <2> QED
    BY Zenon, <1>1, <2>1 DEF world
<1>7. cur' = Wiped(sl.c) /\ Continue(cur')
  BY Zenon, <1>1 DEF Continue
<1>8. WholeLen(cur'.st.bytes) /\ cur'.phase \notin {"check", "commit"}
  <2>1. WholeLen(NoSt.bytes)
    BY Zenon, EmptyWhole
  <2>2. cur'.phase = "resolve" /\ cur'.st = NoSt
    BY Zenon, <1>4, <1>7
  <2> QED
    BY <2>1, <2>2
<1> QED
  BY Zenon, <1>2, <1>4, <1>5, <1>6, <1>7, <1>8, YieldsTyped

\* R2 refuses to complete.
LEMMA RefusedTyped ==
    ASSUME Types, Refused
    PROVE  Types'
<1>1. sl.at # "idle" /\ Err /\ UNCHANGED <<tables, world, r2, faults>>
  BY DEF Refused
<1>2. TTables' /\ TWorld' /\ TR2' /\ toc' = toc /\ push' = push
  <2>1. UNCHANGED <<open, objects, tail, parts, push_links>> /\ UNCHANGED <<world, faults>> /\ UNCHANGED r2
    BY Zenon, <1>1 DEF tables
  <2>2. TTables' /\ TWorld' /\ TR2'
    BY Zenon, <2>1, FrameTypes
  <2> QED
    BY Zenon, <1>1, <2>2 DEF tables, world
<1>3. toc \in 0..N
  BY DEF Types, TCur
<1> QED
  BY Zenon, <1>1, <1>2, <1>3, ErrTyped

-----------------------------------------------------------------------------
(* What is hashed is what was uploaded. *)

(* What the writer claims as uploaded is what it has hashed, the parts table  *)
(* begins with what the cursor's checkpoint hashed, and what is completed     *)
(* carries its own hash.                                                      *)
TSeal ==
  /\ sl.at \in {"drain", "upload", "last"} =>
       sl.w.hash = Bytes(sl.w.etags) /\ Len(sl.w.hash) = PART * Len(sl.w.etags)
  /\ sl.at = "complete" => SealedBy(sl.w.etags)
  /\ push = "open" \/ sl.at \notin {"idle", "cleanup"} => CkptIn(cur, parts) /\ CkptIn(sl.c, parts)
  /\ sl.at \in Drains => CkptIn(cur, sl.w.etags)
  /\ \A q \in late : \A k \in DOMAIN q : q[k].op = "complete" => SealedBy(q[k].etags)
  /\ PackSealed

\* A checkpoint is its bytes; an empty one fits any list of parts.
LEMMA CkptFacts ==
    /\ \A c, d, ps : c.st = d.st /\ CkptIn(d, ps) => CkptIn(c, ps)
    /\ \A c : \A ps \in Seq(Parts) : c.st = NoSt => CkptIn(c, ps)
<1>1. ASSUME NEW c, NEW ps \in Seq(Parts), c.st = NoSt PROVE CkptIn(c, ps)
  <2>1. c.st.bytes = <<>>
    BY <1>1 DEF NoSt
  <2>2. SubSeq(ps, 1, 0) = <<>> /\ 0 \in 0..Len(ps)
    OBVIOUS
  <2>3. Bytes(<<>>) = <<>>
    <3>1. [b |-> <<>>, h |-> <<>>] \in Parts
      BY DEF Parts
    <3> QED
      BY Zenon, <3>1, BytesAppend
  <2>4. PART * 0 = 0 /\ Len(<<>>) = 0
    BY ImportAssumption
  <2> QED
    BY Zenon, <2>1, <2>2, <2>3, <2>4 DEF CkptIn
<1> QED
  BY Zenon, <1>1 DEF CkptIn

\* A checkpoint within ps is one within ps and a part more; one of all of ps;
\* and one within the parts it covers.
LEMMA CkptGrows ==
    ASSUME NEW ps \in Seq(Parts)
    PROVE  /\ \A c : \A p \in Parts : CkptIn(c, ps) => CkptIn(c, Append(ps, p))
           /\ \A c : c.st.bytes = Bytes(ps) /\ Len(c.st.bytes) = PART * Len(ps) => CkptIn(c, ps)
           /\ \A c : \A n \in 0..Len(ps) : Len(c.st.bytes) = PART * n /\ c.st.bytes = Bytes(SubSeq(ps, 1, n)) =>
                CkptIn(c, SubSeq(ps, 1, n)) /\ Len(SubSeq(ps, 1, n)) = n
<1>1. ASSUME NEW c, NEW p \in Parts, CkptIn(c, ps) PROVE CkptIn(c, Append(ps, p))
  <2>1. PICK n \in 0..Len(ps) : Len(c.st.bytes) = PART * n /\ c.st.bytes = Bytes(SubSeq(ps, 1, n))
    BY Zenon, <1>1 DEF CkptIn
  <2>2. SubSeq(Append(ps, p), 1, n) = SubSeq(ps, 1, n) /\ n \in 0..Len(Append(ps, p))
    OBVIOUS
  <2> QED
    BY Zenon, <2>1, <2>2 DEF CkptIn
<1>2. ASSUME NEW c, c.st.bytes = Bytes(ps), Len(c.st.bytes) = PART * Len(ps) PROVE CkptIn(c, ps)
  <2>1. SubSeq(ps, 1, Len(ps)) = ps /\ Len(ps) \in 0..Len(ps)
    OBVIOUS
  <2> QED
    BY Zenon, <1>2, <2>1 DEF CkptIn
<1>3. ASSUME NEW c, NEW n \in 0..Len(ps), Len(c.st.bytes) = PART * n, c.st.bytes = Bytes(SubSeq(ps, 1, n))
      PROVE  CkptIn(c, SubSeq(ps, 1, n)) /\ Len(SubSeq(ps, 1, n)) = n
  <2>1. SubSeq(SubSeq(ps, 1, n), 1, n) = SubSeq(ps, 1, n) /\ Len(SubSeq(ps, 1, n)) = n /\ n \in 0..n
    OBVIOUS
  <2> QED
    BY Zenon, <1>3, <2>1 DEF CkptIn
<1> QED
  BY Zenon, <1>1, <1>2, <1>3

\* The last part seals what was hashed before it.
LEMMA LastSeals ==
    ASSUME NEW w \in Writers, w.hash = Bytes(w.etags)
    PROVE  SealedBy(Append(w.etags, LastPart(w))) /\ LastPart(w) \in Parts
<1>1. w.hash \in Seq(Units) /\ w.buf \in Seq(Units) /\ w.etags \in Seq(Parts)
  BY DEF Writers
<1>2. w.hash \o w.buf \in Seq(Units)
  BY Zenon, <1>1, Joined
<1>3. LastPart(w) \in Parts /\ LastPart(w).b = w.buf /\ LastPart(w).h = w.hash \o w.buf
  BY <1>1, <1>2 DEF LastPart, Parts
<1>4. Bytes(Append(w.etags, LastPart(w))) = w.hash \o w.buf
  BY Zenon, <1>1, <1>3, BytesAppend
<1>5. Append(w.etags, LastPart(w)) # <<>> /\ Last(Append(w.etags, LastPart(w))) = LastPart(w)
  <2>1. PICK E \in Seq(Parts), p \in Parts : E = w.etags /\ p = LastPart(w)
    BY Zenon, <1>1, <1>3
  <2>2. Append(E, p) # <<>> /\ Last(Append(E, p)) = p
    BY DEF Last
  <2> QED
    BY Zenon, <2>1, <2>2
<1> QED
  BY Zenon, <1>3, <1>4, <1>5 DEF SealedBy

\* A slice that no longer writes, or does not yet.
LEMMA SealRests ==
    ASSUME TSeal, UNCHANGED <<object, late>>, sl'.at \notin {"drain", "upload", "last", "complete"},
           push' = "open" \/ sl'.at \notin {"idle", "cleanup"} => CkptIn(cur', parts') /\ CkptIn(sl'.c, parts')
    PROVE  TSeal'
<1>1. PackSealed' /\ \A q \in late' : \A k \in DOMAIN q : q[k].op = "complete" => SealedBy(q[k].etags)
  BY Zenon DEF TSeal, PackSealed
<1>2. sl'.at \notin Drains
  BY DEF Drains
<1> QED
  BY <1>1, <1>2 DEF TSeal

\* A slice that ends.
LEMMA SealEnds ==
    ASSUME TSeal, UNCHANGED <<object, late>>, sl' = Idle, parts' \in Seq(Parts),
           push' = "open" => CkptIn(cur', parts')
    PROVE  TSeal'
<1>1. sl'.at = "idle" /\ sl'.c.st = NoSt
  BY DEF Idle, FreshCursor
<1>2. CkptIn(sl'.c, parts')
  BY Zenon, <1>1, CkptFacts
<1> QED
  BY <1>1, <1>2, SealRests

\* Steps that no checkpoint and no writer sees.
LEMMA SealQuiet ==
    ASSUME Types, TSeal, UNCHANGED <<cur, parts, sl, object, late>>, push' = push \/ push' # "open"
    PROVE  TSeal'
  BY Zenon DEF TSeal, PackSealed

\* A late call lands.
LEMMA SealLate ==
    ASSUME Types, TSeal, LateCall
    PROVE  TSeal'
<1>1. UNCHANGED <<cur, parts, sl, push>>
  BY DEF LateCall, tables, world
<1>2. PICK q \in late :
        /\ late' \in {late \ {q}, (late \ {q}) \cup (IF Len(q) > 1 THEN {Tail(q)} ELSE {})}
        /\ object' = object \/ (Head(q).op = "complete" /\ object' = Head(q).etags)
  BY Zenon DEF LateCall
<1>3. q \in Seq(R2Calls) /\ Len(q) > 0
  BY DEF Types, TR2
<1>4. \A r \in late' : r \in late \/ (Len(q) > 1 /\ r = Tail(q))
  BY <1>2
<1>5. Head(q) = q[1] /\ 1 \in DOMAIN q /\ \A k \in DOMAIN Tail(q) : k + 1 \in DOMAIN q /\ Tail(q)[k] = q[k + 1]
  BY <1>3
<1>6. \A k \in DOMAIN q : q[k].op = "complete" => SealedBy(q[k].etags)
  BY Zenon DEF TSeal
<1>7. \A r \in late' : \A k \in DOMAIN r : r[k].op = "complete" => SealedBy(r[k].etags)
  BY Zenon, <1>4, <1>5, <1>6 DEF TSeal
<1>8. PackSealed'
  <2>1. object' = object \/ SealedBy(object')
    BY Zenon, <1>2, <1>5, <1>6
  <2> QED
    BY Zenon, <2>1 DEF TSeal, PackSealed, SealedBy
<1> QED
  BY Zenon, <1>1, <1>7, <1>8 DEF TSeal

\* The calls a lost slice leaves behind.
LEMMA SealLose ==
    ASSUME Types, TSeal, Lose
    PROVE  TSeal'
<1>1. sl.at # "idle" /\ sl' = Idle /\ UNCHANGED <<cur, parts, push, object>>
  BY DEF Lose, Fault, tables, world
<1>2. PICK n \in 0..Len(Calls) : late' = IF n = 0 THEN late ELSE late \cup {SubSeq(Calls, 1, n)}
  BY Zenon DEF Lose
<1>3. \A k \in DOMAIN Calls : Calls[k].op = "complete" => SealedBy(Calls[k].etags)
  <2>1. CASE sl.at = "upload"
    <3>1. Calls = [k \in 1..(Len(sl.w.buf) \div PART) |->
             PartCall(sl.c.upload, Len(sl.w.etags) + k,
                      [b |-> SubSeq(sl.w.buf, (k - 1) * PART + 1, k * PART), h |-> <<>>])]
      BY <2>1 DEF Calls
    <3>2. \A u, m, p : PartCall(u, m, p).op = "part"
      BY DEF PartCall
    <3>3. \A k \in DOMAIN Calls : Calls[k].op = "part"
      BY Zenon, <3>1, <3>2
    <3> QED
      BY <3>3
  <2>2. CASE sl.at = "last"
    <3>1. Calls = <<PartCall(sl.c.upload, Len(sl.w.etags) + 1, LastPart(sl.w)),
                    CompleteCall(sl.c.upload, Append(sl.w.etags, LastPart(sl.w)))>>
      BY <2>2 DEF Calls
    <3>2. PartCall(sl.c.upload, Len(sl.w.etags) + 1, LastPart(sl.w)).op = "part"
          /\ CompleteCall(sl.c.upload, Append(sl.w.etags, LastPart(sl.w))).etags = Append(sl.w.etags, LastPart(sl.w))
      BY DEF PartCall, CompleteCall
    <3>3. SealedBy(Append(sl.w.etags, LastPart(sl.w)))
      <4>1. sl.w \in Writers /\ sl.w.hash = Bytes(sl.w.etags)
        BY <2>2 DEF Types, TSlice, Slices, TSeal
      <4> QED
        BY Zenon, <4>1, LastSeals
    <3>4. DOMAIN Calls = {1, 2} /\ Calls[1] = PartCall(sl.c.upload, Len(sl.w.etags) + 1, LastPart(sl.w))
          /\ Calls[2] = CompleteCall(sl.c.upload, Append(sl.w.etags, LastPart(sl.w)))
      BY <3>1
    <3>5. "part" # "complete"
      OBVIOUS
    <3> QED
      BY Zenon, <3>2, <3>3, <3>4, <3>5
  <2>3. CASE sl.at = "complete"
    <3>1. Calls = <<CompleteCall(sl.c.upload, sl.w.etags)>>
      BY <2>3 DEF Calls
    <3>2. CompleteCall(sl.c.upload, sl.w.etags).etags = sl.w.etags
      BY DEF CompleteCall
    <3>3. SealedBy(sl.w.etags)
      BY <2>3 DEF TSeal
    <3> QED
      BY SMTT(30), <3>1, <3>2, <3>3
  <2>4. CASE sl.at = "reject"
    BY <2>4 DEF Calls, AbortCall
  <2>5. CASE sl.at \notin {"upload", "last", "complete", "reject"}
    BY SMTT(30), <2>5 DEF Calls
  <2> QED
    BY <2>1, <2>2, <2>3, <2>4, <2>5
<1>4. n # 0 => \A k \in DOMAIN SubSeq(Calls, 1, n) : k \in DOMAIN Calls /\ SubSeq(Calls, 1, n)[k] = Calls[k]
  <2>1. Len(Calls) \in Nat /\ Calls \in Seq(R2Calls)
    <3>1. Calls \in Seq(R2Calls)
      BY Zenon, <1>1, CallShapes
    <3> QED
      BY <3>1
  <2> QED
    BY <2>1
<1>5. \A q \in late' : \A k \in DOMAIN q : q[k].op = "complete" => SealedBy(q[k].etags)
  BY Zenon, <1>2, <1>3, <1>4 DEF TSeal
<1>6. sl'.at = "idle" /\ sl'.c.st = NoSt /\ parts \in Seq(Parts)
  BY <1>1 DEF Idle, FreshCursor, Types, TTables
<1>7. CkptIn(sl'.c, parts)
  BY Zenon, <1>6, CkptFacts
<1>8. sl'.at \notin {"drain", "upload", "last", "complete"} /\ sl'.at \notin Drains
  BY <1>6 DEF Drains
<1>9. PackSealed' /\ (push' = "open" => CkptIn(cur', parts'))
  BY Zenon, <1>1 DEF TSeal, PackSealed
<1> QED
  BY <1>1, <1>5, <1>6, <1>7, <1>8, <1>9 DEF TSeal

\* A drain that goes on and claims no more parts.
LEMMA SealDrains ==
    ASSUME Types, TSeal, UNCHANGED <<cur, parts, push, object, late>>, sl.at \in Drains, sl'.at \in Drains,
           sl'.c.st = sl.c.st, sl'.w.hash = sl.w.hash, sl'.w.etags = sl.w.etags
    PROVE  TSeal'
<1>1. sl'.at \notin {"complete", "idle", "cleanup"} /\ sl.at \notin {"idle", "cleanup"} /\ sl.at \in {"drain", "upload", "last"}
  BY DEF Drains
<1>2. PackSealed' /\ \A q \in late' : \A k \in DOMAIN q : q[k].op = "complete" => SealedBy(q[k].etags)
  BY Zenon DEF TSeal, PackSealed
<1>3. CkptIn(cur, parts) /\ CkptIn(sl.c, parts) /\ CkptIn(cur, sl.w.etags)
      /\ sl.w.hash = Bytes(sl.w.etags) /\ Len(sl.w.hash) = PART * Len(sl.w.etags)
  BY Zenon, <1>1 DEF TSeal
<1>4. CkptIn(sl'.c, parts)
  BY Zenon, <1>3, CkptFacts
<1> QED
  BY Zenon, <1>1, <1>2, <1>3, <1>4 DEF TSeal

\* Entries are passed over, parked or written.
LEMMA SealEntry ==
    ASSUME Types, TSeal, Skip \/ Park \/ OneEntry
    PROVE  TSeal'
<1>1. HasTask /\ UNCHANGED <<cur, parts, push, object, late>>
  BY Zenon DEF Skip, Park, OneEntry, tables, world, r2
<1>2. sl.at = "drain" /\ Taken \in Slices /\ Item \in Entries /\ Taken.c.st = sl.c.st /\ Taken.w = sl.w /\ Taken.at = "drain"
  BY Zenon, <1>1, AtHand, TaskFacts
<1>3. CASE Skip \/ Park
  <2>1. PICK s \in {Taken, [Taken EXCEPT !.pend[Base[Item]] = Append(@, Item)]} : sl' = s
    BY Zenon, <1>3 DEF Skip, Park
  <2>2. sl'.at = "drain" /\ sl'.c = Taken.c /\ sl'.w = Taken.w
    BY <2>1, <1>2 DEF Slices
  <2> QED
    BY Zenon, <1>1, <1>2, <2>2, SealDrains DEF Drains
<1>4. CASE OneEntry
  <2>1. \/ Seal(Written, MarkedNow)
        \/ sl' = [Written EXCEPT !.at = "upload"]
    BY Zenon, <1>4 DEF OneEntry, Written, MarkedNow
  <2>2. /\ Written \in Slices /\ MarkedNow \in [Entries -> Marks] /\ Written.i = Item /\ Written.c = Taken.c
        /\ Written.w.hash = sl.w.hash /\ Written.w.etags = sl.w.etags
    BY Zenon, <1>1, WrittenShapes
  <2>3. sl'.at \in Drains /\ sl'.c = Taken.c /\ sl'.w.hash = sl.w.hash /\ sl'.w.etags = sl.w.etags
    <3>1. CASE Seal(Written, MarkedNow)
      BY Zenon, <3>1, <2>2, <1>2, SealShapes DEF SealedFrom, Drains
    <3>2. CASE sl' = [Written EXCEPT !.at = "upload"]
      BY <3>2, <2>2 DEF Slices, Drains
    <3> QED
      BY Zenon, <2>1, <3>1, <3>2
  <2> QED
    BY Zenon, <1>1, <1>2, <2>3, SealDrains DEF Drains
<1> QED
  BY Zenon, <1>3, <1>4

\* A part is uploaded, hashed and claimed.
LEMMA SealPart ==
    ASSUME Types, TSeal, UploadPart
    PROVE  TSeal'
<1> DEFINE w == Uploaded(sl.w)
<1> DEFINE s == [sl EXCEPT !.w = w]
<1>1. sl.at = "upload" /\ UNCHANGED <<cur, parts, push, object, late>> /\ (sl' = s \/ Seal(s, open))
  BY Zenon DEF UploadPart, world
<1>2. sl \in Slices /\ sl.w \in Writers /\ Len(sl.w.buf) >= PART /\ sl.i \in Entries /\ open \in [Entries -> Marks]
      /\ sl.w.hash \in Seq(Units) /\ sl.w.etags \in Seq(Parts)
  BY <1>1 DEF Types, TSlice, Slices, TTables, Writers
<1>3. PICK chunk \in Seq(Units) : /\ Len(chunk) = PART /\ [b |-> chunk, h |-> <<>>] \in Parts
               /\ w \in Writers /\ w.hash = sl.w.hash \o chunk
               /\ w.etags = Append(sl.w.etags, [b |-> chunk, h |-> <<>>])
  BY Zenon, <1>2, UploadedFacts
<1> HIDE DEF w
<1>4. s \in Slices /\ s.w = w /\ s.at = "upload" /\ s.i = sl.i /\ s.c = sl.c
  BY <1>1, <1>2, <1>3 DEF Slices
<1> HIDE DEF s
<1>5. sl'.at \in Drains /\ sl'.c = sl.c /\ sl'.w.hash = w.hash /\ sl'.w.etags = w.etags
  <2>1. CASE sl' = s
    BY Zenon, <1>4, <2>1 DEF Drains
  <2>2. CASE Seal(s, open)
    BY Zenon, <1>2, <1>4, <2>2, SealShapes DEF SealedFrom, Drains
  <2> QED
    BY Zenon, <1>1, <2>1, <2>2
<1>6. CkptIn(cur, parts) /\ CkptIn(sl.c, parts) /\ CkptIn(cur, sl.w.etags)
      /\ sl.w.hash = Bytes(sl.w.etags) /\ Len(sl.w.hash) = PART * Len(sl.w.etags)
  BY <1>1 DEF TSeal, Drains
<1>7. CkptIn(cur, w.etags)
  BY Zenon, <1>2, <1>3, <1>6, CkptGrows
<1>8. w.hash = Bytes(w.etags)
  <2>1. [b |-> chunk, h |-> <<>>].b = chunk
    OBVIOUS
  <2> QED
    BY Zenon, <1>2, <1>3, <1>6, <2>1, BytesAppend
<1>9. Len(w.hash) = PART * Len(w.etags)
  <2>1. PICK E \in Seq(Parts), p \in Parts : E = sl.w.etags /\ w.etags = Append(E, p)
    BY Zenon, <1>2, <1>3
  <2>2. Len(w.etags) = Len(E) + 1 /\ Len(E) \in Nat
    BY <2>1
  <2>3. PART * (Len(E) + 1) = PART * Len(E) + PART
    BY Zenon, <2>2, WholeParts
  <2>4. Len(w.hash) = Len(sl.w.hash) + PART
    BY Zenon, <1>2, <1>3, Joined
  <2> QED
    BY Zenon, <1>6, <2>1, <2>2, <2>3, <2>4
<1>10. PackSealed' /\ \A q \in late' : \A k \in DOMAIN q : q[k].op = "complete" => SealedBy(q[k].etags)
  BY Zenon, <1>1 DEF TSeal, PackSealed
<1>11. sl'.at # "complete"
  BY <1>5 DEF Drains
<1> QED
  BY Zenon, <1>1, <1>5, <1>6, <1>7, <1>8, <1>9, <1>10, <1>11 DEF TSeal

\* A slice resumes.
LEMMA SealResume ==
    ASSUME Types, TSeal, Resume
    PROVE  TSeal'
<1>1. sl.at = "bind" /\ UNCHANGED <<cur, parts, push, object, late>>
      /\ sl' = [sl EXCEPT !.at = "drain", !.w = Opened, !.took = TailLen(sl.c), !.c.tail = 0, !.c.parked = <<>>,
                          !.todo = Todo(sl.c, RowsAtResume(sl.c))]
  BY Zenon DEF Resume, Opened, world, r2
<1>2. sl \in Slices /\ sl.c \in Cursors /\ parts \in Seq(Parts)
  BY DEF Types, TSlice, Slices, TTables
<1>3. CkptIn(cur, parts) /\ CkptIn(sl.c, parts)
  BY <1>1 DEF TSeal
<1>4. PICK n \in 0..Len(parts) : /\ Len(cur.st.bytes) = PART * n /\ cur.st.bytes = Bytes(SubSeq(parts, 1, n))
                                 /\ Opened.etags = SubSeq(parts, 1, n) /\ Opened.hash = cur.st.bytes
  BY Zenon, <1>1, <1>3, OpenedFacts
<1>5. CkptIn(cur, SubSeq(parts, 1, n)) /\ Len(SubSeq(parts, 1, n)) = n
  BY Zenon, <1>2, <1>4, CkptGrows
<1>6. sl'.at = "drain" /\ sl'.w = Opened /\ sl'.c.st = sl.c.st
  BY <1>1, <1>2 DEF Slices, Cursors
<1>7. CkptIn(sl'.c, parts)
  BY Zenon, <1>3, <1>6, CkptFacts
<1>8. PackSealed' /\ \A q \in late' : \A k \in DOMAIN q : q[k].op = "complete" => SealedBy(q[k].etags)
  BY Zenon, <1>1 DEF TSeal, PackSealed
<1>9. sl'.at # "complete"
  BY <1>6
<1> QED
  BY Zenon, <1>1, <1>3, <1>4, <1>5, <1>6, <1>7, <1>8, <1>9 DEF TSeal

\* Slices that begin, cursors that move on, and slices that end with the
\* checkpoint they began with.
LEMMA SealBegins ==
    ASSUME Types, TSeal, Claim \/ CheckReject \/ CommitClaim \/ CreateUpload \/ UploadDead \/ TocBatch
    PROVE  TSeal'
<1>1. UNCHANGED <<cur, parts, push, object, late>>
  BY Zenon DEF Claim, CheckReject, CommitClaim, CreateUpload, UploadDead, TocBatch, tables, world, r2
<1>2. sl \in Slices /\ cur \in Cursors /\ sl.c \in Cursors /\ gc_epoch \in Nat
  BY Zenon, TypedFacts
<1>3. CkptIn(cur, parts) /\ sl'.c.st \in {cur.st, sl.c.st} /\ CkptIn(sl.c, parts)
      /\ sl'.at \notin {"drain", "upload", "last", "complete"}
  <2>1. CASE Claim \/ CheckReject \/ CommitClaim
    <3>1. push = "open" /\ sl'.at \notin {"drain", "upload", "last", "complete"} /\ sl'.c \in {cur, Pinned(cur)}
      BY <2>1 DEF Claim, CheckReject, CommitClaim, Due, Idle
    <3>2. Pinned(cur).st = cur.st
      BY Zenon, <1>2, CursorShapes
    <3> QED
      BY Zenon, <3>1, <3>2 DEF TSeal
  <2>2. CASE CreateUpload \/ UploadDead \/ TocBatch
    <3>1. sl.at \notin {"idle", "cleanup"} /\ sl'.at \notin {"drain", "upload", "last", "complete"} /\ sl'.c.st = sl.c.st
      <4>1. /\ sl.at \in {"bind", "upload", "last", "complete", "toc"}
            /\ \/ sl.at = "bind" /\ \E u \in 1..MaxUploads : sl' = [sl EXCEPT !.c.upload = u]
               \/ sl' = [sl EXCEPT !.at = "dead"]
               \/ sl.at = "toc" /\ \E n \in Int : sl' = [sl EXCEPT !.c.next_idx = n]
        <5>1. sl.c.next_idx + TocFanout \in Int
          <6>1. sl.c.next_idx \in 0..N /\ TocFanout \in Nat
            BY Zenon, <1>2, ImportAssumption DEF Cursors
          <6> QED
            BY <6>1
        <5>2. "bind" \in {"bind", "upload", "last", "complete", "toc"} /\ "toc" \in {"bind", "upload", "last", "complete", "toc"}
          OBVIOUS
        <5> QED
          BY Zenon, <2>2, <5>1, <5>2 DEF CreateUpload, UploadDead, TocBatch
      <4>2. sl'.c.st = sl.c.st /\ sl'.at \in {sl.at, "dead"}
        <5>1. PICK u, n : sl' \in {[sl EXCEPT !.c = [sl.c EXCEPT !.upload = u]], [sl EXCEPT !.at = "dead"],
                                   [sl EXCEPT !.c = [sl.c EXCEPT !.next_idx = n]]}
          BY Zenon, <4>1
        <5>2. [sl.c EXCEPT !.upload = u].st = sl.c.st /\ [sl.c EXCEPT !.next_idx = n].st = sl.c.st
          BY <1>2 DEF Cursors
        <5> QED
          BY Zenon, <1>2, <5>1, <5>2 DEF Slices
      <4>3. sl'.at = "dead" \/ sl.at \in {"bind", "toc"}
        BY Zenon, <1>2, <4>1 DEF Slices
      <4> QED
        BY <4>1, <4>2, <4>3
    <3> QED
      BY Zenon, <3>1 DEF TSeal
  <2> QED
    BY Zenon, <2>1, <2>2
<1>4. CkptIn(sl'.c, parts)
  BY <1>3, CkptFacts
<1> QED
  BY Zenon, <1>1, <1>3, <1>4, SealRests

LEMMA SealCursor ==
    ASSUME Types, TSeal, ImportStart \/ CheckPages \/ CommitStale
    PROVE  TSeal'
<1>1. UNCHANGED <<parts, push, object, late, sl>> /\ push = "open" /\ job.state # "running"
  BY DEF ImportStart, CheckPages, CommitStale, tables, world, r2, Due
<1>2. cur \in Cursors /\ gc_epoch \in Nat /\ parts \in Seq(Parts) /\ sl.at = "idle"
  BY <1>1, ImportAssumption DEF Types, TCur, TWorld, TTables, TJob
<1>3. cur'.st \in {NoSt, cur.st}
  <2>1. CASE ImportStart
    BY <2>1 DEF ImportStart, FreshCursor
  <2>2. CASE CheckPages
    <3>1. PICK after \in {cur.after} \cup Unchecked(cur) :
            cur' \in {[Pinned(cur) EXCEPT !.after = after], [[Pinned(cur) EXCEPT !.after = after] EXCEPT !.phase = "commit"]}
      BY Zenon, <2>2 DEF CheckPages
    <3>2. Pinned(cur) \in Cursors /\ Pinned(cur).st = cur.st
      BY Zenon, <1>2, CursorShapes
    <3> QED
      BY <3>1, <3>2 DEF Cursors
  <2>3. CASE CommitStale
    <3>1. cur' = ResetToCheck(cur) /\ ResetToCheck(cur).st = cur.st
      BY Zenon, <1>2, <2>3, CursorShapes DEF CommitStale
    <3> QED
      BY Zenon, <3>1
  <2> QED
    BY Zenon, <2>1, <2>2, <2>3
<1>4. CkptIn(cur, parts) /\ CkptIn(sl.c, parts)
  BY Zenon, <1>1 DEF TSeal
<1>5. CkptIn(cur', parts)
  BY <1>2, <1>3, <1>4, CkptFacts
<1>6. sl'.at \notin {"drain", "upload", "last", "complete"}
  BY <1>1, <1>2
<1> QED
  BY Zenon, <1>1, <1>4, <1>5, <1>6, SealRests

LEMMA SealDone ==
    ASSUME Types, TSeal,
           \/ Retire \/ FetchRejected \/ CheckRetry \/ RejectPush \/ Fail \/ Cleanup \/ Refused
           \/ FetchStaged \/ TocYield
    PROVE  TSeal'
<1>1. sl' = Idle /\ UNCHANGED <<parts, object, late>> /\ parts \in Seq(Parts) /\ (push' = "open" => push = "open")
  BY DEF Retire, FetchRejected, CheckRetry, RejectPush, Fail, Cleanup, Refused, FetchStaged, TocYield, Done, Err, Continue,
         tables, world, r2, Types, TTables
<1>2. cur' = cur \/ (sl.at \in {"toc", "fetch"} /\ cur'.st = sl.c.st)
  <2>1. CASE FetchStaged \/ TocYield
    <3>1. sl.c \in Cursors
      BY DEF Types, TSlice, Slices
    <3> QED
      BY <2>1, <3>1 DEF FetchStaged, TocYield, Continue, Cursors
  <2>2. CASE ~(FetchStaged \/ TocYield)
    BY Zenon, <2>2 DEF Retire, FetchRejected, CheckRetry, RejectPush, Fail, Cleanup, Refused, Done, Err
  <2> QED
    BY Zenon, <2>1, <2>2
<1>3. push' = "open" => CkptIn(cur', parts)
  <2>1. CASE cur' = cur
    BY Zenon, <1>1, <2>1 DEF TSeal
  <2>2. CASE sl.at \in {"toc", "fetch"} /\ cur'.st = sl.c.st
    <3>1. CkptIn(sl.c, parts)
      BY <2>2 DEF TSeal
    <3> QED
      BY Zenon, <3>1, <2>2, CkptFacts
  <2> QED
    BY Zenon, <1>2, <2>1, <2>2
<1> QED
  BY Zenon, <1>1, <1>3, SealEnds

\* The checkpoints: flush_ckpt, the wipe and commit_meta.
LEMMA SealFlush ==
    ASSUME Types, TSeal, Yield \/ FinishDrain
    PROVE  TSeal'
<1>1. sl.at = "drain" /\ parts' = sl.w.etags /\ UNCHANGED <<push, object, late>>
  BY Zenon DEF Yield, FinishDrain, Drained, FlushCkpt, world, r2
<1>2. sl.w.hash = Bytes(sl.w.etags) /\ Len(sl.w.hash) = PART * Len(sl.w.etags) /\ CkptIn(cur, sl.w.etags)
  BY <1>1 DEF TSeal, Drains
<1>3. sl.w.etags \in Seq(Parts) /\ sl \in Slices
  BY DEF Types, TSlice, Slices, Writers
<1>4. CASE Yield
  <2>1. PICK done \in BOOLEAN, parked \in ParkedLists :
          Continue(IF done THEN [Checkpointed(parked) EXCEPT !.phase = "check"] ELSE Checkpointed(parked))
    BY Zenon, <1>4 DEF Yield
  <2>2. parked \in Seq(Entries)
    <3>1. sl.at # "idle"
      BY <1>1
    <3> QED
      BY Zenon, <3>1, ParkedShape
  <2>3. Checkpointed(parked) \in Cursors /\ Checkpointed(parked).st.bytes = sl.w.hash
    BY Zenon, <1>1, <2>2, CheckpointShapes
  <2>4. sl' = Idle /\ cur'.st.bytes = sl.w.hash
    BY <2>1, <2>3 DEF Continue, Cursors
  <2>5. CkptIn(cur', parts')
    BY Zenon, <1>1, <1>2, <1>3, <2>4, CkptGrows
  <2> QED
    BY Zenon, <1>1, <1>3, <2>4, <2>5, SealEnds
<1>5. CASE FinishDrain /\ Err
  BY Zenon, <1>1, <1>2, <1>3, <1>5, SealEnds DEF Err
<1>6. CASE FinishDrain /\ sl' = [sl EXCEPT !.at = "last", !.c = Checkpointed(<<>>)] /\ UNCHANGED <<job, cur>>
  <2>0. <<>> \in Seq(Entries)
    OBVIOUS
  <2>1. Checkpointed(<<>>).st.bytes = sl.w.hash
    BY Zenon, <1>1, <2>0, CheckpointShapes
  <2>2. sl'.at = "last" /\ sl'.c.st.bytes = sl.w.hash /\ sl'.w = sl.w
    BY <1>6, <1>3, <2>1 DEF Slices
  <2>3. CkptIn(sl'.c, parts')
    BY Zenon, <1>1, <1>2, <1>3, <2>2, CkptGrows
  <2>4. PackSealed' /\ \A q \in late' : \A k \in DOMAIN q : q[k].op = "complete" => SealedBy(q[k].etags)
    BY Zenon, <1>1 DEF TSeal, PackSealed
  <2>5. sl'.at # "complete" /\ sl'.at \notin Drains
    BY <2>2 DEF Drains
  <2> QED
    BY Zenon, <1>1, <1>2, <1>6, <2>2, <2>3, <2>4, <2>5 DEF TSeal
<1> QED
  BY Zenon, <1>4, <1>5, <1>6 DEF FinishDrain

LEMMA SealLands ==
    ASSUME Types, TSeal, WipeOutput \/ Commit \/ CommitLanded
    PROVE  TSeal'
<1>1. sl.at \in {"meta", "dead"} /\ UNCHANGED <<object, late>>
  BY Zenon DEF WipeOutput, Commit, CommitLanded, r2
<1>2. CkptIn(cur, parts) /\ CkptIn(sl.c, parts) /\ sl.c \in Cursors /\ gc_epoch \in Nat /\ sl \in Slices
      /\ parts \in Seq(Parts) /\ <<>> \in Seq(Parts)
  <2>1. CkptIn(cur, parts) /\ CkptIn(sl.c, parts)
    BY <1>1 DEF TSeal
  <2>2. <<>> \in Seq(Parts)
    OBVIOUS
  <2> QED
    BY Zenon, <2>1, <2>2, TypedFacts
<1>3. CASE WipeOutput
  <2>1. sl' = Idle /\ parts' = <<>> /\ cur' = Wiped(sl.c)
    BY Zenon, <1>3 DEF WipeOutput, Continue
  <2>2. cur'.st = NoSt
    BY <2>1 DEF Wiped, FreshCursor
  <2>3. CkptIn(cur', parts')
    BY Zenon, <1>2, <2>1, <2>2, CkptFacts
  <2> QED
    BY Zenon, <1>1, <1>2, <2>1, <2>3, SealEnds
<1>4. CASE CommitMeta
  <2>1. CASE Continue(ResetToCheck(sl.c)) /\ UNCHANGED <<tables, push>>
    <3>1. ResetToCheck(sl.c).st = sl.c.st /\ sl' = Idle /\ cur' = ResetToCheck(sl.c) /\ parts' = parts
      BY Zenon, <1>2, <2>1, CursorShapes DEF Continue, tables
    <3>2. CkptIn(cur', parts')
      BY Zenon, <1>2, <3>1, CkptFacts
    <3> QED
      BY Zenon, <1>1, <1>2, <3>1, <3>2, SealEnds
  <2>2. CASE push' \in {"committed", "rejected"} /\ sl' = [sl EXCEPT !.at = "cleanup"]
    <3>1. push' # "open" /\ sl'.at = "cleanup"
      BY <2>2, <1>2 DEF Slices
    <3>2. sl'.at \notin {"drain", "upload", "last", "complete"}
      BY <3>1
    <3> QED
      BY Zenon, <1>1, <3>1, <3>2, SealRests
  <2>3. CASE push # "open" /\ NoStaging /\ Err /\ UNCHANGED <<push, objects>>
    <3>1. push' # "open" /\ sl' = Idle /\ parts' = <<>>
      BY Zenon, <2>3 DEF NoStaging, Err
    <3> QED
      BY Zenon, <1>1, <1>2, <3>1, SealEnds
  <2> QED
    BY Zenon, <1>4, <2>1, <2>2, <2>3 DEF CommitMeta
<1> QED
  BY Zenon, <1>3, <1>4 DEF Commit, CommitLanded

\* The last part and the completion.
LEMMA SealCompletes ==
    ASSUME Types, TSeal, UploadLast \/ Completes
    PROVE  TSeal'
<1>1. UNCHANGED <<cur, parts, push, late>> /\ sl.at \notin {"idle", "cleanup"} /\ sl \in Slices /\ sl.w \in Writers
  BY DEF UploadLast, Completes, tables, world, Types, TSlice, Slices
<1>2. CkptIn(cur, parts) /\ CkptIn(sl.c, parts)
  BY Zenon, <1>1 DEF TSeal
<1>3. \A q \in late' : \A k \in DOMAIN q : q[k].op = "complete" => SealedBy(q[k].etags)
  BY Zenon, <1>1 DEF TSeal
<1>4. CASE UploadLast
  <2>1. sl.at = "last" /\ sl' = [sl EXCEPT !.at = "complete", !.w.etags = Append(@, LastPart(sl.w))] /\ UNCHANGED object
    BY Zenon, <1>4 DEF UploadLast
  <2>2. SealedBy(Append(sl.w.etags, LastPart(sl.w)))
    <3>1. sl.w.hash = Bytes(sl.w.etags)
      BY <2>1 DEF TSeal
    <3> QED
      BY Zenon, <1>1, <3>1, LastSeals
  <2>3. sl'.at = "complete" /\ sl'.c = sl.c /\ sl'.w.etags = Append(sl.w.etags, LastPart(sl.w))
    BY <1>1, <2>1 DEF Slices, Writers
  <2>4. sl'.at \notin {"drain", "upload", "last"} /\ sl'.at \notin Drains
    BY <2>3 DEF Drains
  <2>5. PackSealed'
    BY Zenon, <2>1 DEF TSeal, PackSealed
  <2> QED
    BY Zenon, <1>1, <1>2, <1>3, <2>2, <2>3, <2>4, <2>5 DEF TSeal
<1>5. CASE Completes
  <2>1. sl.at = "complete" /\ sl' = [sl EXCEPT !.at = "meta"] /\ object' = sl.w.etags
    BY Zenon, <1>5 DEF Completes
  <2>2. PackSealed'
    BY <2>1 DEF TSeal, PackSealed, SealedBy
  <2>3. sl'.at = "meta" /\ sl'.c = sl.c
    BY <1>1, <2>1 DEF Slices
  <2>4. sl'.at \notin {"drain", "upload", "last", "complete"} /\ sl'.at \notin Drains
    BY <2>3 DEF Drains
  <2> QED
    BY <1>1, <1>2, <1>3, <2>2, <2>3, <2>4 DEF TSeal
<1> QED
  BY Zenon, <1>4, <1>5

-----------------------------------------------------------------------------
(* Every step; the theorems. *)

\* Every step keeps the shapes.
LEMMA TypesStep ==
    ASSUME Types, TSeal, [Next]_vars
    PROVE  Types'
<1>1. CASE UNCHANGED vars
  BY Zenon, <1>1, FrameTypes DEF Types, vars, tables, world
<1>2. CASE \/ Sweep \/ Arrive \/ PushAbort \/ PushExpires \/ UploadReaped \/ LateCall
           \/ JanitorPack \/ JanitorStaging \/ JanitorDeadJob
  BY Zenon, <1>2, QuietTyped
<1>3. CASE Retire \/ FetchRejected \/ CheckRetry \/ RejectPush \/ Lose \/ Fail \/ Cleanup
  BY Zenon, <1>3, EndingTyped
<1>4. CASE Claim \/ CheckReject \/ CommitClaim
  BY Zenon, <1>4, ClaimTyped
<1>5. CASE CreateUpload \/ UploadDead \/ UploadLast \/ Complete
  BY Zenon, <1>5, CallTyped, RefusedTyped, CompleteCases
<1>6. CASE ImportStart \/ CheckPages \/ CommitStale
  BY Zenon, <1>6, CursorTyped
<1>7. CASE FetchStaged \/ TocBatch \/ TocYield
  BY Zenon, <1>7, TocTyped
<1>8. CASE Resume
  <2>1. CkptIn(cur, parts)
    <3>1. sl.at = "bind"
      BY Zenon, <1>8 DEF Resume
    <3> QED
      BY <3>1 DEF TSeal
  <2> QED
    BY Zenon, <1>8, <2>1, ResumeTyped
<1>9. CASE Skip \/ Park \/ OneEntry \/ UploadPart
  BY Zenon, <1>9, SkipTyped, OneEntryTyped, UploadPartTyped
<1>10. CASE Yield \/ FinishDrain \/ Commit \/ CommitLanded \/ WipeOutput
  BY Zenon, <1>10, YieldTyped, FinishDrainTyped, CommitTyped, WipeTyped
<1> QED
  BY Zenon, <1>1, <1>2, <1>3, <1>4, <1>5, <1>6, <1>7, <1>8, <1>9, <1>10 DEF Next

\* Every step keeps the checkpoints and the hashes.
LEMMA SealStep ==
    ASSUME Types, TSeal, [Next]_vars
    PROVE  TSeal'
<1>1. CASE \/ UNCHANGED vars \/ Sweep \/ Arrive \/ PushAbort \/ PushExpires \/ UploadReaped
           \/ JanitorPack \/ JanitorDeadJob
  <2>1. UNCHANGED <<cur, parts, sl, object, late>> /\ (push' = push \/ push' # "open")
    BY <1>1 DEF vars, tables, world, r2, Sweep, Arrive, PushAbort, PushExpires, UploadReaped, JanitorPack, JanitorDeadJob
  <2> QED
    BY Zenon, <2>1, SealQuiet
<1>2. CASE JanitorStaging
  <2>1. push' # "open" /\ sl'.at = "idle" /\ UNCHANGED <<object, late>>
    BY Zenon, <1>2 DEF JanitorStaging, world, r2
  <2>2. sl'.at \notin {"drain", "upload", "last", "complete"} /\ sl'.at \in {"idle", "cleanup"}
    BY <2>1
  <2> QED
    BY Zenon, <2>1, <2>2, SealRests
<1>3. CASE LateCall \/ Lose
  BY Zenon, <1>3, SealLate, SealLose
<1>4. CASE \/ Retire \/ FetchRejected \/ CheckRetry \/ RejectPush \/ Fail \/ Cleanup \/ FetchStaged \/ TocYield
  BY Zenon, <1>4, SealDone
<1>5. CASE Claim \/ CheckReject \/ CommitClaim \/ CreateUpload \/ UploadDead \/ TocBatch
  BY Zenon, <1>5, SealBegins
<1>6. CASE ImportStart \/ CheckPages \/ CommitStale
  BY Zenon, <1>6, SealCursor
<1>7. CASE Resume \/ Skip \/ Park \/ OneEntry \/ UploadPart
  BY Zenon, <1>7, SealResume, SealEntry, SealPart
<1>8. CASE Yield \/ FinishDrain \/ WipeOutput \/ Commit \/ CommitLanded
  BY Zenon, <1>8, SealFlush, SealLands
<1>9. CASE UploadLast \/ Complete
  BY Zenon, <1>9, SealCompletes, SealDone, CompleteCases
<1> QED
  BY Zenon, <1>1, <1>2, <1>3, <1>4, <1>5, <1>6, <1>7, <1>8, <1>9 DEF Next

\* A first state has the shapes.
LEMMA InitTypes ==
    ASSUME Init
    PROVE  Types /\ TSeal
<1>0. N \in Nat /\ N > 0 /\ MaxAttempts \in Nat /\ MaxAttempts > 0 /\ MaxEpoch \in Nat /\ MaxFaults \in Nat
  BY ImportAssumption
<1>1. Idle \in Slices /\ FreshCursor("toc") \in Cursors /\ NoMark \in Marks /\ NoRow \in Rows
  <2>1. "toc" \in Phases
    BY DEF Phases
  <2> QED
    BY Zenon, <2>1, EmptyShapes
<1>2. FreshCursor("toc").st = NoSt /\ FreshCursor("toc").tail = 0 /\ FreshCursor("toc").next_idx = 0
      /\ FreshCursor("toc").phase = "toc" /\ Idle.at = "idle" /\ Idle.c = FreshCursor("toc")
  BY DEF FreshCursor, Idle
<1>3. TJob
  BY <1>0, <1>2 DEF Init, TJob, JobStates
<1>4. TCur
  BY <1>0, <1>1, <1>2 DEF Init, TCur
<1>5. TTables
  <2>1. <<>> \in Seq(Units) /\ <<>> \in Seq(Parts) /\ {} \subseteq Oids
    OBVIOUS
  <2> QED
    BY Zenon, <1>1, <2>1 DEF Init, TTables
<1>6. TWorld
  BY <1>0 DEF Init, TWorld, PushStates
<1>7. TR2
  <2>1. <<>> \in Seq(Parts) /\ "none" \in {"none", "live", "gone"}
    OBVIOUS
  <2>2. [state |-> "none", parts |-> <<>>] \in Multiparts
    BY <2>1 DEF Multiparts
  <2> QED
    BY Zenon, <2>1, <2>2 DEF Init, TR2, NoObject
<1>8. TSlice /\ TCut
  BY <1>1, <1>2 DEF Init, TSlice, TCut, Bound, Drains
<1>9. TWhole
  <2>1. WholeLen(NoSt.bytes)
    BY Zenon, EmptyWhole
  <2> QED
    BY <1>2, <2>1 DEF Init, TWhole
<1>10. TSeal
  <2>1. <<>> \in Seq(Parts)
    OBVIOUS
  <2>2. CkptIn(cur, parts) /\ CkptIn(sl.c, parts)
    BY Zenon, <1>2, <2>1, CkptFacts DEF Init
  <2>3. sl.at \notin {"drain", "upload", "last", "complete"} /\ sl.at \notin Drains
    BY <1>2 DEF Init, Drains
  <2>4. late = {} /\ PackSealed
    BY Zenon DEF Init, PackSealed
  <2> QED
    BY <2>2, <2>3, <2>4 DEF TSeal
<1> QED
  BY Zenon, <1>3, <1>4, <1>5, <1>6, <1>7, <1>8, <1>9, <1>10 DEF Types

\* The shapes include the type invariant.
LEMMA TypesOK ==
    ASSUME Types
    PROVE  TypeOK
<1>1. cur \in Cursors /\ cur.st \in Ckpts /\ N \in Nat /\ PART \in Nat /\ PART > 0 /\ toc \in 0..N
  BY ImportAssumption DEF Types, TCur, Cursors
<1>2. Len(cur.st.bytes) % PART = 0
  <2>1. PICK n \in Nat : Len(cur.st.bytes) = PART * n
    BY Zenon DEF Types, TWhole, WholeLen
  <2> QED
    BY Zenon, <2>1, WholeParts
<1>3. Range(cur.parked) \subseteq Entries
  BY <1>1 DEF Cursors, Range
<1>4. cur.next_idx \in 0..toc \/ push # "open"
  <2>1. cur.next_idx \in 0..N /\ (push = "open" => cur.next_idx <= toc)
    BY Zenon, <1>1 DEF Types, TCur, Cursors
  <2> QED
    BY <1>1, <2>1
<1>5. job.state \in {"none", "queued", "running", "dead", "gone"} /\ job.attempts \in 0..MaxAttempts
      /\ (sl.at = "idle" <=> job.state # "running")
  BY DEF Types, TJob, JobStates
<1>6. /\ cur.phase \in {"toc", "fetch", "resolve", "check", "commit"} /\ cur.upload \in 0..MaxUploads
      /\ cur.st.bytes \in Seq(Units) /\ cur.st.count \in 0..N /\ cur.tail < PART /\ cur.scan \in 0..N
  BY <1>1 DEF Cursors, Ckpts, Phases
<1>7. /\ push_links \subseteq Oids /\ live \subseteq Oids
      /\ \A s \in Shas : objects[s] # NoRow => Sha[objects[s].idx] = s
      /\ tail \in Seq(Units) /\ parts \in Seq(Parts) /\ object \in Seq(Parts)
      /\ gc_epoch \in 0..MaxEpoch /\ faults \in 0..MaxFaults
  BY Zenon DEF Types, TTables, TWorld, TR2
<1>8. push \in {"open", "committed", "rejected", "dead", "expired"}
  BY DEF Types, TWorld, PushStates
<1> QED
  BY Zenon, <1>1, <1>2, <1>3, <1>4, <1>5, <1>6, <1>7, <1>8 DEF TypeOK

\* Every table, cursor, upload and slice of the import keeps its shape, and a
\* checkpoint covers whole parts.
THEOREM ImportTypes == Spec => []TypeOK
<1>1. Init => Types /\ TSeal
  BY InitTypes
<1>2. Types /\ TSeal /\ [Next]_vars => Types' /\ TSeal'
  BY TypesStep, SealStep
<1>3. Types => TypeOK
  BY TypesOK
<1> QED
  BY <1>1, <1>2, <1>3, PTL DEF Spec

\* Whatever is lost, late or swept: what lands under the pack key ends in the
\* hash of exactly its bytes.
THEOREM ImportSealed == Spec => []PackSealed
<1>1. Init => Types /\ TSeal
  BY InitTypes
<1>2. Types /\ TSeal /\ [Next]_vars => Types' /\ TSeal'
  BY TypesStep, SealStep
<1>3. TSeal => PackSealed
  BY DEF TSeal
<1> QED
  BY <1>1, <1>2, <1>3, PTL DEF Spec

=============================================================================
