------------------------------ MODULE GcBuild -------------------------------
(* One build of the garbage collector: gc_consolidate copies the marked       *)
(* entries of its candidate packs into one multipart upload, a slice at a     *)
(* time.  The copy cursor (gc.pos), the etags (gc_parts), the undrained bytes *)
(* (gc_tail) and the rows of the new pack are all a slice leaves to the next. *)
(* GcChain has the rest of the chain and a build with no cursor, the one that *)
(* BuildPromise states and this module implements.                            *)
(*                                                                            *)
(* A slice whose row was requeued while it waited goes on as a stale slice up *)
(* to its next chain_fence: it may still call R2, it writes no table.  A kill *)
(* is a slice that turns stale and then takes no step; what was written since *)
(* its last await does not matter, as nothing reads it in between.            *)
(*                                                                            *)
(* A unit stands for a run of bytes, named by its entry and its place there.  *)
(* The trailer is the hash that the last part carries.  How many entries a    *)
(* chunk takes (SPANS, LOAD) is any number.                                   *)
EXTENDS Integers, Sequences, FiniteSetsExt, Functions

CONSTANTS
  Cands,         \* the frozen bitmaps in pack_id order: sets of entry indexes
  Size,          \* units of each entry <<candidate, index>>
  Commits,       \* the entries that are commits
  PART,          \* units of a non-final upload part, more than the header's one
  SPAN,          \* units of the largest entry read whole, and of a fragment
  BATCH_N,       \* entries planned at once
  ROWS,          \* staged rows posted at the end of a batch
  Slices,        \* lease ids; bound: slices in memory at once
  MaxBuilds,     \* bound: builds begun
  MaxUploads,    \* bound: multipart uploads
  MaxFaults      \* bound: requeued slices, failed slices and calls, reaped uploads

Entries == UNION {{c} \X Cands[c] : c \in DOMAIN Cands}

ASSUME BuildAssumption ==
  /\ Cands \in Seq(SUBSET Nat) /\ IsFiniteSet(Entries) /\ Entries # {}
  /\ Size \in [Entries -> Nat \ {0}] /\ Commits \subseteq Entries
  /\ PART \in Nat \ {0, 1} /\ {SPAN, BATCH_N, ROWS} \subseteq Nat \ {0}
  /\ {MaxBuilds, MaxUploads} \subseteq Nat \ {0} /\ MaxFaults \in Nat
  /\ Slices \subseteq Nat \ {0}

VARIABLES
  pos,           \* meta gc.pos
  parts,         \* gc_parts
  tail,          \* gc_tail
  rows,          \* objects rows of the build pack
  fails,         \* meta gc.fails
  builds,        \* pack ids used so far
  meta,          \* the packs row once the build pack is live
  lease,         \* the slice that holds the gc_consolidate row, or 0
  sl,            \* the slices in memory
  uploads,       \* R2: multipart uploads
  object,        \* R2: the parts each pack key was completed from
  faults

tables == <<pos, parts, tail, rows, fails, builds, meta>>
r2 == <<uploads, object>>
vars == <<tables, lease, sl, r2, faults>>

Total == Cardinality(Entries)
Far == 1 + MapThenSumSet(LAMBDA e : Size[e], Entries)   \* past any offset
Header == << <<0, 0>> >>
Entry(e) == [k \in 1..Size[e] |-> <<e, k>>]
Last(q) == q[Len(q)]

(* The units of a list of parts, part after part.                             *)
Bytes(ps) ==
  LET upto[k \in 0..Len(ps)] == IF k = 0 THEN <<>> ELSE upto[k - 1] \o ps[k].b
  IN  upto[Len(ps)]

NoObject == <<>>
NoRow == [idx |-> -1, off |-> 0, len |-> 0]
NoRows == [e \in Entries |-> NoRow]
NoMeta == [count |-> 0, bytes |-> 0, lo |-> 0, hi |-> 0]

(* WriterCkpt: the durable units stand for their number and their hash.       *)
NoSt == [saved |-> FALSE, bytes |-> <<>>, count |-> 0, lo |-> Far, hi |-> 0]

(* Pos: (ci, idx, frag) is the record scan and (bci, bidx, bfrag) is bound;   *)
(* candidates count from 1.                                                   *)
Start == [ci |-> 1, idx |-> 0, frag |-> 0]
NewPos(pack) == [pack |-> pack, upload |-> 0, st |-> NoSt, scan |-> Start,
                 bound |-> Start, tail |-> 0, lo |-> Far, hi |-> 0]
NoPos == NewPos(0)

NoSpan == [ci |-> 0, idx |-> 0, ord |-> 0, off |-> 0, len |-> 0]
NoWriter == [hash |-> <<>>, buf |-> <<>>, etags |-> <<>>, count |-> 0,
             lo |-> Far, hi |-> 0]
Idle == [at |-> "idle", p |-> NoPos, w |-> NoWriter, ord |-> 0, left |-> 0,
         mid |-> FALSE, yield |-> FALSE, spans |-> <<>>, cur |-> NoSpan,
         staged |-> <<>>]

Held(s) == lease = s
Alive(u) == uploads[u].state = "live"

-----------------------------------------------------------------------------
(* The output writer (PackWriter).                                            *)
Offset(w) == Len(w.hash) + Len(w.buf)

Created == [NoWriter EXCEPT !.buf = Header]

\* Mutant: the lost header is not written again.
ResumedNoHeader(p) ==
  [hash |-> p.st.bytes, buf |-> <<>>, etags |-> parts,
   count |-> p.st.count, lo |-> p.st.lo, hi |-> p.st.hi]

(* resume: nothing uploaded yet means that the header was lost with the       *)
(* buffer and is written again.                                               *)
Resumed(p) ==
  [hash |-> p.st.bytes, buf |-> IF p.st.bytes = <<>> THEN Header ELSE <<>>,
   etags |-> parts, count |-> p.st.count, lo |-> p.st.lo, hi |-> p.st.hi]

(* checkpoint: the oldest PART units become the next part.                    *)
Uploaded(w) ==
  LET chunk == SubSeq(w.buf, 1, PART)
  IN  [w EXCEPT !.hash = @ \o chunk, !.buf = SubSeq(@, PART + 1, Len(@)),
                !.etags = Append(@, [b |-> chunk, h |-> <<>>])]

(* append_stored and raw_entry_done: an entry that began at off is complete.  *)
Sealed(w, e, off) ==
  [w EXCEPT !.count = @ + 1,
            !.lo = IF e \in Commits THEN Min({@, off}) ELSE @,
            !.hi = IF e \in Commits THEN Offset(w) ELSE @]

(* finish_inner: the last part carries the hash of all units.                 *)
LastPart(w) == [b |-> w.buf, h |-> w.hash \o w.buf]

(* R2: a part uploaded twice is replaced.                                     *)
WithPart(u, n, part) ==
  [uploads EXCEPT ![u].parts =
     IF n <= Len(@) THEN [@ EXCEPT ![n] = part] ELSE Append(@, part)]

(* R2: complete is refused when a part it names is not the one uploaded.      *)
Completable(u, etags) ==
  /\ Len(etags) <= Len(uploads[u].parts)
  /\ SubSeq(uploads[u].parts, 1, Len(etags)) = etags

(* An upload aborted, completed or expired is unknown to R2.                  *)
Gone(u) == [uploads EXCEPT ![u].state = "gone", ![u].parts = <<>>]

-----------------------------------------------------------------------------
(* The copy cursor.                                                           *)

(* bm_idxs_from over the candidates from c on; a candidate with no index left *)
(* gives way to the next, whose scan starts at 0.                             *)
Ahead(c) ==
  {e \in Entries : e[1] > c.ci \/ (e[1] = c.ci /\ e[2] >= c.idx)}

Earlier(e, f) == e[1] < f[1] \/ (e[1] = f[1] /\ e[2] < f[2])
Next1(c) == CHOOSE e \in Ahead(c) : \A f \in Ahead(c) \ {e} : Earlier(e, f)

(* The batch planned at c: at most BATCH_N entries of one candidate.          *)
Planned(c) ==
  Min({BATCH_N, Cardinality({e \in Ahead(c) : e[1] = Next1(c)[1]})})

(* The rows of staged entries; a row that is there already stays.             *)
Posted(staged) ==
  [e \in Entries |->
     LET mine == {k \in DOMAIN staged : staged[k].e = e}
     IN  IF rows[e] # NoRow \/ mine = {} THEN rows[e] ELSE staged[Min(mine)].row]

(* The tail that a resume folds back in is complete, and the rows of entries  *)
(* that ended in it were posted with it.                                      *)
TailKept(p) == p.tail > 0 /\ Len(tail) = p.tail

EndedInTail(p) ==
  LET base == Len(p.st.bytes)
  IN  {e \in Entries : /\ rows[e] # NoRow
                       /\ rows[e].off + rows[e].len > base
                       /\ rows[e].off + rows[e].len <= base + p.tail}

TailRestored(p, w) ==
  LET done == EndedInTail(p)
      com  == done \cap Commits
  IN  [w EXCEPT !.buf = tail, !.count = @ + Cardinality(done),
                !.lo = Min({@} \cup {rows[e].off : e \in com}),
                !.hi = Max({@} \cup {rows[e].off + rows[e].len : e \in com})]

\* Mutant: a lost tail is not replayed.
FoldedNoRewind(p, w) ==
  IF TailKept(p)
    THEN [Idle EXCEPT !.at = "loop", !.p = [p EXCEPT !.tail = 0],
                      !.w = TailRestored(p, w),
                      !.ord = p.st.count + Cardinality(EndedInTail(p))]
    ELSE [Idle EXCEPT !.at = "loop", !.p = [p EXCEPT !.tail = 0],
                      !.w = w, !.ord = p.st.count]

(* The slice after a resume: a complete tail becomes the buffer, a lost one   *)
(* is replayed from the durable boundary.                                     *)
Folded(p, w) ==
  IF TailKept(p)
    THEN [Idle EXCEPT !.at = "loop", !.p = [p EXCEPT !.tail = 0],
                      !.w = TailRestored(p, w),
                      !.ord = p.st.count + Cardinality(EndedInTail(p))]
    ELSE [Idle EXCEPT !.at = "loop",
                      !.p = [p EXCEPT !.tail = 0,
                                      !.scan = IF p.tail > 0 THEN p.bound ELSE @],
                      !.w = w, !.ord = p.st.count]

-----------------------------------------------------------------------------
(* The end of flush.  cur and the spans of the entries copied by this slice   *)
(* say which entry the durable boundary cuts.                                 *)
Hits(x) ==
  LET durable == Len(x.w.hash)
      inside  == {k \in DOMAIN x.spans : /\ durable >= x.spans[k].off
                                         /\ durable < x.spans[k].off + x.spans[k].len}
  IN  IF x.cur # NoSpan /\ durable >= x.cur.off THEN {x.cur}
      ELSE {x.spans[k] : k \in inside}

Snapshot(w, count) ==
  [saved |-> TRUE, bytes |-> w.hash, count |-> count, lo |-> w.lo, hi |-> w.hi]

(* No span of this slice holds the boundary, and a yield may reuse the one it *)
(* was resumed with: nothing was uploaded since, or nothing ever.             *)
Reusable(x) ==
  x.yield /\ (x.w.hash = <<>> \/ (x.p.st.saved /\ Len(x.p.st.bytes) = Len(x.w.hash)))

Lost(x) == x.w.buf # <<>> /\ Hits(x) = {} /\ ~Reusable(x)

\* Mutant: a checkpoint inside a slice keeps the scan cursor.
CheckpointedAhead(x) ==
  [x.p EXCEPT !.st = Snapshot(x.w, x.w.count), !.tail = IF x.yield THEN Len(x.w.buf) ELSE 0,
              !.bound = x.p.scan]

(* The pos that flush writes.                                                 *)
Checkpointed(x) ==
  LET durable == Len(x.w.hash)
      hit == CHOOSE h \in Hits(x) : TRUE
      cut == [ci |-> hit.ci, idx |-> hit.idx, frag |-> durable - hit.off]
      pp  == [x.p EXCEPT !.tail = IF x.yield THEN Len(x.w.buf) ELSE 0]
  IN  CASE x.w.buf = <<>> ->
             [pp EXCEPT !.st = Snapshot(x.w, x.w.count),
                        !.bound = IF x.yield THEN x.p.scan ELSE @]
        [] x.w.buf # <<>> /\ Hits(x) # {} ->
             [pp EXCEPT !.st = Snapshot(x.w, hit.ord), !.bound = cut,
                        !.scan = IF x.yield THEN @ ELSE cut]
        [] x.w.buf # <<>> /\ Hits(x) = {} /\ durable = 0 ->
             [pp EXCEPT !.st = Snapshot(x.w, 0), !.bound = Start]
        [] OTHER -> [pp EXCEPT !.st = Snapshot(x.w, x.p.st.count)]

(* Spans behind the durable boundary are popped.                              *)
Trimmed(x) ==
  LET dead == {k \in DOMAIN x.spans :
                 x.spans[k].off + x.spans[k].len <= Len(x.w.hash)}
  IN  SubSeq(x.spans, Cardinality(dead) + 1, Len(x.spans))

Ends(s) == sl' = [sl EXCEPT ![s] = Idle] /\ lease' = IF Held(s) THEN 0 ELSE lease
Goes(s, x) == sl' = [sl EXCEPT ![s] = x] /\ UNCHANGED lease

(* The span of flush behind its fence: rows, etags, tail and cursor together. *)
(* A stale slice stops at the fence; a boundary that no span holds is an      *)
(* error after the rows and etags are written.                                *)
Persist(s, x) ==
  IF ~Held(s) THEN Ends(s) /\ UNCHANGED <<pos, parts, tail, rows>>
  ELSE /\ rows' = Posted(x.staged)
       /\ parts' = SubSeq(x.w.etags, 1, Len(x.w.hash) \div PART)
       /\ IF Lost(x) THEN Ends(s) /\ UNCHANGED <<pos, tail>>
          ELSE /\ pos' = Checkpointed(x)
               /\ tail' = IF x.yield THEN x.w.buf ELSE tail
               /\ IF x.yield THEN Ends(s)
                  ELSE Goes(s, [x EXCEPT !.at = IF x.cur = NoSpan THEN "loop" ELSE "frag",
                                         !.p.st = Checkpointed(x).st,
                                         !.staged = <<>>, !.spans = Trimmed(x)])

(* flush with nothing to upload: a yield persists, anything else goes on.  At *)
(* the end of a batch the fence comes next, then ROWS staged rows are posted. *)
FlushLight(s, x) ==
  IF x.yield THEN Persist(s, x)
  ELSE /\ UNCHANGED <<pos, parts, tail>>
       /\ LET over == x.cur = NoSpan /\ ~x.mid /\ x.left = 0
              post == over /\ Held(s) /\ Len(x.staged) >= ROWS
          IN  /\ rows' = IF post THEN Posted(x.staged) ELSE rows
              /\ IF over /\ ~Held(s) THEN Ends(s)
                 ELSE Goes(s, IF post THEN [x EXCEPT !.staged = <<>>] ELSE x)

\* Mutant: a part that is just full stays in the buffer.
FlushLate(s, x) ==
  IF Len(x.w.buf) > PART
    THEN Goes(s, [x EXCEPT !.at = "upload"]) /\ UNCHANGED <<pos, parts, tail, rows>>
    ELSE FlushLight(s, x)

Flush(s, x) ==
  IF Len(x.w.buf) >= PART
    THEN Goes(s, [x EXCEPT !.at = "upload"]) /\ UNCHANGED <<pos, parts, tail, rows>>
    ELSE FlushLight(s, x)

-----------------------------------------------------------------------------
Init ==
  /\ pos = NoPos /\ parts = <<>> /\ tail = <<>> /\ rows = NoRows
  /\ fails = 0 /\ builds = 0 /\ meta = NoMeta
  /\ lease = 0 /\ sl = [s \in Slices |-> Idle]
  /\ uploads = [u \in 1..MaxUploads |-> [state |-> "none", pack |-> 0, parts |-> <<>>]]
  /\ object = [b \in 1..MaxBuilds |-> NoObject] /\ faults = 0

(* begin_build, after wipe_build or on the first slice: a fresh pack.         *)
BeginBuild ==
  /\ builds < MaxBuilds /\ builds' = builds + 1
  /\ pos' = NewPos(builds + 1) /\ parts' = <<>> /\ tail' = <<>> /\ rows' = NoRows
  /\ fails' = 0

(* The first span of gc_consolidate.  Without a checkpoint the upload of pos, *)
(* if any, is an orphan.  With one the writer is resumed without an await and *)
(* the persisted tail is taken out of its table.  Lease ids are alike: the   *)
(* least free one is taken.                                                   *)
Begin(s) ==
  /\ lease = 0 /\ meta = NoMeta
  /\ sl[s] = Idle /\ \A t \in Slices : sl[t] = Idle => s <= t
  /\ lease' = s
  /\ \/ /\ pos = NoPos /\ BeginBuild
        /\ sl' = [sl EXCEPT ![s] = [Idle EXCEPT !.at = "create", !.p = NewPos(builds + 1)]]
     \/ /\ pos # NoPos /\ ~pos.st.saved
        /\ sl' = [sl EXCEPT ![s] = [Idle EXCEPT !.at = IF pos.upload = 0 THEN "create"
                                                                        ELSE "orphan",
                                                !.p = pos]]
        /\ UNCHANGED <<pos, parts, tail, rows, fails, builds>>
     \/ /\ pos # NoPos /\ pos.st.saved
        /\ sl' = [sl EXCEPT ![s] = Folded(pos, Resumed(pos))]
        /\ tail' = <<>>
        /\ UNCHANGED <<pos, parts, rows, fails, builds>>
  /\ UNCHANGED <<meta, r2, faults>>

AbortOrphan(s) ==
  /\ sl[s].at = "orphan"
  /\ uploads' = Gone(sl[s].p.upload)
  /\ Goes(s, [sl[s] EXCEPT !.at = "create", !.p.upload = 0])
  /\ UNCHANGED <<tables, object, faults>>

(* A new upload; its id is persisted behind the fence before anything else.   *)
CreateUpload(s) ==
  LET u == CHOOSE v \in 1..MaxUploads : /\ uploads[v].state = "none"
                                        /\ \A x \in 1..(v - 1) : uploads[x].state # "none"
      p == [sl[s].p EXCEPT !.upload = u]
  IN  /\ sl[s].at = "create"
      /\ \E v \in 1..MaxUploads : uploads[v].state = "none"
      /\ uploads' = [uploads EXCEPT ![u].state = "live", ![u].pack = p.pack]
      /\ IF Held(s) THEN /\ pos' = p /\ tail' = <<>>
                         /\ Goes(s, Folded(p, Created))
                    ELSE Ends(s) /\ UNCHANGED <<pos, tail>>
      /\ UNCHANGED <<parts, rows, fails, builds, meta, object, faults>>

-----------------------------------------------------------------------------
(* build: the copy loop.                                                      *)
AtEntry(s) == sl[s].at = "loop" /\ Ahead(sl[s].p.scan) # {}

Left(x) == IF x.left = 0 THEN Planned(x.p.scan) ELSE x.left

(* A fragment-resumed entry is streamed whatever its size.                    *)
Streamed(x, e) == Size[e] > SPAN \/ x.p.scan.frag > 0

(* An entry of the new pack is complete: its span and its row are staged and  *)
(* the cursor moves behind it.                                                *)
Copied(x, e, off) ==
  [x EXCEPT !.at = "loop",
            !.w = Sealed(@, e, off),
            !.spans = Append(@, [ci |-> e[1], idx |-> e[2], ord |-> x.ord,
                                 off |-> off, len |-> Size[e]]),
            !.staged = Append(@, [e |-> e, row |-> [idx |-> x.ord, off |-> off,
                                                    len |-> Offset(x.w) - off]]),
            !.ord = @ + 1, !.left = @ - 1, !.cur = NoSpan,
            !.p.scan = [ci |-> e[1], idx |-> e[2] + 1, frag |-> 0],
            !.p.lo = IF e \in Commits THEN Min({@, off}) ELSE @,
            !.p.hi = IF e \in Commits THEN Max({@, Offset(x.w)}) ELSE @]

(* The chunk goes on to the next entry of its batch, or ends in a flush.      *)
EntryDone(s, z) ==
  \E x \in {z} :
    \/ /\ x.left > 0 /\ Goes(s, [x EXCEPT !.mid = TRUE])
       /\ UNCHANGED <<pos, parts, tail, rows>>
    \/ Flush(s, [x EXCEPT !.mid = FALSE])

CopyEntry(s) ==
  LET x == sl[s]
  IN  /\ AtEntry(s)
      /\ \E e \in {Next1(x.p.scan)} :
           /\ ~Streamed(x, e)
           /\ \E y \in {[x EXCEPT !.left = Left(x), !.w.buf = @ \o Entry(e)]} :
                EntryDone(s, Copied(y, e, Offset(x.w)))
      /\ UNCHANGED <<fails, builds, meta, r2, faults>>

(* A streamed entry: cur is where it starts in the new pack, counting what an *)
(* earlier slice appended of it.                                              *)
StreamEntry(s) ==
  LET x == sl[s]
      e == Next1(x.p.scan)
  IN  /\ AtEntry(s) /\ Streamed(x, e)
      /\ Goes(s, [x EXCEPT !.at = "frag", !.left = Left(x),
                           !.p.scan.ci = e[1], !.p.scan.idx = e[2],
                           !.cur = [ci |-> e[1], idx |-> e[2], ord |-> x.ord,
                                    off |-> Offset(x.w) - x.p.scan.frag, len |-> Size[e]]])
      /\ UNCHANGED <<tables, r2, faults>>

InFlight(s) == <<sl[s].cur.ci, sl[s].cur.idx>>

(* One fragment, then a flush; the entry is complete after the last one.      *)
CopyFragment(s) ==
  LET x == sl[s]
      e == InFlight(s)
      upto == Min({x.p.scan.frag + SPAN, Size[e]})
  IN  /\ x.at = "frag" /\ x.p.scan.frag < Size[e]
      /\ Flush(s, [x EXCEPT !.w.buf = @ \o SubSeq(Entry(e), x.p.scan.frag + 1, upto),
                            !.p.scan.frag = upto])
      /\ UNCHANGED <<fails, builds, meta, r2, faults>>

FragmentsDone(s) ==
  LET x == sl[s]
  IN  /\ x.at = "frag" /\ x.p.scan.frag = Size[InFlight(s)]
      /\ EntryDone(s, Copied(x, InFlight(s), x.cur.off))
      /\ UNCHANGED <<fails, builds, meta, r2, faults>>

(* checkpoint: one part per call; after the last the tables follow.           *)
UploadPart(s) ==
  LET x == [sl[s] EXCEPT !.w = Uploaded(@)]
      u == x.p.upload
  IN  /\ sl[s].at = "upload" /\ Alive(u)
      /\ uploads' = WithPart(u, Len(x.w.etags), Last(x.w.etags))
      /\ IF Len(x.w.buf) >= PART
           THEN Goes(s, x) /\ UNCHANGED <<pos, parts, tail, rows>>
           ELSE Persist(s, x)
      /\ UNCHANGED <<fails, builds, meta, object, faults>>

\* Mutant: a yield leaves the undrained units behind.
YieldNoTail(s) ==
  LET x == sl[s]
  IN  /\ Held(s)
      /\ \/ x.at = "loop" /\ ~x.mid
         \/ x.at = "frag" /\ x.p.scan.frag < Size[InFlight(s)]
      /\ Len(x.w.buf) < PART /\ Ends(s)
      /\ UNCHANGED <<tables, r2, faults>>

(* The budget is spent: flush persists the tail too, and the slice ends.      *)
Yield(s) ==
  LET x == sl[s]
  IN  /\ \/ x.at = "loop" /\ ~x.mid
         \/ x.at = "frag" /\ x.p.scan.frag < Size[InFlight(s)]
      /\ Flush(s, [x EXCEPT !.yield = TRUE])
      /\ UNCHANGED <<fails, builds, meta, r2, faults>>

-----------------------------------------------------------------------------
\* Mutant: the rows staged since the last flush are not posted.
FinishUnposted(s) ==
  LET x == sl[s]
  IN  /\ Held(s) /\ x.at = "loop" /\ Ahead(x.p.scan) = {}
      /\ Goes(s, [x EXCEPT !.staged = <<>>,
                           !.at = IF x.w.count = Total THEN "last" ELSE "abort"])
      /\ UNCHANGED <<tables, r2, faults>>

(* Input exhausted: the staged rows land and the writer is finished.  No      *)
(* await lies between the last fence and here.                                *)
Finish(s) ==
  LET x == sl[s]
  IN  /\ Held(s) /\ x.at = "loop" /\ Ahead(x.p.scan) = {}
      /\ rows' = Posted(x.staged)
      /\ Goes(s, [x EXCEPT !.staged = <<>>,
                           !.at = IF x.w.count = Total THEN "last" ELSE "abort"])
      /\ UNCHANGED <<pos, parts, tail, fails, builds, meta, r2, faults>>

UploadLast(s) ==
  LET x == sl[s]
      part == LastPart(x.w)
  IN  /\ x.at = "last" /\ Alive(x.p.upload)
      /\ uploads' = WithPart(x.p.upload, Len(x.w.etags) + 1, part)
      /\ Goes(s, [x EXCEPT !.at = "complete", !.w.etags = Append(@, part)])
      /\ UNCHANGED <<tables, object, faults>>

(* finish_build, behind its fence.                                            *)
FinishBuild(s, m) ==
  /\ meta' = IF Held(s) THEN m ELSE meta
  /\ Ends(s)

(* complete and the size check of seal.                                       *)
Complete(s) ==
  LET x == sl[s]
      size == Len(Bytes(x.w.etags))
  IN  /\ x.at = "complete" /\ Alive(x.p.upload)
      /\ Completable(x.p.upload, x.w.etags)
      /\ object' = [object EXCEPT ![x.p.pack] = x.w.etags]
      /\ uploads' = Gone(x.p.upload)
      /\ IF size = Offset(x.w)
           THEN FinishBuild(s, [count |-> x.w.count, bytes |-> size,
                                lo |-> x.w.lo, hi |-> x.w.hi])
           ELSE Goes(s, [x EXCEPT !.at = "head"]) /\ UNCHANGED meta
      /\ UNCHANGED <<pos, parts, tail, rows, fails, builds, faults>>

(* The state of R2 after the call a slice waits for.                          *)
Carried(x) ==
  LET u == x.p.upload
  IN  \/ /\ x.at = "upload"
         /\ uploads' = WithPart(u, Len(x.w.etags) + 1, Last(Uploaded(x.w).etags))
         /\ UNCHANGED object
      \/ /\ x.at = "last"
         /\ uploads' = WithPart(u, Len(x.w.etags) + 1, LastPart(x.w))
         /\ UNCHANGED object
      \/ /\ x.at = "complete" /\ Completable(u, x.w.etags)
         /\ object' = [object EXCEPT ![x.p.pack] = x.w.etags]
         /\ uploads' = Gone(u)

(* An R2 call fails: the upload is not there, or the call or its answer is    *)
(* lost.  When the last part fails the writer aborts its upload; after any    *)
(* failure mpu_err asks for the object.                                       *)
CallFails(s) ==
  LET x == sl[s]
      refused == \/ ~Alive(x.p.upload)
                 \/ x.at = "complete" /\ ~Completable(x.p.upload, x.w.etags)
  IN  /\ x.at \in {"upload", "last", "complete"}
      /\ \/ refused /\ UNCHANGED <<r2, faults>>
         \/ /\ ~refused /\ faults < MaxFaults /\ faults' = faults + 1
            /\ UNCHANGED r2 \/ Carried(x)
      /\ Goes(s, [x EXCEPT !.at = IF x.at = "last" THEN "abort" ELSE "head"])
      /\ UNCHANGED tables

AbortUpload(s) ==
  /\ sl[s].at = "abort"
  /\ uploads' = Gone(sl[s].p.upload)
  /\ Goes(s, [sl[s] EXCEPT !.at = "head"])
  /\ UNCHANGED <<tables, object, faults>>

\* Mutant: the commit span of a recovered build is left out.
RecoveredMetaNoSpan(x) ==
  [count |-> Total, bytes |-> Len(Bytes(object[x.p.pack])), lo |-> Far, hi |-> 0]

RecoveredMeta(x) ==
  [count |-> Total, bytes |-> Len(Bytes(object[x.p.pack])), lo |-> x.p.lo, hi |-> x.p.hi]

(* mpu_err: the object is there although the call failed, or the slice fails  *)
(* once and then starts the build over with a fresh pack.                     *)
MpuErr(s) ==
  LET x == sl[s]
      there == object[x.p.pack] # NoObject
  IN  /\ x.at = "head"
      /\ \/ /\ there \/ ~Held(s)
            /\ FinishBuild(s, RecoveredMeta(x))
            /\ UNCHANGED <<pos, parts, tail, rows, fails, builds>>
         \/ /\ ~there /\ Held(s) /\ fails = 0
            /\ fails' = 1 /\ Ends(s)
            /\ UNCHANGED <<pos, parts, tail, rows, builds, meta>>
         \/ /\ ~there /\ Held(s) /\ fails > 0
            /\ BeginBuild
            /\ Goes(s, [Idle EXCEPT !.at = "create", !.p = NewPos(builds + 1)])
            /\ UNCHANGED meta
      /\ UNCHANGED <<r2, faults>>

-----------------------------------------------------------------------------
(* repair requeues the row of a slice that waits too long.  Bound: there is a *)
(* lease id left to run it under.                                             *)
Requeue ==
  /\ lease # 0 /\ (\E s \in Slices : sl[s] = Idle) /\ faults < MaxFaults /\ faults' = faults + 1
  /\ lease' = 0
  /\ UNCHANGED <<tables, sl, r2>>

(* A slice ends in another error; a stale one may also be killed.             *)
SliceErr(s) ==
  /\ sl[s].at # "idle"
  /\ IF Held(s) THEN faults < MaxFaults /\ faults' = faults + 1 ELSE UNCHANGED faults
  /\ Ends(s)
  /\ UNCHANGED <<tables, r2>>

(* R2 drops an upload that was never completed.                               *)
UploadReaped ==
  /\ faults < MaxFaults /\ faults' = faults + 1
  /\ \E u \in 1..MaxUploads : Alive(u) /\ uploads' = Gone(u)
  /\ UNCHANGED <<tables, lease, sl, object>>

Copy(s) == CopyEntry(s) \/ CopyFragment(s)

Calls(s) ==
  \/ AbortOrphan(s) \/ CreateUpload(s) \/ UploadPart(s) \/ FragmentsDone(s)
  \/ UploadLast(s) \/ Complete(s) \/ AbortUpload(s) \/ MpuErr(s)
  \/ CallFails(s)

Next ==
  \/ \E s \in Slices : 
       Begin(s) \/ StreamEntry(s) \/ Copy(s) \/ Finish(s) \/ Calls(s) \/ Yield(s) \/ SliceErr(s)
  \/ Requeue
  \/ UploadReaped

Spec == Init /\ [][Next]_vars

(* The alarm runs a queued row; a slice that holds it goes on.  A budget may  *)
(* end any slice early, but not so that no slice ever gets past its check.    *)
Fairness ==
  /\ WF_vars(\E s \in Slices : Begin(s))
  /\ WF_vars(lease # 0 /\ Calls(lease))
  /\ SF_vars(lease # 0 /\ StreamEntry(lease))
  /\ SF_vars(lease # 0 /\ (Copy(lease) \/ Finish(lease)))

FairSpec == Spec /\ Fairness

-----------------------------------------------------------------------------
(* The pack as it should be: the header, then every entry in (pack, idx)      *)
(* order.                                                                     *)
Before(e) == {f \in Entries : Earlier(f, e)}
Ordinal == [e \in Entries |-> Cardinality(Before(e))]
StartOf == [e \in Entries |-> 1 + MapThenSumSet(LAMBDA f : Size[f], Before(e))]
Whole(b) ==
  /\ Len(b) = Far /\ SubSeq(b, 1, 1) = Header
  /\ \A e \in Entries : SubSeq(b, StartOf[e] + 1, StartOf[e] + Size[e]) = Entry(e)

(* The tables, cursors and uploads keep their shapes.                         *)
BuildTypeOK ==
  /\ pos.pack \in 0..builds /\ pos.upload \in 0..MaxUploads
  /\ pos.st.saved => Len(pos.st.bytes) = PART * Len(parts)
  /\ Len(tail) < PART /\ pos.tail < PART
  /\ \A e \in Entries : rows[e] \in [idx : Int, off : Nat, len : Nat]
  /\ fails \in 0..1 /\ builds \in 0..MaxBuilds /\ faults \in 0..MaxFaults
  /\ lease \in Slices \cup {0} /\ (lease # 0 => sl[lease].at # "idle")
  /\ \A u \in 1..MaxUploads : uploads[u].state \in {"none", "live", "gone"}

(* Whatever faults, kills and stale slices a build meets, an object that      *)
(* appears at a pack key is the header and every marked entry, verbatim, once *)
(* and in (pack, idx) order, under the hash of exactly these bytes.           *)
BuildExact ==
  \A b \in 1..MaxBuilds : object[b] # NoObject =>
    Whole(Bytes(object[b])) /\ Last(object[b]).h = Bytes(object[b])

(* By the time the upload completes every marked entry has its row, and the   *)
(* row has the ordinal, offset and length of the entry in the new pack; the   *)
(* packs row that goes live has the count, the size and the commit span.      *)
RowsExact ==
  /\ (pos # NoPos /\ object[pos.pack] # NoObject) => \A e \in Entries :
       rows[e] = [idx |-> Ordinal[e], off |-> StartOf[e], len |-> Size[e]]
  /\ meta # NoMeta =>
       /\ object[pos.pack] # NoObject
       /\ meta = [count |-> Total, bytes |-> Far,
                  lo |-> Min({Far} \cup {StartOf[e] : e \in Commits}),
                  hi |-> Max({0} \cup {StartOf[e] + Size[e] : e \in Commits})]

(* The build that GcChain has, without cursor, parts and tail, is this one    *)
(* seen from outside: rows only come until the object is stored, it is stored *)
(* with all of them there, a restart begins from nothing, and only a stored   *)
(* pack goes live.                                                            *)
Promise == INSTANCE BuildPromise WITH
  posted <- {e \in Entries : rows[e] # NoRow},
  stored <- pos # NoPos /\ object[pos.pack] # NoObject,
  live <- meta # NoMeta
KeepsPromise == Promise!Spec

(* Where a cursor points in the new pack.                                     *)
OffsetOf(c) == IF Ahead(c) = {} THEN Far ELSE StartOf[Next1(c)] + c.frag

(* The comment on Pos.idx: the cursor never runs ahead of the checkpoint, or  *)
(* a replay skips entries.  It never falls behind either: the saved scan is   *)
(* where the durable units and the tail end, the boundary where the durable   *)
(* ones end, and the saved count is that of the entries before the boundary.  *)
CursorTracksUpload ==
  pos.st.saved =>
    LET durable == Len(pos.st.bytes)
        at == IF pos.tail > 0 THEN pos.bound ELSE pos.scan
    IN  /\ OffsetOf(pos.scan) = Max({1, durable + pos.tail})
        /\ OffsetOf(at) = Max({1, durable})
        /\ pos.st.count = Cardinality(Entries) - Cardinality(Ahead(at))

(* "A killed slice replays the same bytes to the same part numbers": no step  *)
(* puts other bytes under a part number that an open upload has, so the etags *)
(* a stale slice holds and those its successor holds name the same parts.     *)
ReplayIdentical ==
  [][\A u \in DOMAIN uploads : Alive(u) =>
       \A n \in DOMAIN uploads[u].parts \cap DOMAIN uploads'[u].parts :
         uploads'[u].parts[n] = uploads[u].parts[n]]_vars

(* However short its slices are, a build ends: a yield keeps what was copied  *)
(* even when it does not fill a part, so the slices do not copy the same span *)
(* for ever.                                                                  *)
BuildEnds == <>(meta # NoMeta)
=============================================================================
