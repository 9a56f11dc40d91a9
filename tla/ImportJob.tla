----------------------------- MODULE ImportJob ------------------------------
(* The server-side import: an import_pack job parses a staged pack (pass A),  *)
(* rewrites its entries into one multipart upload (pass B), checks the links  *)
(* of what it wrote, completes the upload and commits the push.  Each alarm   *)
(* runs one bounded slice, and a yield leaves all that the next slice needs   *)
(* in SQLite and R2.                                                          *)
(*                                                                            *)
(* A slice is a sequence of spans between awaits.  A slice that lost its row  *)
(* (killed, or requeued while it waited on R2) writes no table again: every   *)
(* batch of writes after an await is behind heartbeat or JobSink::fence.  What*)
(* is left of it are the R2 calls it already issued, which land late.         *)
EXTENDS Integers, Sequences, FiniteSetsExt, Functions

CONSTANTS
  N,             \* entries of the staged pack
  Size,          \* wire units of each entry
  Sha,           \* object of each entry; two entries may hold the same object
  Base,          \* object an entry is a ref-delta of, or NoSha
  Link,          \* objects an entry's object refers to
  NoSha,
  PART,          \* units of a non-final upload part, more than the header's one
  RowBatch,      \* rows JobSink posts at once (10,000)
  TocFanout,     \* TOC_FANOUT
  MaxAttempts,   \* failed slices after which the row is dead (8)
  MaxUploads,    \* bound: multipart uploads
  MaxFaults,     \* bound: lost slices, failed slices and reaped uploads
  MaxEpoch,      \* bound: sweeps
  TailFaults     \* the tails, "cut" or "order", whose slice a fault may strike

ASSUME ImportAssumption ==
  /\ N \in Nat \ {0} /\ PART \in Nat \ {0, 1}
  /\ RowBatch \in Nat \ {0} /\ TocFanout \in Nat \ {0}
  /\ MaxAttempts \in Nat \ {0} /\ MaxUploads \in Nat \ {0}
  /\ MaxFaults \in Nat /\ MaxEpoch \in Nat /\ TailFaults \subseteq {"cut", "order"}
  /\ Size \in [1..N -> Nat \ {0}] /\ Sha \in [1..N -> Nat \ {0}]
  /\ Base \in [1..N -> {NoSha} \cup Range(Sha)]
  /\ \A i \in 1..N : Base[i] # Sha[i]
  /\ Link \in [1..N -> SUBSET (Nat \ {0})]

VARIABLES
  job,           \* the import_pack row: state, attempts
  cur,           \* its cursor
  toc,           \* import_toc: rows 1..toc
  open,          \* import_open: where each entry starts and ends
  objects,       \* objects rows of the output pack, one per object
  tail,          \* import_tail
  parts,         \* import_parts
  push_links,
  push,          \* state of the pushes row
  gc_epoch,
  live,          \* objects other live packs hold
  uploads,       \* R2: the multipart uploads of the pack key
  object,        \* R2: the parts the pack key was completed from, or NoObject
  sl,            \* the slice in memory
  late,          \* R2 calls of lost slices still on their way
  faults

tables == <<toc, open, objects, tail, parts, push_links>>
r2 == <<uploads, object, late>>
world == <<push, gc_epoch, live>>
vars == <<job, cur, tables, world, r2, sl, faults>>

Entries == 1..N
Shas == Range(Sha)
Oids == Shas \cup UNION Range(Link)
NoEnd == -1
NoMark == [off |-> -1, end |-> NoEnd]
NoRow == [idx |-> 0, off |-> 0, len |-> 0]
NoEpoch == -1
NoObject == <<>>

Header == << <<0, 0>> >>
Entry(i) == [k \in 1..Size[i] |-> <<i, k>>]
Last(s) == s[Len(s)]
Reverse(s) == [k \in DOMAIN s |-> s[Len(s) - k + 1]]

(* The units of a list of parts, part after part.                             *)
Bytes(ps) ==
  LET upto[k \in 0..Len(ps)] == IF k = 0 THEN <<>> ELSE upto[k - 1] \o ps[k].b
  IN  upto[Len(ps)]

NoSt == [bytes |-> <<>>, count |-> 0]

(* The first phase, of pass A, is "toc" here and the empty string in the code.*)
FreshCursor(phase) ==
  [phase |-> phase, next_idx |-> 0, parked |-> <<>>, upload |-> 0, st |-> NoSt,
   scan |-> 0, tail |-> 0, after |-> 0, epoch |-> NoEpoch, recheck |-> FALSE]

NoWaiters == [b \in Shas |-> <<>>]
NoTodo == [cut |-> {}, parked |-> <<>>, requeue |-> {}, scan |-> {}]
NoWriter == [hash |-> <<>>, buf |-> <<>>, etags |-> <<>>, count |-> 0]
Idle == [at |-> "idle", c |-> FreshCursor("toc"), w |-> NoWriter, i |-> 0,
         todo |-> NoTodo, wakes |-> <<>>, pend |-> NoWaiters,
         done |-> {}, rows |-> <<>>, links |-> {}, took |-> 0]

-----------------------------------------------------------------------------
(* Landing a slice (land_outcome).  A failed slice keeps the cursor it began  *)
(* with, and whatever it wrote to the tables.                                 *)
Continue(c) ==
  job' = [job EXCEPT !.state = "queued"] /\ cur' = c /\ sl' = Idle

Done ==
  job' = [job EXCEPT !.state = "gone"] /\ sl' = Idle /\ UNCHANGED cur

\* Mutant: a failed slice is retried for ever.
ErrNeverDead ==
  /\ job' = [state |-> "queued", attempts |-> job.attempts + 1]
  /\ sl' = Idle /\ UNCHANGED cur

Err ==
  /\ job' = [state |-> IF job.attempts + 1 >= MaxAttempts THEN "dead" ELSE "queued",
             attempts |-> job.attempts + 1]
  /\ sl' = Idle /\ UNCHANGED cur

Due(phase) == job.state = "queued" /\ push = "open" /\ cur.phase = phase

Claimed == job' = [job EXCEPT !.state = "running"]

-----------------------------------------------------------------------------
(* The output writer (PackWriter).                                            *)
\* Mutant: the bytes still in the buffer are left out.
OffsetUploaded(w) == Len(w.hash)

Offset(w) == Len(w.hash) + Len(w.buf)

Created == [NoWriter EXCEPT !.buf = Header]

\* Mutant: the lost header is not written again.
ResumedNoHeader(c) ==
  [hash |-> c.st.bytes, count |-> c.st.count, buf |-> <<>>,
   etags |-> SubSeq(parts, 1, Len(c.st.bytes) \div PART)]

(* resume: nothing uploaded yet means that the header was lost with the       *)
(* buffer and is written again.                                               *)
Resumed(c) ==
  [hash |-> c.st.bytes, count |-> c.st.count,
   buf |-> IF c.st.bytes = <<>> THEN Header ELSE <<>>,
   etags |-> SubSeq(parts, 1, Len(c.st.bytes) \div PART)]

Uploaded(w) ==
  LET chunk == SubSeq(w.buf, 1, PART)
  IN  [w EXCEPT !.hash = @ \o chunk, !.buf = SubSeq(@, PART + 1, Len(@)),
                !.etags = Append(@, [b |-> chunk, h |-> <<>>])]

\* Mutant: the hash is taken before the rest of the buffer is fed to it.
LastPartUnhashed(w) == [b |-> w.buf, h |-> w.hash]

(* finish_inner: the last part carries the hash of all that precedes it.      *)
LastPart(w) == [b |-> w.buf, h |-> w.hash \o w.buf]

(* R2: a part uploaded twice is replaced.                                     *)
WithPart(u, n, p) ==
  [uploads EXCEPT ![u].parts =
     IF n <= Len(@) THEN [@ EXCEPT ![n] = p] ELSE Append(@, p)]

(* R2: complete names the parts it expects; it is refused when one differs.   *)
Completable(u, etags) ==
  /\ Len(etags) <= Len(uploads[u].parts)
  /\ SubSeq(uploads[u].parts, 1, Len(etags)) = etags

Alive(u) == uploads[u].state = "live"

-----------------------------------------------------------------------------
(* What a slice finds (resume_drain), from its cursor and the tables.         *)
Marked(i) == open[i] # NoMark
Sealed(i) == open[i].end # NoEnd
RowOf(os, i) == os[Sha[i]].idx = i

EntryEnd(i) ==
  LET after == {open[j].off : j \in {k \in Entries : open[k].off > open[i].off}}
      ends  == after \cup (IF Sealed(i) THEN {open[i].end} ELSE {})
  IN  IF ends = {} THEN Len(cur.st.bytes) + 1 ELSE Min(ends)

Lost(durable) ==
  {i \in Entries : Marked(i) /\ open[i].off <= durable /\ ~RowOf(objects, i)}

Straddlers(durable) == {i \in Lost(durable) : EntryEnd(i) > durable}
Resealed(durable) == Lost(durable) \ Straddlers(durable)

(* The tail counts only when it is all there and no straddler re-runs below   *)
(* it.                                                                        *)
TailLen(c) ==
  IF Straddlers(Len(c.st.bytes)) = {} /\ Len(tail) = c.tail THEN c.tail ELSE 0

Lowest(S) == CHOOSE i \in S : \A j \in S : open[i].off <= open[j].off

(* Rows past the live end go; a written entry that lost its row gets it back, *)
(* unless another entry holds the row of that object.                         *)
RowsAtResume(c) ==
  LET durable == Len(c.st.bytes)
      kept == [s \in Shas |->
                 IF objects[s].off + objects[s].len > durable + TailLen(c)
                 THEN NoRow ELSE objects[s]]
      Fits(s) == {i \in Resealed(durable) : Sha[i] = s}
  IN  [s \in Shas |->
         IF kept[s] = NoRow /\ Fits(s) # {}
         THEN LET i == Lowest(Fits(s))
              IN  [idx |-> i, off |-> open[i].off, len |-> EntryEnd(i) - open[i].off]
         ELSE kept[s]]

OpenAtResume(c) ==
  [i \in Entries |-> IF i \in Resealed(Len(c.st.bytes))
                     THEN [open[i] EXCEPT !.end = EntryEnd(i)] ELSE open[i]]

(* The entries to run, in the order in which a slice takes them: the one cut  *)
(* by the durable boundary, the parked ones, the undone ones behind the scan  *)
(* position, the ones ahead of it.                                            *)
Todo(c, os) ==
  LET durable == Len(c.st.bytes)
      Held(i, end) == Sealed(i) /\ open[i].end <= end
  IN  [cut     |-> {i \in Straddlers(durable) : open[i].off < durable},
       parked  |-> c.parked,
       requeue |-> {i \in 1..toc : /\ i <= c.scan /\ ~RowOf(os, i)
                                   /\ ~Held(i, durable + TailLen(c))},
       scan    |-> {i \in 1..toc : /\ i > c.scan
                                   /\ ~(Marked(i) /\ (Held(i, durable) \/ RowOf(os, i)))}]

(* resume_tail: the tail becomes the buffer, and the entries that end in it   *)
(* count again.                                                               *)
TailRestored(c, w) ==
  LET durable == Len(c.st.bytes)
      ends == {i \in Entries : open[i].end > durable
                               /\ open[i].end <= durable + TailLen(c)}
  IN  IF TailLen(c) = 0 THEN w
      ELSE [w EXCEPT !.buf = tail, !.count = @ + Cardinality(ends)]

-----------------------------------------------------------------------------
Init ==
  /\ job = [state |-> "none", attempts |-> 0] /\ cur = FreshCursor("toc")
  /\ toc = 0 /\ open = [i \in Entries |-> NoMark]
  /\ objects = [s \in Shas |-> NoRow] /\ tail = <<>> /\ parts = <<>>
  /\ push_links = {} /\ push = "open" /\ gc_epoch = 0
  /\ live = Oids \ Shas
  /\ uploads = [u \in 1..MaxUploads |-> [state |-> "none", parts |-> <<>>]]
  /\ object = NoObject /\ sl = Idle /\ late = {} /\ faults = 0

(* import_start, for a staged pack or for a url.  A second start of the same  *)
(* push finds its job and changes nothing.                                    *)
ImportStart ==
  /\ push = "open" /\ job.state = "none"
  /\ job' = [job EXCEPT !.state = "queued"]
  /\ \E phase \in {"toc", "fetch"} : cur' = FreshCursor(phase)
  /\ UNCHANGED <<tables, world, r2, sl, faults>>

(* run_slice on a push that is no longer open.                                *)
Retire ==
  /\ job.state = "queued" /\ push # "open" /\ Done
  /\ UNCHANGED <<tables, world, r2, faults>>

Claim ==
  /\ \E phase \in {"toc", "fetch", "resolve"} :
       /\ Due(phase) /\ Claimed
       /\ sl' = [Idle EXCEPT !.c = cur,
                   !.at = IF phase = "resolve" THEN "bind" ELSE phase]
  /\ UNCHANGED <<cur, tables, world, r2, faults>>

(* fetch_slice: the verified remote pack replaces the payload's parts, or the *)
(* remote's answer rejects the push.                                          *)
FetchStaged ==
  /\ sl.at = "fetch" /\ Continue([sl.c EXCEPT !.phase = "toc"])
  /\ UNCHANGED <<tables, world, r2, faults>>

FetchRejected ==
  /\ sl.at = "fetch" /\ Done
  /\ push' = IF push = "open" THEN "rejected" ELSE push
  /\ UNCHANGED <<tables, gc_epoch, live, r2, faults>>

(* toc_slice: a batch of parsed entries, then the yield that saves how far    *)
(* the batches came.                                                          *)
TocBatch ==
  /\ sl.at = "toc" /\ sl.c.next_idx + TocFanout <= N
  /\ toc' = Max({toc, sl.c.next_idx + TocFanout})
  /\ sl' = [sl EXCEPT !.c.next_idx = @ + TocFanout]
  /\ UNCHANGED <<job, cur, open, objects, tail, parts, push_links, world, r2, faults>>

TocYield ==
  /\ sl.at = "toc"
  /\ \E n \in sl.c.next_idx..Min({N, sl.c.next_idx + TocFanout - 1}) :
       /\ toc' = Max({toc, n})
       /\ Continue([sl.c EXCEPT !.next_idx = n,
                      !.phase = IF n = N THEN "resolve" ELSE "toc"])
  /\ UNCHANGED <<open, objects, tail, parts, push_links, world, r2, faults>>

-----------------------------------------------------------------------------
(* Pass B.  The upload is created before anything else; a known one is bound  *)
(* without a call.                                                            *)
CreateUpload ==
  /\ sl.at = "bind" /\ sl.c.upload = 0
  /\ \E u \in 1..MaxUploads :
       /\ \A v \in 1..(u - 1) : uploads[v].state # "none"
       /\ uploads[u].state = "none"
       /\ uploads' = [uploads EXCEPT ![u].state = "live"]
       /\ sl' = [sl EXCEPT !.c.upload = u]
  /\ UNCHANGED <<job, cur, tables, world, object, late, faults>>

Resume ==
  LET c == sl.c
      w == IF cur.upload = 0 THEN Created ELSE Resumed(c)
  IN  /\ sl.at = "bind" /\ c.upload # 0
      /\ tail' = <<>> /\ objects' = RowsAtResume(c) /\ open' = OpenAtResume(c)
      /\ sl' = [sl EXCEPT !.at = "drain", !.w = TailRestored(c, w),
                          !.took = TailLen(c), !.c.tail = 0, !.c.parked = <<>>,
                          !.todo = Todo(c, RowsAtResume(c))]
      /\ UNCHANGED <<job, cur, toc, parts, push_links, world, r2, faults>>

(* The entry at hand: a waiter of the base just resolved, else the next one.  *)
How ==
  IF sl.wakes # <<>> THEN "wake" ELSE
  IF sl.todo.cut # {} THEN "cut" ELSE
  IF sl.todo.parked # <<>> THEN "parked" ELSE
  IF sl.todo.requeue # {} THEN "requeue" ELSE
  IF sl.todo.scan # {} THEN "scan" ELSE "none"

Item ==
  CASE How = "wake" -> Head(sl.wakes)
    [] How = "cut" -> Lowest(sl.todo.cut)
    [] How = "parked" -> Head(sl.todo.parked)
    [] How = "requeue" -> Min(sl.todo.requeue)
    [] How = "scan" -> Min(sl.todo.scan)

(* The units of a cut entry that are durable already.                         *)
Frag == IF How = "cut" THEN Len(cur.st.bytes) - open[Item].off ELSE 0

Taken ==
  CASE How = "wake" -> [sl EXCEPT !.wakes = Tail(@)]
    [] How = "cut" -> [sl EXCEPT !.todo.cut = @ \ {Item}]
    [] How = "parked" -> [sl EXCEPT !.todo.parked = Tail(@)]
    [] How = "requeue" -> [sl EXCEPT !.todo.requeue = @ \ {Item}]
    [] How = "scan" -> [sl EXCEPT !.todo.scan = @ \ {Item}, !.c.scan = Item]

HasTask == sl.at = "drain" /\ How # "none"

Waits(i) == \E b \in Shas : i \in Range(sl.pend[b])

Passed == How \in {"requeue", "scan"} /\ (Item \in sl.done \/ Waits(Item))

Skip ==
  /\ HasTask /\ Passed /\ sl' = Taken
  /\ UNCHANGED <<job, cur, tables, world, r2, faults>>

(* base_by_id: a base is known once its row is posted, or this slice wrote it.*)
Ready(i) ==
  Base[i] # NoSha =>
    objects[Base[i]] # NoRow \/ \E j \in sl.done : Sha[j] = Base[i]

Park ==
  /\ HasTask /\ ~Passed /\ ~Ready(Item) /\ How # "cut"
  /\ sl' = [Taken EXCEPT !.pend[Base[Item]] = Append(@, Item)]
  /\ UNCHANGED <<job, cur, tables, world, r2, faults>>

(* JobSink::post: the first row of an object stays.                           *)
Posted(q, op) ==
  [s \in Shas |->
     LET mine == {k \in DOMAIN q : Sha[q[k]] = s}
         i    == q[Min(mine)]
     IN  IF objects[s] # NoRow \/ mine = {} THEN objects[s]
         ELSE [idx |-> i, off |-> op[i].off, len |-> op[i].end - op[i].off]]

(* The end of one_entry: the entry is sealed, its row queued or the batch     *)
(* posted, and the entries that waited for it run next, last one first.       *)
Seal(s, op) ==
  LET i    == s.i
      op2  == [op EXCEPT ![i].end = Offset(s.w)]
      rows == Append(s.rows, i)
      full == Len(rows) >= RowBatch
  IN  /\ open' = op2
      /\ objects' = IF full THEN Posted(rows, op2) ELSE objects
      /\ push_links' = IF full THEN push_links \cup s.links ELSE push_links
      /\ sl' = [s EXCEPT !.at = "drain", !.i = 0, !.w.count = @ + 1,
                         !.rows = IF full THEN <<>> ELSE rows,
                         !.links = IF full THEN {} ELSE @,
                         !.done = @ \cup {i},
                         !.pend[Sha[i]] = <<>>,
                         !.wakes = Reverse(s.pend[Sha[i]]) \o @]

(* one_entry, from the read of its bytes to the next await: marked where it   *)
(* starts, appended from its cut, sealed at once when no part is full.        *)
OneEntry ==
  LET i  == Item
      op == [open EXCEPT ![i] = [off |-> Offset(sl.w) - Frag, end |-> NoEnd]]
      s  == [Taken EXCEPT !.i = i, !.links = @ \cup Link[i],
                          !.w.buf = @ \o SubSeq(Entry(i), Frag + 1, Size[i])]
  IN  /\ HasTask /\ ~Passed /\ Ready(i)
      /\ \/ Len(s.w.buf) < PART /\ Seal(s, op)
         \/ /\ Len(s.w.buf) >= PART /\ open' = op
            /\ sl' = [s EXCEPT !.at = "upload"]
            /\ UNCHANGED <<objects, push_links>>
      /\ UNCHANGED <<job, cur, toc, tail, parts, world, r2, faults>>

(* flush_if_full: one part per call, and the seal after the last.             *)
UploadPart ==
  LET u == sl.c.upload
      w == Uploaded(sl.w)
  IN  /\ sl.at = "upload" /\ Alive(u)
      /\ uploads' = WithPart(u, Len(w.etags), Last(w.etags))
      /\ \/ /\ Len(w.buf) >= PART /\ sl' = [sl EXCEPT !.w = w]
            /\ UNCHANGED <<open, objects, push_links>>
         \/ Len(w.buf) < PART /\ Seal([sl EXCEPT !.w = w], open)
      /\ UNCHANGED <<job, cur, toc, tail, parts, world, object, late, faults>>

(* flush_ckpt: the tables and the cursor describe what is in R2 and, as the   *)
(* tail, what is not.                                                         *)
Checkpointed(parked) ==
  LET pos == Len(sl.w.hash)
      ends == {i \in Entries : Sealed(i) /\ open[i].end <= pos}
  IN  [sl.c EXCEPT !.st = [bytes |-> sl.w.hash, count |-> Cardinality(ends)],
                   !.tail = Len(sl.w.buf), !.parked = parked]

FlushCkpt ==
  /\ parts' = sl.w.etags /\ tail' = sl.w.buf
  /\ objects' = Posted(sl.rows, open)
  /\ push_links' = push_links \cup sl.links

(* The end of a drain, with the queue exhausted or the budget spent.  Waiters *)
(* and a cut entry never stop for the budget.                                 *)
Drained(done) ==
  /\ sl.at = "drain" /\ How # "wake"
  /\ How # "none" => ~done /\ How # "cut" /\ ~Passed
  /\ done => sl.pend = NoWaiters

(* The entries of `pending` that wait for b, in the order in which they came; *)
(* parked entries of an earlier slice that this one did not get to are put    *)
(* behind.                                                                    *)
Of(b, q) == SelectSeq(q, LAMBDA i : Base[i] = b)
Waiting(b) == sl.pend[b] \o Of(b, sl.todo.parked)
WaitingSet == Range(sl.todo.parked) \cup UNION {Range(sl.pend[b]) : b \in Shas}

\* Mutant: the waiters of one base are saved in any order.
ParkedSets == Bijection(1..Cardinality(WaitingSet), WaitingSet)

(* The cursor's parked list: the bases in the order of a hash map, that is,   *)
(* any, and the waiters of one base in the order in which they came.          *)
ParkedLists ==
  {q \in Bijection(1..Cardinality(WaitingSet), WaitingSet) :
     \A b \in Shas : Of(b, q) = Waiting(b)}

(* resolve_slice, and commit_slice on a drain that did not finish.            *)
Yield ==
  /\ \E done \in BOOLEAN, parked \in ParkedLists :
       /\ Drained(done) /\ (done => sl.c.phase = "resolve")
       /\ FlushCkpt
       /\ LET c == Checkpointed(parked)
          IN  Continue(IF done THEN [c EXCEPT !.phase = "check"] ELSE c)
  /\ UNCHANGED <<toc, open, world, r2, faults>>

-----------------------------------------------------------------------------
(* check_slice, one span: pages of push_links from where the last one ended,  *)
(* under the epoch pinned at its start.                                       *)
Present(o) == o \in live \/ (o \in Shas /\ objects[o] # NoRow)

Pinned(c) == [c EXCEPT !.epoch = IF @ = NoEpoch THEN gc_epoch ELSE @]

Unchecked(c) == {o \in push_links : o > c.after}

CheckPages ==
  /\ Due("check") /\ UNCHANGED job
  /\ \E after \in {cur.after} \cup Unchecked(cur) :
       /\ \A o \in Unchecked(cur) : o <= after => Present(o)
       /\ LET c == [Pinned(cur) EXCEPT !.after = after]
          IN  cur' = IF Unchecked(c) = {} THEN [c EXCEPT !.phase = "commit"] ELSE c
  /\ UNCHANGED <<tables, world, r2, sl, faults>>

Missing(o) ==
  /\ o \in Unchecked(cur) /\ ~Present(o)
  /\ \A p \in Unchecked(cur) : p < o => Present(p)

(* A missing link may still arrive with another push: the slice fails.  After *)
(* a sweep it is gone: the upload is aborted, then the push rejected.         *)
Swept == cur.recheck \/ Pinned(cur).epoch # gc_epoch

CheckRetry ==
  /\ Due("check") /\ ~Swept /\ \E o \in Unchecked(cur) : Missing(o)
  /\ Err
  /\ UNCHANGED <<tables, world, r2, faults>>

CheckReject ==
  /\ Due("check") /\ Swept /\ \E o \in Unchecked(cur) : Missing(o)
  /\ Claimed /\ sl' = [Idle EXCEPT !.at = "reject", !.c = Pinned(cur)]
  /\ UNCHANGED <<cur, tables, world, r2, faults>>

Aborted(u) == [uploads EXCEPT ![u].state = "gone", ![u].parts = <<>>]

RejectPush ==
  /\ sl.at = "reject" /\ Done /\ uploads' = Aborted(sl.c.upload)
  /\ push' = IF push = "open" THEN "rejected" ELSE push
  /\ UNCHANGED <<tables, gc_epoch, live, object, late, faults>>

-----------------------------------------------------------------------------
\* Mutant: the re-check goes on behind the pages checked before the sweep.
ResetToCheckKeepsPages(c) ==
  [c EXCEPT !.phase = "check", !.epoch = NoEpoch, !.recheck = TRUE]

ResetToCheck(c) ==
  [c EXCEPT !.phase = "check", !.after = 0, !.epoch = NoEpoch, !.recheck = TRUE]

(* commit_slice: a sweep since the check sends the job back before it drains. *)
CommitStale ==
  /\ Due("commit") /\ cur.epoch # gc_epoch /\ cur' = ResetToCheck(cur)
  /\ UNCHANGED <<job, tables, world, r2, sl, faults>>

CommitClaim ==
  /\ Due("commit") /\ cur.epoch = gc_epoch
  /\ Claimed /\ sl' = [Idle EXCEPT !.at = "bind", !.c = cur]
  /\ UNCHANGED <<cur, tables, world, r2, faults>>

(* The drain is checkpointed, then finished: the writer's count must be the   *)
(* header's.                                                                  *)
FinishDrain ==
  /\ sl.c.phase = "commit" /\ Drained(TRUE) /\ FlushCkpt
  /\ IF sl.w.count # N THEN Err
     ELSE /\ sl' = [sl EXCEPT !.at = "last", !.c = Checkpointed(<<>>)]
          /\ UNCHANGED <<job, cur>>
  /\ UNCHANGED <<toc, open, world, r2, faults>>

UploadLast ==
  LET p == LastPart(sl.w)
  IN  /\ sl.at = "last" /\ Alive(sl.c.upload)
      /\ uploads' = WithPart(sl.c.upload, Len(sl.w.etags) + 1, p)
      /\ sl' = [sl EXCEPT !.at = "complete", !.w.etags = Append(@, p)]
      /\ UNCHANGED <<job, cur, tables, world, object, late, faults>>

Complete ==
  /\ sl.at = "complete" /\ Alive(sl.c.upload)
  /\ IF Completable(sl.c.upload, sl.w.etags)
     THEN /\ object' = sl.w.etags /\ uploads' = Aborted(sl.c.upload)
          /\ sl' = [sl EXCEPT !.at = "meta"] /\ UNCHANGED <<job, cur>>
     ELSE Err /\ UNCHANGED <<object, uploads>>
  /\ UNCHANGED <<tables, world, late, faults>>

NoStaging ==
  /\ toc' = 0 /\ open' = [i \in Entries |-> NoMark]
  /\ tail' = <<>> /\ parts' = <<>> /\ push_links' = {}

(* commit_meta, one span: the epoch compare, commit_push, the staging tables. *)
(* commit_push lands or rejects an open push, and fails on a closed one.      *)
CommitMeta ==
  \/ /\ sl.c.epoch # gc_epoch /\ Continue(ResetToCheck(sl.c))
     /\ UNCHANGED <<tables, push>>
  \/ /\ sl.c.epoch = gc_epoch /\ push = "open" /\ NoStaging
     /\ push' \in {"committed", "rejected"}
     /\ sl' = [sl EXCEPT !.at = "cleanup"] /\ UNCHANGED <<job, cur, objects>>
  \/ /\ sl.c.epoch = gc_epoch /\ push # "open" /\ NoStaging /\ Err
     /\ UNCHANGED <<push, objects>>

Commit ==
  /\ sl.at = "meta" /\ CommitMeta
  /\ UNCHANGED <<gc_epoch, live, r2, faults>>

(* The staged parts are deleted, whatever R2 answers.                         *)
Cleanup ==
  /\ sl.at = "cleanup" /\ Done
  /\ UNCHANGED <<tables, world, r2, faults>>

(* recover_dead_upload: R2 no longer knows the upload.  In the commit phase a *)
(* completed object is committed; otherwise the output is rebuilt.            *)
UploadDead ==
  /\ sl.at \in {"upload", "last", "complete"} /\ ~Alive(sl.c.upload)
  /\ sl' = [sl EXCEPT !.at = "dead"]
  /\ UNCHANGED <<job, cur, tables, world, r2, faults>>

Wiped(c) ==
  [FreshCursor("resolve") EXCEPT !.next_idx = c.next_idx, !.parked = c.parked]

Landed == sl.c.phase = "commit" /\ object # NoObject

CommitLanded ==
  /\ sl.at = "dead" /\ Landed /\ CommitMeta
  /\ UNCHANGED <<gc_epoch, live, r2, faults>>

WipeOutput ==
  /\ sl.at = "dead" /\ ~Landed /\ Continue(Wiped(sl.c))
  /\ open' = [i \in Entries |-> NoMark] /\ tail' = <<>> /\ parts' = <<>>
  /\ objects' = [s \in Shas |-> NoRow]
  /\ UNCHANGED <<toc, push_links, world, r2, faults>>

-----------------------------------------------------------------------------
(* The R2 calls a slice may still make before its next fence.                 *)
PartCall(u, n, p) == [op |-> "part", u |-> u, n |-> n, p |-> p, etags |-> <<>>]
CompleteCall(u, es) ==
  [op |-> "complete", u |-> u, n |-> 0, p |-> [b |-> <<>>, h |-> <<>>], etags |-> es]
AbortCall(u) ==
  [op |-> "abort", u |-> u, n |-> 0, p |-> [b |-> <<>>, h |-> <<>>], etags |-> <<>>]

Calls ==
  LET u == sl.c.upload
      n == Len(sl.w.etags)
      Chunk(k) == SubSeq(sl.w.buf, (k - 1) * PART + 1, k * PART)
  IN  CASE sl.at = "upload" ->
             [k \in 1..(Len(sl.w.buf) \div PART) |->
                PartCall(u, n + k, [b |-> Chunk(k), h |-> <<>>])]
        [] sl.at = "last" ->
             <<PartCall(u, n + 1, LastPart(sl.w)),
               CompleteCall(u, Append(sl.w.etags, LastPart(sl.w)))>>
        [] sl.at = "complete" -> <<CompleteCall(u, sl.w.etags)>>
        [] sl.at = "reject" -> <<AbortCall(u)>>
        [] OTHER -> <<>>

(* The slice took a tail out of SQLite, and nothing durable holds it yet.     *)
InTail(i) ==
  /\ sl.at \in {"drain", "upload", "dead"} /\ tail = <<>>
  /\ open[i].end > Len(cur.st.bytes) /\ open[i].end <= Len(cur.st.bytes) + sl.took

(* The tail begins inside an entry that has its row.                          *)
CutTail ==
  \E i \in Entries :
    InTail(i) /\ RowOf(objects, i) /\ open[i].off < Len(cur.st.bytes)

(* The tail holds woken deltas, which are not in index order.                 *)
ShuffledTail ==
  \E i, j \in Entries :
    InTail(i) /\ InTail(j) /\ i < j /\ open[j].off < open[i].off

Fault ==
  /\ faults < MaxFaults /\ faults' = faults + 1 /\ sl.at # "idle"
  /\ CutTail => "cut" \in TailFaults
  /\ ShuffledTail => "order" \in TailFaults

(* An isolate dies, or a slice waits so long that repair requeues its row.    *)
(* None, one or all of the calls it had left reach R2.                        *)
Lose ==
  /\ Fault
  /\ job' = [job EXCEPT !.state = "queued"] /\ sl' = Idle
  /\ \E k \in 0..Len(Calls) :
       late' = IF k = 0 THEN late ELSE late \cup {SubSeq(Calls, 1, k)}
  /\ UNCHANGED <<cur, tables, world, uploads, object>>

(* A slice ends in an error that is not a dead upload.                        *)
Fail ==
  /\ Fault /\ sl.at # "cleanup" /\ Err
  /\ UNCHANGED <<tables, world, r2>>

LateCall ==
  /\ \E q \in late :
       LET call == Head(q)
           rest == (late \ {q}) \cup (IF Len(q) > 1 THEN {Tail(q)} ELSE {})
           fits == call.n <= Len(uploads[call.u].parts) + 1
       IN  \/ /\ ~Alive(call.u) /\ late' = late \ {q} /\ UNCHANGED <<uploads, object>>
           \/ /\ Alive(call.u) /\ call.op = "part" /\ fits /\ late' = rest
              /\ uploads' = WithPart(call.u, call.n, call.p) /\ UNCHANGED object
           \/ /\ Alive(call.u) /\ call.op = "abort" /\ late' = rest
              /\ uploads' = Aborted(call.u) /\ UNCHANGED object
           \/ /\ Alive(call.u) /\ call.op = "complete" /\ late' = rest
              /\ Completable(call.u, call.etags)
              /\ object' = call.etags /\ uploads' = Aborted(call.u)
  /\ UNCHANGED <<job, cur, tables, world, sl, faults>>

(* R2 drops an upload that was never completed.                               *)
UploadReaped ==
  /\ faults < MaxFaults /\ faults' = faults + 1
  /\ \E u \in 1..MaxUploads : Alive(u) /\ uploads' = Aborted(u)
  /\ UNCHANGED <<job, cur, tables, world, object, sl, late>>

-----------------------------------------------------------------------------
(* A sweep takes unreferenced objects away and moves the epoch; commits of    *)
(* other pushes bring objects back.                                           *)
Sweep ==
  /\ gc_epoch < MaxEpoch /\ gc_epoch' = gc_epoch + 1
  /\ live' \in SUBSET live
  /\ UNCHANGED <<job, cur, tables, push, r2, sl, faults>>

Arrive ==
  /\ live' = Oids \ Shas /\ live' # live
  /\ UNCHANGED <<job, cur, tables, push, gc_epoch, r2, sl, faults>>

(* The client's abort; or the janitor's timeout, which only a dead job or the *)
(* last backoff lets pass, since every slice renews began_at.                 *)
PushAbort ==
  /\ push = "open" /\ push' = "dead"
  /\ UNCHANGED <<job, cur, tables, gc_epoch, live, r2, sl, faults>>

PushExpires ==
  /\ push = "open" /\ push' = "expired"
  /\ \/ job.state = "dead"
     \/ job.state = "queued" /\ job.attempts + 1 = MaxAttempts
  /\ UNCHANGED <<job, cur, tables, gc_epoch, live, r2, sl, faults>>

(* The janitor on a closed push: the rows of its ingesting pack; the staging  *)
(* tables, an hour after the last slice renewed began_at.                     *)
JanitorPack ==
  /\ push \notin {"open", "committed"}
  /\ objects' = [s \in Shas |-> NoRow] /\ objects' # objects
  /\ UNCHANGED <<job, cur, toc, open, tail, parts, push_links, world, r2, sl, faults>>

JanitorStaging ==
  /\ push # "open" /\ sl.at = "idle" /\ NoStaging /\ toc > 0
  /\ UNCHANGED <<job, cur, objects, world, r2, sl, faults>>

(* The janitor's arm for dead import jobs.                                    *)
JanitorDeadJob ==
  /\ job.state = "dead" /\ job' = [job EXCEPT !.state = "gone"]
  /\ uploads' = IF cur.upload = 0 THEN uploads ELSE Aborted(cur.upload)
  /\ UNCHANGED <<cur, tables, world, object, sl, late, faults>>

Next ==
  \/ ImportStart \/ Retire \/ Claim \/ FetchStaged \/ FetchRejected
  \/ TocBatch \/ TocYield
  \/ CreateUpload \/ Resume \/ Skip \/ Park \/ OneEntry \/ UploadPart \/ Yield
  \/ CheckPages \/ CheckRetry \/ CheckReject \/ RejectPush
  \/ CommitStale \/ CommitClaim \/ FinishDrain \/ UploadLast \/ Complete
  \/ Commit \/ Cleanup \/ UploadDead \/ CommitLanded \/ WipeOutput
  \/ Lose \/ Fail \/ LateCall \/ UploadReaped
  \/ Sweep \/ Arrive \/ PushAbort \/ PushExpires \/ JanitorPack \/ JanitorStaging
  \/ JanitorDeadJob

Spec == Init /\ [][Next]_vars

-----------------------------------------------------------------------------
Units == ({0} \X {0}) \cup UNION {{i} \X (1..Size[i]) : i \in Entries}
Parts == [b : Seq(Units), h : Seq(Units)]

(* Every table, cursor and upload has its shape; a checkpoint covers whole    *)
(* parts and never more entries than the pack has.                            *)
TypeOK ==
  /\ job.state \in {"none", "queued", "running", "dead", "gone"}
  /\ job.attempts \in 0..MaxAttempts
  /\ cur.phase \in {"toc", "fetch", "resolve", "check", "commit"}
  /\ cur.next_idx \in 0..toc \/ push # "open"
  /\ cur.upload \in 0..MaxUploads /\ cur.st.bytes \in Seq(Units)
  /\ Len(cur.st.bytes) % PART = 0 /\ cur.st.count \in 0..N
  /\ cur.tail < PART /\ cur.scan \in 0..N /\ Range(cur.parked) \subseteq Entries
  /\ toc \in 0..N /\ push_links \subseteq Oids /\ live \subseteq Oids
  /\ \A s \in Shas : objects[s] # NoRow => Sha[objects[s].idx] = s
  /\ tail \in Seq(Units) /\ parts \in Seq(Parts) /\ object \in Seq(Parts)
  /\ push \in {"open", "committed", "rejected", "dead", "expired"}
  /\ gc_epoch \in 0..MaxEpoch /\ faults \in 0..MaxFaults
  /\ sl.at = "idle" <=> job.state # "running"

(* Whatever faults strike, the object that lands carries the hash of exactly  *)
(* its bytes: the hash state of a checkpoint always covers the parts that the *)
(* resumed writer claims.                                                     *)
PackSealed == object # NoObject => Last(object).h = Bytes(object)

(* The object that appears at the pack key is the header and every entry of   *)
(* the staged pack whole and once, under the hash of exactly these bytes: no  *)
(* resume of resume_drain drops, repeats or splits an entry.  It holds when   *)
(* no fault strikes a slice with a CutTail or a ShuffledTail, and fails when  *)
(* one does.                                                                  *)
PackWhole ==
  object # NoObject =>
    LET b == Bytes(object)
    IN  /\ Last(object).h = b
        /\ SubSeq(b, 1, 1) = Header /\ Range(b) = Units /\ Len(b) = Cardinality(Units)
        /\ \A k \in DOMAIN b : b[k][2] > 1 => b[k - 1] = <<b[k][1], b[k][2] - 1>>

(* A committed import serves every object it received: each has a row, and    *)
(* the row addresses the bytes of an entry of that object in the landed pack  *)
(* (under the same condition as PackWhole).                                   *)
RowsPointHome ==
  push = "committed" =>
    \A s \in Shas :
      LET r == objects[s]
      IN  /\ r # NoRow /\ Sha[r.idx] = s
          /\ SubSeq(Bytes(object), r.off + 1, r.off + r.len) = Entry(r.idx)

(* The parts that a slice uploads and dies before it checkpoints are what the *)
(* resumed writer appends again (import.rs:812-815): while the push is open   *)
(* no step puts other bytes under a part number that an open upload has, so a *)
(* late call of a lost slice does no harm (the same condition; a lost         *)
(* ShuffledTail is written again in another order).                           *)
OrphansIdentical ==
  [][push = "open" => \A u \in DOMAIN uploads : Alive(u) =>
       \A n \in DOMAIN uploads[u].parts \cap DOMAIN uploads'[u].parts :
         uploads'[u].parts[n] = uploads[u].parts[n]]_vars

(* An import lands only while everything its objects refer to is there:       *)
(* whatever a sweep took since the check, commit_meta's compare catches.      *)
CheckedAtCommit ==
  [][push = "open" /\ push' = "committed"
       => \A i \in Entries : Link[i] \subseteq live \cup Shas]_vars
=============================================================================
