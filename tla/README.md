# git-edge: a verification development

git-edge is a git server built from a stateless edge Worker, one Durable Object
(`RepoDo`, with a SQLite database) per repository, and pack files in an R2
bucket. This directory holds TLA+ models of its core, the TLC instances that
check them, and TLAPS proofs for instances of any size. Paths below are relative
to the repository root; `server/src/` is the implementation.

## How the system runs

* Code of the Durable Object between two `await`s is one atomic step, a *sync
  span*. Requests, alarms and R2 calls interleave only at awaits.
* A killed isolate loses the span it was in. An **error** inside a job slice does
  not undo the writes that span already made: `land_outcome` commits them together
  with the job row's new state. Half of the models' cases come from this.
* `boot` runs `jobs::repair` at the start of every request and alarm. An alarm
  boots, claims one due row and runs its slice up to the first await in a single
  span, so a slice begins only when `repair` has nothing left to revive.
* `repair` takes a row back after 60 s without a heartbeat, whether its slice is
  dead or merely slow; a slow slice then meets its successor.

## Inventory

| Part | State | Operations | What is hard about it |
|---|---|---|---|
| Edge receive-pack, `edge/mod.rs`, `pack/run.rs` | the worker's memory | begin, index, upload, link check, commit, abort | dies or is slow at any await; its look-ups are stale by the time it commits |
| Push API, `repo_do/mod.rs` | `refs`, `pushes`, `refs_version` | `push_begin`, `push_index`, `push_lookup`, `push_abort`, `commit_push` | two-phase commit against GC; atomic pushes; expiry |
| Index and packs, `store/mod.rs` | `packs`, `objects`, R2 keys | `insert_objects`, `lookup`, `PackWriter` | rows and bytes are written in different places |
| Janitor, `jobs/janitor.rs` | all of the above | expire, mark dead, delete bytes, delete row | awaits between selecting and deleting |
| Jobs, `jobs/mod.rs` | `jobs`, `meta.resurrected.*` | `enqueue`, `dispatch`, `land_outcome`, `repair` | leases, stale slices, bounded resurrection |
| Collector, `jobs/gc.rs` | `gc.*`, `marked`, `gc_frontier`, `gc_seen` | mark, consolidate, sweep, abort, rebuild | several slices over hours against moving refs |
| Build of a pack, `jobs/gc.rs`, `PackWriter` in `store/mod.rs` | `gc.pos`, `gc_parts`, `gc_tail`, a multipart upload | copy, checkpoint, yield, resume, recovery | cursor, etags and tail are saved at different moments; late R2 calls |
| Compaction, `jobs/compact.rs` | the same tables, quarantine | `trigger`, `gc_compact`, `swap`, orphan abort | shares one set of tables with the collector |
| Write barrier, `jobs/gc.rs` | `gc_pending`, `marked.built`, `gc.retire` | drain, fenced swap | opt-in second protocol |
| Ref updates, `repo_do/mod.rs` | `refs`, `reflog`, `head`, pins, `protected`, tokens | `apply_one`, dry run, HEAD adoption | command order, atomicity, credentials that change while a push is open |
| Fetch and export | none | `ls_refs`, `fetch_v2`, signed URLs | readers outliving the grace period |
| Import, `jobs/import.rs`, `PackWriter` in `store/mod.rs` | `import_*`, `push_links`, a multipart upload | fetch, toc, resolve, check and commit slices | resume after any slice, late R2 calls, a lost upload |
| Event outbox, `jobs/events.rs` | `push_events`, its job rows, the alarm | record, drain, retry | order across overlapping slices, lost wake-ups |
| Purge, rate, owner registry, LFS | one table each | see `components` in `PROJECT.json` | two-object protocols |

## Modules

| Module | Content |
|---|---|
| `RepoStore` | the tables, R2, the edge workers, commit and the janitor |
| `GcChain` | extends `RepoStore`: job rows, slices, the collector and compaction |
| `GcBuild` | one build of the collector: the copy cursor, checkpoints, the saved tail, the writer and its multipart upload |
| `BuildPromise` | the build as `GcChain` has it, which `GcBuild` implements |
| `RefTable` | the ref table: ordered command lists, policies, HEAD, reflog, events, the advertisement memo |
| `RefRegister` | the abstract multi-ref register that `RefTable` implements |
| `PushEvents` | the event outbox and the dispatcher that drains it, with the alarm |
| `ImportJob` | the import job over its slices, `PackWriter` and the multipart upload |
| `MCGcChain`, `MCGcBuild`, `MCRefTable`, `MCPushEvents`, `MCImportJob` | constants for TLC |
| `GcChainInv` | the inductive invariant of the store alone with its proof and theorems, the invariant `GcInv` of the collector, general lemmas, and the steps of the build |
| `GcMarkProofs` | the steps of the mark and the phase changes preserve `GcInv` |
| `GcOwnerProofs` | every step preserves `NoStrayBuild` and, with its strengthening `OwnerInv`, `OwnedPhase` |
| `GcChainProofs` | `repair`, compaction and the store's own steps; the theorems about the collector |
| `PushEventsProofs` | the inductive invariant of the outbox, its proof and theorems |
| `RefTableProofs` | induction over lists, the inductive invariant of the ref table, its theorems and the refinement |
| `ImportInv` | the shapes `Types` of the import's state, lemmas on its operators, and the steps of the drain |
| `ImportProofs` | the other steps, the invariant `TSeal` of hashes and parts, and the theorems about the import |

### RepoStore

`refs`, `refs_version`, `gc_epoch`, `packState`, `packPush`, `objects`,
`pushState` and `pushEpoch` are the columns of the tables of the same names; `r2`
is the set of packs whose bytes are stored; `edge[u]` is the memory of the worker
that serves push `u`; `doomed` is the list a janitor slice has selected.

One action per call: `PushBegin`, `PushNoPack`, `PushIndexFirst`,
`PushIndexRows`, `PackFinish`, `PushIndexTail`, `PushLookup` (one chunk of the
link check), `EdgeFail` (any error, followed by `/_do/push/abort`), `EdgeCrash`;
`CommitRejected`, `CommitAtomicFailed` and `CommitPush` are the outcomes of
`commit_push`; `JanitorMark`, `JanitorSelect`, `JanitorDeleteBytes`,
`JanitorDeleteRow`, `JanitorStop` are the spans of a janitor slice.

### GcChain

`gc` is the record of the `gc.*` meta rows, with chain 0 for "no chain";
`bitmap[p]` is the set of objects whose bit is set in `marked.bitmap`; `jobs` holds
the rows of the four gc kinds; `slices[s]` is the memory of the slice with lease
`s`. The groups of actions follow the code: the mark (`GcMark*`, `Mark*`), the
build (`GcConsolidate*`, `Build*`, `FinishBuild`), retirement (`GcSweep*`,
`GcCompact*`, `Swap`), the ends of slices (`SliceYield`, `SliceStale`,
`SliceErr`, `SliceKill`) and `Repair`. `CommitAndEnqueue` and
`AtomicFailedAndEnqueue` wrap the commit of `RepoStore` with the rows it queues.

A step that may fail half way has a `failed` parameter or an action of its own
(`MarkCommitErr`, `GcConsolidateEmpty`, `GcCompact`, `Swap`, `GcSweep`): these are
the places where the code has a fail point or several dependent writes whose
order it argues about.

A build in `GcChain` has no copy cursor. Its slices post rows of marked objects
(`BuildRows`), yield and are resumed; one of them comes to the end of the input,
posts what is missing and waits for its upload (`BuildComplete`, `BuildUpload`); a dead
upload starts it over (`BuildRestart`). `BuildPromise` states these steps on their own,
and `GcBuild` implements it.

### GcBuild and BuildPromise

`pos`, `parts`, `tail` and `fails` are `gc.pos`, `gc_parts`, `gc_tail` and `gc.fails`,
`rows` the `objects` rows of the build pack with their ordinal, offset and length, `meta`
what `finish_build` writes into its `packs` row; `uploads` and `object` are R2, `sl[s]`
is the memory of the slice with lease `s`. Bytes are units `<<entry, k>>`, as in
`ImportJob`, and the hash of a pack is the sequence it covers.

A slice begins (`Begin`): a fresh pack, an upload without a checkpoint that is aborted
(`AbortOrphan`) and created again (`CreateUpload`), or a resumed writer (`Resumed`) with
the tail folded in or, when an earlier slice took the tail and was lost, the cursor
rewound to the durable boundary (`Folded`). It copies entries whole (`CopyEntry`) or in
fragments (`StreamEntry`, `CopyFragment`, `FragmentsDone`), in chunks that `EntryDone`
ends anywhere, and flushes after each (`Flush`): full parts go to R2 one call at a time
(`UploadPart`), then rows, etags, tail and cursor are written behind the fence in one
span (`Persist`, `Checkpointed`). `Yield` is the same with the tail saved. At the end of
the input the rows left over are posted (`Finish`), the last part is uploaded
(`UploadLast`) and the upload completed (`Complete`). A call may fail, with or without
having been carried out (`CallFails`); `MpuErr` then looks for the object, and recovers,
fails once, or starts over with a fresh pack. `Requeue` takes the row from a slice that
runs on as a stale one, up to its next fence.

`BuildPromise` sees of this which marked entries have rows, whether the object of the
current build pack is there, and whether the pack is live.

### RefTable and RefRegister

`RepoStore` lets a commit refuse any set of its refs; `RefTable` has the reasons.
`refs`, `head`, `refs_version`, `reflog`, `pins`, `protected`, `tokens`, `pushes`,
`outbox` and `dropped` are the tables and meta rows of those names, `memo` is the
`RefsMemo` in memory. `Accepts` is what `apply_one` demands of one command, `Applied`
what one round of the write loop leaves, `ApplyAll` the loop in client order (a
recursive function over the list), `Walk` the recursive query of `ff_ancestor`,
`DryRun` the pass an atomic push makes first, `Commit` the whole of `commit_push` with
promotion of the pack, HEAD adoption, version, outbox row and push row; `ImportCommit`
is the same span entered from an import, which then adopts the remote's HEAD. Tokens
are minted, expire and are revoked, refs are pinned and protected, and a sweep moves
`gc_epoch`, at any time between the begin and the commit of a push.

`RefRegister` says what is left when tokens, packs, the loop and the memo are
hidden: refs move in single steps, a pinned ref never, a protected one only forward,
HEAD's target is not deleted, and HEAD resolves wherever there is a branch. The
refinement maps `frozen` to the pinned names and `guarded` to the union of the
patterns.

### PushEvents

`rows` and `seq` are `push_events` and its counter, `jobs` the `push_event` rows,
`alarm` whether the object's alarm is set, `slice[s]` the batch a slice has read
and whether its current POST arrived, `late` the POSTs of killed isolates,
`arrived` what the receiver saw. `CommitEvent` is the span of a commit (boot with
`repair`, the row or the drop count, `enqueue`, `rearm`), `AlarmFires` the span
from boot to the first POST, `PostOk` and `PostErr` an answer with the landing of
the slice, `Wake` any other request. `GoStale` covers both a slice that died and
one that is only slow, so two slices may send from one outbox.

### ImportJob

`job` and `cur` are the row and its cursor, `toc`, `open`, `objects`, `tail`,
`parts` and `push_links` the tables, `uploads` and `object` R2, `sl` the slice in
memory. Bytes are units `<<entry, k>>`, so that an entry cut by a part boundary,
written twice or left as a fragment is told apart from a whole one, and the hash of
a pack is the sequence it covers. A slice is claimed (`Claim`, `CommitClaim`),
binds its upload, rebuilds its queue from the tables (`Resume`: lost entries,
straddlers, rows past the end, the tail), runs entries (`OneEntry`, `UploadPart`,
`Park`, `Skip`) and yields with a checkpoint (`Yield`); the check pages through
`push_links` under a pinned epoch; the commit slice finishes the drain, uploads the
last part, completes and commits. `Lose` takes the row away from a slice whose R2
calls then land late (`LateCall`), `Fail` is an error, `UploadReaped` R2 forgetting
the upload, `UploadDead` with `CommitLanded` or `WipeOutput` the recovery.

## What is promised

| Property | Statement |
|---|---|
| `LiveClosed` | every ref points at a live object and live objects link to live objects only |
| `LiveBytes` | a live pack has its bytes in R2 and has rows |
| `OnlySweepForgets` | an object leaves the live index only in a step that moves `gc_epoch`, so that a push with stale look-ups is refused |
| `SurvivorsClosed` | a finished mark that still matches the refs, with the packs left alone, is closed |
| `BuildExact` | an object at a build pack's key is the header and every marked entry, verbatim, once and in order, under the right hash |
| `RowsExact` | by then every marked entry has the row that addresses it, and the `packs` row that goes live has the right count, size and commit span |
| `CursorTracksUpload` | the saved cursor is exactly where the durable bytes and the tail end, neither ahead (entries would be skipped) nor behind |
| `ReplayIdentical` | no part number of an open upload ever gets other bytes than it had, so the etags of a stale slice and of its successor name the same parts |
| `KeepsPromise` | `GcBuild` implements `BuildPromise` |
| `BuildEnds` | every build ends |
| `OwnedPhase` | a published phase has a row, queued, running or dead, of the kind that continues it |
| `NoStrayBuild` | an unfinished build pack is the current chain's |
| `ChainEnds` | every chain ends |
| `RegisterSpec` | `RefTable` implements `RefRegister` |
| `ReflogReplays` | the reflog rows of a name chain from absent to its present value (of the rows ever written: that the janitor drops rows after 90 days, `jobs/janitor.rs:246-257`, is not modelled) |
| `HeadResolves` | a repository with a branch has a HEAD that resolves |
| `EventsMirrorReflog` | events, delivered and waiting, and pushes that moved a ref are one to one but for the counted drops, and an event lists exactly the reflog rows of its push, in their order |
| `MemoServesRefs` | a memo of the current version shows the refs as they are |
| `LandsUnderCredential` | a ref moves only under a credential that stands at that moment and covers it |
| `InOrder` | the receiver sees no event for the first time before an earlier one |
| `NothingLost` | an event leaves the outbox only after the receiver saw it |
| `EveryEventOwned` | every event in the outbox has a job row or a slice that will see to it |
| `Delivered` | every event is delivered and leaves the outbox |
| `PackSealed` | what appears at the pack key carries the hash of exactly its bytes, whatever faults strike |
| `PackWhole` | what appears at the pack key is the header and every entry whole and once |
| `RowsPointHome` | after a committed import every object has a row that addresses its bytes |
| `CheckedAtCommit` | an import lands only while all its links are there |
| `OrphansIdentical` | while a push is open, no part number of its upload gets other bytes than it had |

## Runs

| Run | Instance | Result |
|---|---|---|
| `gc_push` | one push that re-links an unreachable object, one slice, no faults | holds |
| `gc_faults` | no push, collection or compaction of two packs, two slices, one fault (error, kill, or a slow slice requeued), fairness | holds, with `ChainEnds` |
| `gc_live` | a push without a pack that moves the ref at any point of a collection of one pack, two slices, one fault, fairness | `ChainEnds` holds |
| `gc_build` | five entries of two candidates in parts of three units, two slices at once, any number of yields, two faults, fairness | holds, with the refinement and `BuildEnds` |
| `gc_slate` | a repository with garbage only; the sweep fails once | `CleanSlate` fails |
| `gc_queue` | as `gc_push` | `OneQueuedPerKind` fails |
| `refs` | two branches and a tag, two commits, two pushes, one token, a cap of two refs, an outbox of one event, one sweep | holds, with the refinement |
| `refs_atomic` | the same | `AtomicAllOrNothing` fails |
| `outbox` | three commits, two slices, two job rows, batches and outbox of two, two faults, fairness | holds, with `Delivered` |
| `import` | six entries (a chain of deltas before its base, an object twice), parts of four units, two uploads, two faults, one sweep | holds while no fault strikes a slice with a `CutTail` or a `ShuffledTail` |
| `import_tail` | the same with one fault, which may strike a `CutTail` | `PackWhole` fails |
| `import_marks` | the same with one fault, which may strike a `ShuffledTail` | `RowsPointHome` fails |

Bounds. `MaxVersion`, `MaxChains` and `MaxFaults` bound counters that the code
leaves unbounded; `JobIds` is the number of rows the table can hold at once and
`Packs` the number of pack ids ever used. One fault is enough for every retry,
rebuild (`gc.fails` reaches 1, then the rebuild) and resurrection to happen,
because each of them starts with one failure; two slices are the least that lets a
stale slice meet its successor. In `gc_faults` there are two candidate packs, so
that compaction happens, and no push; in `gc_live` a push moves the ref, so that
the walk, the build and the sweep are aborted, also by a row that repair brought back,
but one pack gives compaction nothing to do. In `gc_build` part boundaries fall
inside the entry being streamed, at an entry's end and inside an entry already
finished, a slice may yield before its first part is full, and two faults give a tail
that is lost and replayed, a stale slice beside that replay, and a dead upload that
is retried and then rebuilt; two faults begin at most three builds and three uploads,
so the bounds on these cut nothing off. In `refs` a cap of two and three names make the cap
bite inside a list; an outbox of one event drops the second push's unless
the first was delivered; the lists hold creates, a fast-forward, a rewind, deletes, a
rename and a ref named twice; HEAD starts on the second branch, so a dangling HEAD
can adopt a name before it. In `outbox` three attempts with two faults keep a row
from dying of errors, which is the premise of `Delivered`, and a batch of two
with three events makes full and partial batches. In `import` part boundaries fall between
entries and inside one, a delta with two waiters of its own is the least whose wakes are
neither in index order nor reversed, and two faults give a lost slice followed by a lost
recovery. The proofs remove the bounds of the store, the collector (more than one
chain included), the outbox, the ref table and, for `TypeOK` and `PackSealed`, the
import.
Deadlock is not checked: an idle repository may stop.

Five runs show where a comment and the code differ.

* `gc_slate`: with nothing to repack a chain has no build pack. If its sweep fails
  after marking the cohort dead, and a push then makes the next mark abort the
  chain, `wipe_all` leaves the rows of the dead packs, and the janitor never reaps
  a dead pack that has rows.
* `gc_queue`: `enqueue` looks for a queued row only when it inserts; a running row
  that goes back to the queue makes a second one.
* `refs_atomic`: the dry run of `--atomic` judges each command against the table as
  it was. Two creates with room for one pass it; the second is refused in the write
  loop, after the first has landed.
* `import_tail`: a yield posts the row of the entry that straddles the durable
  boundary and saves its rest as the tail. The next slice deletes `import_tail` when
  it takes it. If that slice is lost, the one after it looks for lost entries before it
  deletes the rows past the boundary; the straddler still has its row, is not
  recognised, and is written again from its first byte behind its own fragment.
  `RowsPointHome` fails in the same way.
* `import_marks`: deltas woken by a chain of bases are written last first (`run_wakes`
  pops a stack), here 1, 3, 2, and a yield saves them as the tail. If the slice that
  takes the tail is lost, the next one deletes their rows and requeues them in index
  order. Should it stop for the budget after 1 and 2, the output ends where the old
  mark of 3 ends; marks are never deleted, so the slice after it takes 3 for written
  (the requeue query and the entry count both read `import_open`). The count check
  passes and the import is committed without entry 3. The same reordering makes parts
  differ from the orphans that `resume_drain` calls "deterministic-identical to what
  the resumed writer re-appends".

`TailFaults` names the two kinds of tail whose slice a fault may strike, a tail that
begins inside an entry with a row (`CutTail`) and one whose entries are not in index
order (`ShuffledTail`). The run `import` excludes both, and lets faults strike every
other slice, those with another tail included; there `OrphansIdentical` holds too.

The first two are harmless to readers.

Read on the way, and not runs of their own: an import adopts the remote's HEAD
without moving `refs_version`, so a memo may show the HEAD before it (which is why
`MemoServesRefs` speaks of the refs only, while the comment on `refs_snapshot` says
that a push is the only writer); `repair` does not revive a dead `push_event` row,
so after eight failed slices its events wait for the next commit to queue a new row;
an entry whose object has its row through another entry counts as a straddler and
discards the tail at every yield.

### Fairness

`GcFairness` assumes that a due row is eventually run (the alarm is set to the
earliest queued row), that a slice which is not killed goes on, and that `repair`
runs (every request and alarm boots). It is weak fairness except for
`BuildComplete`: a build may yield any number of times and still comes to the end of
its input, which is `BuildEnds` of `GcBuild`. Which faults happen is not constrained
beyond their number.

`Fairness` of `GcBuild` assumes that a queued row is run, that a slice holding it goes
on when an R2 call returns, and that the budget does not end every slice at its first
check: a slice that comes to copy again and again does copy some time (strong
fairness). A slice starts with a fresh budget and the check fails at 80 % of it, so
the code guarantees more, at least one entry or fragment per slice.

`Fairness` of `PushEvents` assumes that time passes (a row becomes due, a running one
stale), that a slice in memory sends and hears an answer, that the object is woken
again (its janitor row sets an alarm every 15 minutes), and that an alarm that is
set serves every due row in turn. The last is strong fairness: rows are picked by
`run_at`, and a requeued row goes behind the others.

## Proofs

All theorems hold for arbitrary sets of objects, packs, refs, pushes, job rows and
slices, any link structure, and any bounds. They assume only the named assumptions
of `RepoStore` and `GcChain`: `Null` is no id, `Links` is a function into sets of
objects, packs are naturals (ids are ordered), clients send well-formed packs and
commands (`ClientAssumption`), the store starts closed (`SeedAssumption`), the bounds
are naturals (`BoundsAssumption`), and `JobIds` is finite.

**The store** (`GcChainInv`). `LiveClosed` is not inductive: a commit makes a
pack live, so one must know what its edge worker has checked. The invariant adds
that a worker past its upload has its pack's bytes stored and its rows posted while
the push is open, and that every link of the pack is in `todo`, in the pack, or was
live at the same `gc_epoch`; that packs of open pushes are owned by one push; and
that doomed packs are dead. The last part is what makes the R2 delete, which is
awaited, safe.

**The collector** (`GcChainInv`, `GcMarkProofs`, `GcChainProofs`). `GcInv` is the
conjunction of

* `GcTypeOK` and the invariant `StoreInv` of the store;
* `ChainIds`, `ChainShape`: chain numbers are below the counter, and which `gc.*`
  rows exist together (a phase, its start version, its build pack);
* `Cohort`: the cohort's packs are live until retirement and dead only together with
  a surviving copy;
* `NewPack`: the build pack's rows are marked objects, and all of them once its
  upload may have completed;
* `Marks`, `Walk`, `SliceWalk`: every object seen and found has its bit set, and its
  links are seen or in the frontier (or in the batch a slice holds); roots are seen or
  in the frontier. With the frontier empty this is `SurvivorsClosed`. It needs
  `refs_version` unchanged and the cohort live, and survives an error after any
  prefix of `commit_ids`;
* `SliceBuild`, `OneBuilder`: at most one consolidate row can be active for a mark
  chain. The fence of a mark chain's build compares the lease and the chain but not
  the pack, so a second builder would not be noticed; it is ruled out by the guard
  that starts a chain, by the order of claim and repair, and by the resurrection
  counter;
* `SurvivorsClosed`.

Each action has one lemma per conjunct it can disturb; a step lemma per action puts
them together and the theorems follow by PTL. `OnlySweepForgets` follows from the same
invariant. Most leaves name the prover Zenon: they are first-order, and the long
modules check several times faster with it than through the SMT translation.

**What the collector leaves behind** (`GcOwnerProofs`; the theorems `GcNoStrayBuild`
and `GcOwnedPhase` are in `GcChainProofs`), on top of `GcInv`.
`NoStrayBuild` is preserved by every step as it stands: each abort, rebuild and
restart dead-marks the pack that `gc.new_pack` names. `OwnedPhase` is not inductive;
`OwnerInv` adds

* `FreshBuilders`, `FreshSweepers`: while a chain stands, a consolidate or sweep row
  that may still run serves it. `enqueue` is satisfied with any queued row of the
  kind, so a row of an older chain would be taken for the successor and delete itself;
* `Walkers`: a slice of the walk holds no row but a `gc_mark`, so an aborted walk
  deletes no builder;
* `Owned`: the row that serves the phase is not held by a slice whose chain fence is
  already broken, because such a slice deletes its row.

A stale slice may find its row held again by a younger lease; it then changes
nothing, and `Owned` is kept by the younger one. `repair` removes dead rows only of
kinds it leaves queued, and a row it revives names no chain.

**The outbox** (`PushEventsProofs`), for any sets of job rows and slices, any batch
size and any number of events and faults, from `OutboxAssumption` (the bounds are
naturals, a batch is not empty) and `IdsAssumption` (0 is no id). `InOrder` is not
inductive: a slice sends the least row of a batch it read long ago. `OutboxInv` adds
`BatchClosed` (below a row of a batch there is nothing but that batch and what the
receiver saw), `GotArrived` and `LateClosed` (the same for a POST still on its way).
A new batch is closed because it is a prefix of the outbox (`OldestDown`) and what is
not in the outbox was seen (`NothingLost`). For `EveryEventOwned` the heart is that
a batch which left a row behind is full (`OldestFull`), so its slice ends with
Continue, and that a slice without its lease takes no cover away (`CoversReleased`).

**The ref table** (`RefTableProofs`), for any names, commits, parent relation,
tokens, patterns and pushes, any command lists of any length, and any bounds, from
`RefsAssumption` (the constants have their types, names are numbered in name order,
`NoOid` is no commit, the default branch is a branch, and the bounds are naturals). The write loop is a recursive
function over the list, so what it computes needs induction over its length. The
library's induction rules take an operator as a parameter; here a fact about every
round is a *set* of loop states, and `LoopInvariant` says: a set that holds the state
before the loop, and with every state also the one `Applied` makes of it, holds the
state after the loop. It rests on `CountUp`, induction over `0..n` for a set of
numbers, which follows from the least element of a set of naturals (`LeastNat`).
`FlattenAppend`, the same way, says what one more list adds to a flattened list of lists.

`EventsMirrorReflog` relates two computations of one commit: the loop logs a row as a
command lands, and `EventRefs` afterwards filters the commands by their results.
`EventAppend` and `LoggedAppend` say what one more round adds to either, and
`AppliedStamped` that a round keeps them equal, a refused command adding to neither;
`LandedEvents` adds the new event, or the drop, to the history and `HandOver` moves
one from the outbox to the delivered.

The set is `Loop(p)`, with everything the theorems need of the loop: the rows it logs
extend the reflog and replay to the refs it leaves, no pinned ref and no ref outside
the push's scope has moved, a protected one has moved forward only, HEAD's target is
there, and the refs are under their cap. `LoopStart` and `LoopRound` are its two
premises. The
inductive invariant `IInv` is `TypeOK`, `ReflogReplays`, `HeadResolves`,
`EventsMirrorReflog`, `LogCommitted` (a reflog row is of a committed push, so a commit
finds none of its own), the finiteness of the refs and of the committed pushes (the
bounds speak of cardinalities), and `MemoBehind`: a memo is never of a later version
than the table, and one of the current version shows the refs. `MemoServesRefs` alone
is not inductive, because a memo of a later version would be taken for current once
the counter reached it. `HeadResolves` is kept by the loop because no command deletes
the ref that HEAD names and, where HEAD dangles, by `AdoptHead` after it
(`AdoptedBranch`). `LandsUnderCredential` is an action property of `CommitPush` and
`ImportCommit` (`CommitCredential`); all other steps leave refs and reflog alone.

`RefImplements` shows that every step of `RefTable` is a step of `RefRegister` or
stutters: a commit, however many commands land, is one `Transact`
(`CommitTransacts`), and pin, protect and their inverses are steps of `Govern`
(`QuietGoverns`); the other steps leave what the register shows alone. `Walk(o, Oids)` is the ancestry the register
asks of a guarded ref; the walk the code makes through recorded commits is within it
(`AncestryFacts`).

**The import** (`ImportInv`, `ImportProofs`), for any pack (any number of entries, any
sizes, bases and links), any part size of at least two units, any number of attempts,
uploads, faults and sweeps, and whatever tails the faults strike (`TailFaults` is
any), from `ImportAssumption` (the constants have their types, a base is an object of
the pack and no entry is its own base). `TypeOK` is proved from `Types`, the shape of
everything a slice holds in memory or leaves in the tables and in R2: the cursor, the
queue, the waiters, the writer, the calls that are still on their way. The shapes say
more than types: an upload is known wherever a checkpoint is, a buffer between two
entries is shorter than a part, a checkpoint is a whole number of parts and never
ahead of the writer, an entry that the checkpoint cuts is not the one being written.

`ImportSealed` needs `TSeal` beside it: the writer's hash is the bytes of the parts it
claims, and the checkpoint of the cursor, of the slice and of a lost slice's late
`complete` is each the bytes of a prefix of the parts in the table (`CkptIn`). It is kept
because a resumed writer claims exactly the parts that its checkpoint counts
(`OpenedFacts`), because the table is only ever replaced by a longer list of the same
writer or emptied together with the checkpoint, and because R2 completes an upload only
from the parts that the call names. So a late `complete` of a lost slice, or one of a
slice that resumed in between, can only produce a pack whose trailer is right.

`Bytes` is a recursive function over a list of parts; `BytesAppend`, by `CountUp`, says
what one more part adds.

`ChainEnds`, `BuildEnds` and `Delivered` are only model-checked: liveness under fairness
is outside the prover's reach. So are all properties of `GcBuild`: that a copy resumed
from any checkpoint repeats the lost one byte for byte is a statement about recursive
functions over whole packs. What the collector's theorems say of a build pack is relative
to `BuildPromise`. So are, too, `PackWhole`, `RowsPointHome`, `CheckedAtCommit` and
`OrphansIdentical` of the import. What a resumed slice rebuilds is a sorted queue over the
tables, and these say that after any number of resumes each entry was written whole
and once. This rests on every drain repeating the order of the lost one, from any
checkpoint: a relation between two executions of the drain, where the theorems here
have invariants of single states. It is left to TLC.

## Not modelled

* In `GcChain`: the copy of a build (`gc.pos`, `gc_parts`, `gc_tail`, checkpoint, rewind and
  replay). `BuildComplete` posts all that is missing of the marked set in one step,
  `SliceYield` and `GcConsolidateResume` neither save nor read a cursor; that this is what
  a build amounts to is `KeepsPromise` of `GcBuild`. Also legacy chains without `gc.chain`; the write barrier; an error in the
  middle of `gc_mark`'s init, which is redone from scratch because `gc.started_at` is
  written last; packs whose row count disagrees with their metadata; attempt counts
  and times, which are nondeterministic.
* In `GcBuild`: the guards a slice takes before its build (`stray`, the phase, `cohort_live`,
  `refs_moved`), which are `GcChain`'s, as are an abort or a new chain beside a build; the
  errors for a corrupt `gc.pos` or `gc_parts`, for a marked entry without its row and for a
  kind that differs from the header; an upload whose `create` lands after its slice was
  lost, which nobody knows of; a pack whose trailer crosses a part boundary. A sha is marked
  in one candidate only (`GROUP BY sha` in the mark, the dedup bitmaps of compaction).
* In `RefTable`: the webhook is configured (without it `record_push_event` does nothing);
  reflog expiry after 90 days; ref name syntax (a name outside it is outside `Names`), the glob
  syntax of scopes and patterns, idempotent re-begins, replies.
* In `PushEvents`: the payload, and rows of other kinds, which only wake the object.
* In `ImportJob`: a commit over the storage quota fails its slice in the code and ends the
  job in the model; an entry cut by the boundary that is not ready, and a lost writer
  without its seal, are errors in the code and steps the model does not take. Bases
  outside the pack, the arm of
  `resume_drain` for an upload without a checkpoint and the "missing base" error
  (neither can be reached from the cursors the code saves), the upload that is
  orphaned when its `create` is lost, a second import after a dead one, the retries
  inside one R2 call.
* Without a module: the write barrier, the purge, readers (fetch, signed URLs,
  export), the rate limiter and owner registry, LFS, the wire protocol. Readers and the
  grace period need a clock; the barrier is a second protocol, off by default; the
  others share no state with the modules here. `components` in `PROJECT.json` has the
  reason for each.

Definitions whose comment begins with "Mutant:" are deliberate mistakes. Each is a
plausible bug put in place of the definition that follows it, to see that a
property notices.

## Next

1. `ObjectStore`: an abstract store (objects appear, and vanish only when the epoch
   moves) that `RepoStore` and `GcChain` implement.
2. `GcBarrier`: the write barrier, its drain and its fenced swap.
3. A timed janitor: grace periods against readers and signed URLs, the slots of open
   pushes.
4. The purge against a repository created again under the same name.
