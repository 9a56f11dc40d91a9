------------------------------ MODULE GcChain ------------------------------
(***************************************************************************)
(* The garbage collector of one repository, running beside pushes and the  *)
(* janitor: the chain gc_mark -> gc_consolidate -> gc_sweep, compaction    *)
(* (gc_compact -> gc_consolidate with its in-place swap), the aborts that  *)
(* wipe a chain, and the job rows and slices that drive them.              *)
(*                                                                         *)
(* A job slice runs in sync spans separated by awaits.  An error inside a  *)
(* slice does not roll its span back (land_outcome commits what was        *)
(* written), a kill does.  repair may requeue a slice's row while the      *)
(* slice still runs, so a stale slice may meet the one that replaced it.   *)
(*                                                                         *)
(* Abstracted: a marked bitmap is the set of objects it stands for; ages,  *)
(* run_at and attempt counts are nondeterministic; which packs compaction  *)
(* picks is any set of at least two.  A build has no copy cursor (gc.pos), *)
(* no parts and no saved tail: its slices post rows of marked objects, and *)
(* the last one completes the upload with all of them there.  That is      *)
(* BuildPromise, which GcBuild, with cursor, checkpoints, replays and      *)
(* tail, implements.  Not modelled here: the write barrier                 *)
(* (GE_GC_BARRIER), chains older than gc.chain, and packs whose row count  *)
(* disagrees with their metadata.                                          *)
(***************************************************************************)
EXTENDS RepoStore

CONSTANTS
    JobIds,          \* jobs.id
    Slices,          \* lease ids of job slices
    Round,           \* frontier rows popped at once (ROUND)
    MaxResurrect,    \* repair revives a dead gc row at most this often (3)
    MaxChains,       \* bound on the number of chains, for model checking
    MaxFaults        \* bound on errors, kills and stranded slices

ASSUME GcAssumption ==
    /\ Null \notin JobIds /\ Null \notin Slices
    /\ Round \in Nat \ {0}
    /\ {MaxResurrect, MaxChains, MaxFaults} \subseteq Nat
    /\ IsFiniteSet(JobIds)

VARIABLES
    gc,              \* the meta rows gc.*
    marked,          \* table marked: the candidate packs (the cohort)
    bitmap,          \* marked.bitmap: pack -> the objects marked in it
    frontier,        \* table gc_frontier
    seen,            \* table gc_seen
    jobs,            \* table jobs, gc kinds only
    resurrected,     \* meta.resurrected.<kind>
    strikes,         \* meta.compact.quarantine: strikes per pack
    slices,          \* the running slices' memory
    lastChain,       \* the chain ids used so far (they are random)
    faults           \* errors, kills and stranded slices so far

chainVars == <<gc, marked, bitmap, frontier, seen>>
jobVars == <<jobs, resurrected, slices>>
gcVars == <<gc, marked, bitmap, frontier, seen, jobs, resurrected, strikes,
            slices, lastChain, faults>>
vars == <<storeVars, gcVars>>

GcKinds == {"gc_mark", "gc_consolidate", "gc_sweep", "gc_compact"}

\* Chain 0 is "no chain": an absent gc.chain, or a job row without one.
NoGc == [chain |-> 0, mode |-> "mark", phase |-> "unset", refs_version |-> 0,
         new_pack |-> Null, fails |-> 0]
NoBits == [p \in Packs |-> {}]
NoRow == [kind |-> "none", chain |-> 0, state |-> "none", lease |-> Null]
NoSlice == [pc |-> "none", job |-> Null, chain |-> 0, pack |-> Null,
            batch |-> {}, hits |-> {}, bits |-> NoBits]

GcTypeOK ==
    /\ StoreTypeOK
    /\ gc \in [chain : Nat, mode : {"mark", "compact"},
               phase : {"unset", "build", "sweep"}, refs_version : Nat,
               new_pack : Packs \cup {Null}, fails : Nat]
    /\ marked \subseteq Packs
    /\ bitmap \in [Packs -> SUBSET Oid]
    /\ frontier \subseteq Oid
    /\ seen \subseteq Oid
    /\ jobs \in [JobIds -> [kind : GcKinds \cup {"none"}, chain : Nat,
                            state : {"none", "queued", "running", "dead"},
                            lease : Slices \cup {Null}]]
    /\ resurrected \in [GcKinds -> Nat]
    /\ strikes \in [Packs -> Nat]
    /\ slices \in [Slices -> [pc : {"none", "start", "loop", "read", "rest", "build", "upload"},
                              job : JobIds \cup {Null}, chain : Nat,
                              pack : Packs \cup {Null}, batch : SUBSET Oid,
                              hits : SUBSET Oid, bits : [Packs -> SUBSET Oid]]]
    /\ lastChain \in Nat
    /\ faults \in Nat

GcInit ==
    /\ StoreInit
    /\ gc = NoGc
    /\ marked = {}
    /\ bitmap = NoBits
    /\ frontier = {}
    /\ seen = {}
    /\ jobs = [j \in JobIds |-> NoRow]
    /\ resurrected = [k \in GcKinds |-> 0]
    /\ strikes = [p \in Packs |-> 0]
    /\ slices = [s \in Slices |-> NoSlice]
    /\ lastChain = 0
    /\ faults = 0

-----------------------------------------------------------------------------
(* The jobs table. *)

HasQueued(js, kind) == \E j \in JobIds : js[j].kind = kind /\ js[j].state = "queued"

FreeRow(js) == CHOOSE j \in JobIds : js[j] = NoRow

\* enqueue: a row of the kind that is already queued makes it a no-op.
Enqueue(js, kind, chain) ==
    IF HasQueued(js, kind) THEN js
    ELSE [js EXCEPT ![FreeRow(js)] =
             [kind |-> kind, chain |-> chain, state |-> "queued", lease |-> Null]]

\* The model's table has room for the row (it is finite, the code's is not).
CanEnqueue(js, kind) == HasQueued(js, kind) \/ \E j \in JobIds : js[j] = NoRow

IsQueued(j, kind) == jobs[j].kind = kind /\ jobs[j].state = "queued"

\* The counter that bounds the resurrection of a kind: a builder of a compact
\* chain is counted against gc_compact.
Counter(kind) ==
    IF kind = "gc_consolidate" /\ gc.mode = "compact" THEN "gc_compact" ELSE kind

DeadOf(js, kind) == {j \in JobIds : js[j].kind = kind /\ js[j].state = "dead"}

\* The kinds repair revives.  gc_compact comes last, after a builder that
\* shares its counter.
Revived(js) ==
    LET able   == {k \in GcKinds : DeadOf(js, k) # {} /\ resurrected[Counter(k)] < MaxResurrect}
        shared == {k \in able \ {"gc_compact"} : Counter(k) = "gc_compact"}
    IN  IF resurrected["gc_compact"] + Cardinality(shared) < MaxResurrect THEN able
        ELSE able \ {"gc_compact"}

\* The alarm takes a queued row.  It has just booted, and boot runs repair:
\* nothing is left to revive.
Dispatched(j, kind) == IsQueued(j, kind) /\ Revived(jobs) = {}

Running(js, j) == [js EXCEPT ![j].state = "running"]
Claim(js, j, s) == [js EXCEPT ![j].state = "running", ![j].lease = s]
\* Back to the queue, or dead; the lease of a row not running is never read.
Release(js, j, state) == [js EXCEPT ![j].state = state, ![j].lease = Null]
\* Mutant: a finished row is kept as 'done'.
DeleteKept(js, j) == [js EXCEPT ![j].state = "done"]

Delete(js, j) == [js EXCEPT ![j] = NoRow]

\* A lease is a fresh random id: no row may still carry it.
FreshLease(s) == slices[s] = NoSlice /\ \A j \in JobIds : jobs[j].lease # s

\* lease_held: the row is still running under this slice's lease.
Held(s) ==
    /\ slices[s].pc # "none"
    /\ jobs[slices[s].job].state = "running"
    /\ jobs[slices[s].job].lease = s

\* A consolidate or sweep row queued or running keeps a new chain out.
Busy == \E j \in JobIds : /\ jobs[j].kind \in {"gc_consolidate", "gc_sweep"}
                          /\ jobs[j].state \in {"queued", "running"}

\* stray: the row was enqueued by a chain that is no longer the current one.
Stray(j) == jobs[j].chain # 0 /\ jobs[j].chain # gc.chain

OwnerKind == CASE gc.phase = "sweep" -> "gc_sweep"
               [] gc.phase = "build" -> "gc_consolidate"
               [] OTHER -> "gc_mark"

\* A row that serves the current chain: it carries its id, or none.
Serves(j) == jobs[j].chain \in {0, gc.chain}

\* orphaned: a chain stands and no row of its owner kind will continue it.
Orphaned ==
    /\ gc.chain # 0
    /\ ~\E j \in JobIds : /\ jobs[j].kind = OwnerKind
                          /\ jobs[j].state \in {"queued", "running"}
                          /\ Serves(j)

-----------------------------------------------------------------------------
(* Ending a chain. *)

Marked == UNION {bitmap[p] : p \in marked}

\* cohort_live: false when a marked pack is gone from the live set, or none is marked.
CohortLive == marked # {} /\ marked \subseteq LivePacks

\* Mutant: wipe_all always drops the build pack.
KeepNewPackNever == FALSE

\* The keep rule: a live build pack whose cohort is (partly) retired is the
\* surviving copy.
KeepNewPack ==
    /\ gc.new_pack # Null
    /\ packState[gc.new_pack] = "live"
    /\ ~CohortLive

\* Mutant: wipe_all forgets a build pack that is not live yet.
WipedStateLiveOnly ==
    IF gc.new_pack = Null \/ KeepNewPack THEN packState
    ELSE [packState EXCEPT ![gc.new_pack] = IF @ = "live" THEN "dead" ELSE @]

\* packs.state after wipe_all.
WipedState ==
    IF gc.new_pack = Null \/ KeepNewPack THEN packState
    ELSE [packState EXCEPT ![gc.new_pack] =
             IF @ \in {"ingesting", "live"} THEN "dead" ELSE @]

\* The objects table after wipe_all.
WipedObjects ==
    IF gc.new_pack = Null THEN objects
    ELSE IF KeepNewPack
    THEN [p \in Packs |-> IF p \in marked \ LivePacks THEN {} ELSE objects[p]]
    ELSE [objects EXCEPT ![gc.new_pack] = {}]

\* Deleting the gc.* rows and the scratch tables.
ClearChain ==
    /\ gc' = NoGc
    /\ marked' = {}
    /\ bitmap' = NoBits
    /\ frontier' = {}
    /\ seen' = {}

WipeAll ==
    /\ packState' = WipedState
    /\ objects' = WipedObjects
    /\ ClearChain

\* abort on behalf of row j: a fresh mark is queued, row j is done.  Only
\* mark-mode chains are aborted this way.
AbortJobs(j) == Delete(Enqueue(Running(jobs, j), "gc_mark", 0), j)

\* orphan_abort drops the dead rows of the chain it wipes.
WithoutDeadRows(js) ==
    IF gc.chain = 0 THEN js
    ELSE [j \in JobIds |-> IF js[j].state = "dead" /\ Serves(j) THEN NoRow ELSE js[j]]

\* The quarantine after orphan_abort: a compact chain's cohort takes a strike.
\* Two strikes quarantine, more change nothing.
Struck ==
    IF gc.mode = "compact"
    THEN [p \in Packs |-> IF p \in marked /\ strikes[p] < 2 THEN strikes[p] + 1
                          ELSE strikes[p]]
    ELSE strikes

\* What stays the same when only the collector's tables change.
StoreSame == UNCHANGED <<refVars, gc_epoch, packPush, r2, pushVars, doomed>>
PacksSame == UNCHANGED <<packState, objects>>

-----------------------------------------------------------------------------
(* gc_mark: a slice begins (claim, guards and init are one span). *)

\* Nothing in the way of a new chain: none stands, or a compact one that
\* nobody will finish and that this slice aborts first.
MayInit == gc.chain = 0 \/ (gc.mode = "compact" /\ Orphaned)

LiveIn(states) == {p \in Packs : states[p] = "live"}

\* gc_mark begins a chain over the candidate packs cands (live, past grace).
\* Roots: ref targets and every non-blob of the live packs it leaves alone.
GcMarkInit(j, s, cands) ==
    LET young == LiveIn(WipedState) \ cands
    IN  /\ Dispatched(j, "gc_mark")
        /\ FreshLease(s)
        /\ MayInit
        /\ ~Busy
        /\ cands # {} /\ cands \subseteq LiveIn(WipedState)
        /\ lastChain < MaxChains
        /\ lastChain' = lastChain + 1
        /\ gc' = [NoGc EXCEPT !.chain = lastChain + 1, !.refs_version = refs_version]
        /\ marked' = cands
        /\ bitmap' = NoBits
        /\ frontier' = RefTargets \cup
              {o \in UNION {WipedObjects[p] : p \in young} : Links[o] # {}}
        /\ seen' = {}
        /\ packState' = WipedState
        /\ objects' = WipedObjects
        /\ jobs' = Claim(WithoutDeadRows(jobs), j, s)
        /\ strikes' = Struck
        /\ slices' = [slices EXCEPT ![s] =
                         [NoSlice EXCEPT !.pc = "start", !.job = j, !.chain = lastChain + 1]]
        /\ StoreSame
        /\ UNCHANGED <<resurrected, faults>>

\* No chain begins: an old row is still in the way and the mark goes back to
\* the queue, or every live pack is inside the grace window and it is done.
\* An orphaned compact chain is gone either way.
GcMarkNothing(j) ==
    /\ Dispatched(j, "gc_mark")
    /\ MayInit
    /\ WipeAll
    /\ jobs' = IF Busy THEN WithoutDeadRows(jobs) ELSE Delete(WithoutDeadRows(jobs), j)
    /\ strikes' = Struck
    /\ StoreSame
    /\ UNCHANGED <<resurrected, slices, lastChain, faults>>

\* gc_mark finds its chain already building or sweeping: done, unless the
\* refs moved since the mark, which aborts the chain.
GcMarkLate(j) ==
    /\ Dispatched(j, "gc_mark")
    /\ gc.chain # 0 /\ gc.mode = "mark" /\ gc.phase # "unset"
    /\ IF refs_version # gc.refs_version
       THEN /\ CanEnqueue(Running(jobs, j), "gc_mark")
            /\ WipeAll
            /\ jobs' = AbortJobs(j)
       ELSE /\ PacksSame
            /\ UNCHANGED chainVars
            /\ jobs' = Delete(jobs, j)
    /\ StoreSame
    /\ UNCHANGED <<resurrected, strikes, slices, lastChain, faults>>

\* gc_mark resumes the walk of the current chain.
GcMarkResume(j, s) ==
    /\ Dispatched(j, "gc_mark")
    /\ FreshLease(s)
    /\ gc.chain # 0 /\ gc.mode = "mark" /\ gc.phase = "unset"
    /\ jobs' = Claim(jobs, j, s)
    /\ slices' = [slices EXCEPT ![s] =
                     [NoSlice EXCEPT !.pc = "start", !.job = j, !.chain = gc.chain]]
    /\ StoreSame /\ PacksSame
    /\ UNCHANGED <<chainVars, resurrected, strikes, lastChain, faults>>

-----------------------------------------------------------------------------
(* gc_mark: the walk.  Nothing is written between the pop and the commit.  A *)
(* slice is at "start" or "loop" before a pop, at "read" or "rest" with a     *)
(* popped batch; it has committed something once it is at "loop" or "rest".   *)

AtLoop(s) == slices[s].pc \in {"start", "loop"}
InBatch(s) == slices[s].pc \in {"read", "rest"}

\* mark_fence: the chain is still the slice's, it has no phase yet, and the
\* slice still holds its lease.
MarkFence(s) ==
    /\ gc.chain = slices[s].chain
    /\ gc.phase = "unset"
    /\ Held(s)

\* Pop a batch and find one live row for each of its objects.
MarkPop(s, batch, at) ==
    /\ AtLoop(s)
    /\ gc.chain # 0 /\ gc.mode = "mark"
    /\ refs_version = gc.refs_version
    /\ batch \subseteq frontier
    /\ Cardinality(batch) = IF Cardinality(frontier) < Round
                            THEN Cardinality(frontier) ELSE Round
    /\ batch # {}
    /\ at \in [batch \cap LiveObjects -> LivePacks]
    /\ \A o \in DOMAIN at : o \in objects[at[o]]
    /\ slices' = [slices EXCEPT
          ![s].pc = "read", ![s].batch = batch, ![s].hits = DOMAIN at,
          ![s].bits = [p \in Packs |-> {o \in DOMAIN at : p \in marked /\ at[o] = p}]]
    /\ StoreSame /\ PacksSame
    /\ UNCHANGED <<chainVars, jobs, resurrected, strikes, lastChain, faults>>

OrBits(a, b) == [p \in Packs |-> a[p] \cup b[p]]

\* The batch's bits reach only packs that have a marked row.
FlushedBits(s) ==
    OrBits(bitmap, [p \in Packs |-> IF p \in marked THEN slices[s].bits[p] ELSE {}])

\* Mutant: the links of a committed object are not followed.
KidsOfNone(s, done) == {}

KidsOf(s, done) == LinksOf(done \cap slices[s].hits)

\* commit_ids for the objects of one read: bits, seen, unseen links into the
\* frontier, and only then out of the frontier.
MarkCommit(s, done) ==
    /\ InBatch(s)
    /\ done # {} /\ done \subseteq slices[s].batch
    /\ MarkFence(s)
    /\ bitmap' = FlushedBits(s)
    /\ seen' = seen \cup done
    /\ frontier' = (frontier \cup (KidsOf(s, done) \ seen')) \ done
    /\ slices' = [slices EXCEPT
          ![s].batch = @ \ done, ![s].bits = NoBits,
          ![s].pc = IF slices[s].batch = done THEN "loop" ELSE "rest"]
    /\ StoreSame /\ PacksSame
    /\ UNCHANGED <<gc, marked, jobs, resurrected, strikes, lastChain, faults>>

\* A tree with very many links sends part of them to the frontier early.
MarkFlushKids(s, kids) ==
    /\ InBatch(s)
    /\ kids # {} /\ kids \subseteq KidsOf(s, slices[s].batch)
    /\ MarkFence(s)
    /\ bitmap' = FlushedBits(s)
    /\ frontier' = frontier \cup (kids \ seen)
    /\ slices' = [slices EXCEPT ![s].bits = NoBits]
    /\ StoreSame /\ PacksSame
    /\ UNCHANGED <<gc, marked, seen, jobs, resurrected, strikes, lastChain, faults>>

\* How an error lands: the row is retried, or dead after too many attempts.
LandErr(js, j) == {Release(js, j, "queued"), Release(js, j, "dead")}

\* commit_ids fails after its first, second or third write, which stay.
MarkCommitErr(s, done, upto) ==
    /\ InBatch(s)
    /\ done # {} /\ done \subseteq slices[s].batch
    /\ MarkFence(s)
    /\ faults < MaxFaults
    /\ bitmap' = FlushedBits(s)
    /\ seen' = IF upto >= 2 THEN seen \cup done ELSE seen
    /\ frontier' = IF upto >= 3 THEN frontier \cup (KidsOf(s, done) \ seen') ELSE frontier
    /\ jobs' \in LandErr(jobs, slices[s].job)
    /\ slices' = [slices EXCEPT ![s] = NoSlice]
    /\ faults' = faults + 1
    /\ StoreSame /\ PacksSame
    /\ UNCHANGED <<gc, marked, resurrected, strikes, lastChain>>

\* Mutant: the abort queues a fresh mark and wipes nothing.
MarkAbortUnwiped(s) ==
    /\ AtLoop(s)
    /\ MarkFence(s)
    /\ refs_version # gc.refs_version
    /\ CanEnqueue(jobs, "gc_mark")
    /\ jobs' = AbortJobs(slices[s].job)
    /\ slices' = [slices EXCEPT ![s] = NoSlice]
    /\ StoreSame /\ PacksSame
    /\ UNCHANGED <<chainVars, resurrected, strikes, lastChain, faults>>

\* The refs moved during the walk: abort, and mark again later.
MarkAbort(s) ==
    /\ AtLoop(s)
    /\ MarkFence(s)
    /\ refs_version # gc.refs_version
    /\ CanEnqueue(jobs, "gc_mark")
    /\ WipeAll
    /\ jobs' = AbortJobs(slices[s].job)
    /\ slices' = [slices EXCEPT ![s] = NoSlice]
    /\ StoreSame
    /\ UNCHANGED <<resurrected, strikes, lastChain, faults>>

\* Mutant: the walk hands over with objects left in the frontier.
WalkedSome == TRUE

\* The walk is over when no object waits in the frontier.
Walked == frontier = {}

\* Mutant: nobody is queued for the phase.
HandoffUnowned(s) == Delete(jobs, slices[s].job)

\* The build's row is queued, the walk's own row is done.
HandoffJobs(s) == Delete(Enqueue(jobs, "gc_consolidate", gc.chain), slices[s].job)

\* The walk is over: the build's row is queued, then the phase moves.
MarkHandoff(s) ==
    /\ AtLoop(s)
    /\ MarkFence(s)
    /\ refs_version = gc.refs_version
    /\ Walked
    /\ CanEnqueue(jobs, "gc_consolidate")
    /\ seen' = {}
    /\ gc' = [gc EXCEPT !.phase = "build"]
    /\ jobs' = HandoffJobs(s)
    /\ slices' = [slices EXCEPT ![s] = NoSlice]
    /\ StoreSame /\ PacksSame
    /\ UNCHANGED <<marked, bitmap, frontier, resurrected, strikes, lastChain, faults>>

-----------------------------------------------------------------------------
(* gc_consolidate: a slice begins (claim, guards and begin_build are one span). *)

\* A consolidate or sweep row that is stray, or whose phase is not current,
\* runs nothing and is deleted.
GcDropRow(j) ==
    /\ \/ Dispatched(j, "gc_consolidate") /\ (Stray(j) \/ gc.phase # "build")
       \/ Dispatched(j, "gc_sweep") /\ (Stray(j) \/ gc.phase # "sweep")
    /\ jobs' = Delete(jobs, j)
    /\ StoreSame /\ PacksSame
    /\ UNCHANGED <<chainVars, resurrected, strikes, slices, lastChain, faults>>

\* The row may build for the current chain.
Builder(j) == Dispatched(j, "gc_consolidate") /\ ~Stray(j) /\ gc.phase = "build"

RefsMoved == gc.mode = "mark" /\ refs_version # gc.refs_version

\* The cases in which the slice ends the chain: a compact cohort that broke,
\* a compact chain with nothing to copy, or a lone pack that is all marked.
NothingToBuild ==
    \/ gc.mode = "compact" /\ ~CohortLive
    \/ /\ gc.new_pack = Null
       /\ ~RefsMoved
       /\ \/ gc.mode = "compact" /\ Marked = {}
          \/ Marked # {} /\ \E p \in marked : marked = {p} /\ bitmap[p] = objects[p]

GcConsolidateNothing(j) ==
    /\ Builder(j)
    /\ NothingToBuild
    /\ WipeAll
    /\ jobs' = Delete(jobs, j)
    /\ StoreSame
    /\ UNCHANGED <<resurrected, strikes, slices, lastChain, faults>>

\* begin_build: the refs moved since the mark.
GcConsolidateAbort(j) ==
    /\ Builder(j)
    /\ gc.new_pack = Null
    /\ RefsMoved
    /\ CanEnqueue(jobs, "gc_mark")
    /\ WipeAll
    /\ jobs' = AbortJobs(j)
    /\ StoreSame
    /\ UNCHANGED <<resurrected, strikes, slices, lastChain, faults>>

\* begin_build: nothing in the cohort is marked, so there is no pack to write
\* and the sweep may start.  The sweep's row is queued before the phase moves;
\* an error in between leaves the row behind and the build to be retried.
GcConsolidateEmpty(j, failed) ==
    /\ Builder(j)
    /\ gc.new_pack = Null
    /\ ~RefsMoved
    /\ gc.mode = "mark" /\ Marked = {}
    /\ CanEnqueue(jobs, "gc_sweep")
    /\ failed => faults < MaxFaults
    /\ LET queue == Enqueue(Running(jobs, j), "gc_sweep", gc.chain)
       IN  IF failed
           THEN /\ jobs' \in LandErr(queue, j)
                /\ gc' = [gc EXCEPT !.fails = 0]
                /\ faults' = faults + 1
           ELSE /\ jobs' = Delete(queue, j)
                /\ gc' = [gc EXCEPT !.fails = 0, !.phase = "sweep"]
                /\ UNCHANGED faults
    /\ StoreSame /\ PacksSame
    /\ UNCHANGED <<marked, bitmap, frontier, seen, resurrected, strikes, slices, lastChain>>

\* packs after a new build pack n is created and the old one, if any, dropped.
WithBuildPack(states, n) == [states EXCEPT ![n] = "ingesting"]

BuildSlice(j, n) ==
    [NoSlice EXCEPT !.pc = "build", !.job = j, !.chain = gc.chain, !.pack = n]

\* begin_build: a fresh 'ingesting' pack with no push, named by gc.new_pack.
GcConsolidateBegin(j, s, n) ==
    /\ Builder(j)
    /\ FreshLease(s)
    /\ gc.new_pack = Null
    /\ ~RefsMoved
    /\ Marked # {} /\ ~NothingToBuild
    /\ packState[n] = "none"
    /\ packState' = WithBuildPack(packState, n)
    /\ gc' = [gc EXCEPT !.new_pack = n]
    /\ jobs' = Claim(jobs, j, s)
    /\ slices' = [slices EXCEPT ![s] = BuildSlice(j, n)]
    /\ StoreSame
    /\ UNCHANGED <<objects, marked, bitmap, frontier, seen, resurrected, strikes,
                   lastChain, faults>>

\* A slice continues the build pack of an earlier one.  Where it takes the copy
\* up, from the saved cursor and tail, is GcBuild's Begin.
GcConsolidateResume(j, s) ==
    /\ Builder(j)
    /\ FreshLease(s)
    /\ gc.new_pack # Null
    /\ ~NothingToBuild
    /\ jobs' = Claim(jobs, j, s)
    /\ slices' = [slices EXCEPT ![s] = BuildSlice(j, gc.new_pack)]
    /\ StoreSame /\ PacksSame
    /\ UNCHANGED <<chainVars, resurrected, strikes, lastChain, faults>>

-----------------------------------------------------------------------------
(* gc_consolidate: copying the marked objects into the build pack. *)

\* chain_fence: the lease, the chain, and for compaction the build pack.
ChainFence(s) ==
    /\ Held(s)
    /\ gc.chain = slices[s].chain
    /\ gc.mode = "compact" => gc.new_pack = slices[s].pack

\* A checkpoint posts the rows of the entries copied so far: BuildPromise's Post.
BuildRows(s, rows) ==
    /\ slices[s].pc = "build"
    /\ ChainFence(s)
    /\ rows \subseteq Marked
    /\ objects' = [objects EXCEPT ![slices[s].pack] = @ \cup rows]
    /\ StoreSame
    /\ UNCHANGED <<packState, chainVars, jobVars, strikes, lastChain, faults>>

\* Input exhausted: the last rows are posted, and with them every marked object
\* has its row (in GcBuild this follows from the cursor: KeepsPromise).  The slice
\* waits for its upload to complete.
BuildComplete(s) ==
    /\ slices[s].pc = "build"
    /\ ChainFence(s)
    /\ objects' = [objects EXCEPT ![slices[s].pack] = @ \cup Marked]
    /\ slices' = [slices EXCEPT ![s].pc = "upload"]
    /\ StoreSame
    /\ UNCHANGED <<packState, chainVars, jobs, resurrected, strikes, lastChain, faults>>

\* R2 completes the multipart upload, whoever still waits for it.
BuildUpload(s) ==
    /\ slices[s].pc = "upload"
    /\ slices[s].pack \notin r2
    /\ r2' = r2 \cup {slices[s].pack}
    /\ UNCHANGED <<refVars, gc_epoch, packVars, pushVars, doomed, gcVars>>

\* Mutant: the build is finished without waiting for R2.
UploadedUnknown(s) == slices[s].pc \in {"build", "upload"}

\* The upload's completion is known, from complete() or from mpu_err's HEAD.
Uploaded(s) == slices[s].pc \in {"build", "upload"} /\ slices[s].pack \in r2

\* finish_build outside compaction: the build pack goes live, the sweep's row
\* is queued, then the phase moves.
FinishBuild(s) ==
    LET n == slices[s].pack
    IN  /\ Uploaded(s)
        /\ gc.mode = "mark"
        /\ ChainFence(s)
        /\ packState[n] \in {"ingesting", "live"}
        /\ CanEnqueue(jobs, "gc_sweep")
        /\ packState' = [packState EXCEPT ![n] = "live"]
        /\ jobs' = Delete(Enqueue(jobs, "gc_sweep", gc.chain), slices[s].job)
        /\ gc' = [gc EXCEPT !.phase = "sweep"]
        /\ slices' = [slices EXCEPT ![s] = NoSlice]
        /\ StoreSame
        /\ UNCHANGED <<objects, marked, bitmap, frontier, seen, resurrected, strikes,
                       lastChain, faults>>

\* mpu_err: the upload failed and R2 has no object.  The first time the slice
\* fails and is retried.
BuildRetry(s) ==
    /\ slices[s].pc \in {"build", "upload"}
    /\ slices[s].pack \notin r2
    /\ ChainFence(s)
    /\ faults < MaxFaults
    /\ gc.fails = 0
    /\ gc' = [gc EXCEPT !.fails = 1]
    /\ jobs' \in LandErr(jobs, slices[s].job)
    /\ slices' = [slices EXCEPT ![s] = NoSlice]
    /\ faults' = faults + 1
    /\ StoreSame /\ PacksSame
    /\ UNCHANGED <<marked, bitmap, frontier, seen, resurrected, strikes, lastChain>>

\* Mutant: wipe_build leaves the abandoned build pack 'ingesting'.
UnbuiltStateKept == packState

\* packs and objects after wipe_build.
UnbuiltState == [packState EXCEPT ![gc.new_pack] = IF @ = "ingesting" THEN "dead" ELSE @]
UnbuiltObjects == [objects EXCEPT ![gc.new_pack] = {}]

\* The second time the build starts over with a fresh pack (wipe_build and
\* begin_build in one span), or aborts because the refs moved meanwhile.
BuildRestart(s, n) ==
    /\ slices[s].pc \in {"build", "upload"}
    /\ slices[s].pack \notin r2
    /\ ChainFence(s)
    /\ gc.new_pack # Null
    /\ gc.fails > 0
    /\ objects' = UnbuiltObjects
    /\ IF RefsMoved
       THEN /\ CanEnqueue(jobs, "gc_mark")
            /\ packState' = UnbuiltState
            /\ ClearChain
            /\ jobs' = AbortJobs(slices[s].job)
            /\ slices' = [slices EXCEPT ![s] = NoSlice]
       ELSE /\ packState[n] = "none"
            /\ packState' = WithBuildPack(UnbuiltState, n)
            /\ gc' = [gc EXCEPT !.new_pack = n, !.fails = 0]
            /\ slices' = [slices EXCEPT ![s] = BuildSlice(slices[s].job, n)]
            /\ UNCHANGED <<marked, bitmap, frontier, seen, jobs>>
    /\ StoreSame
    /\ UNCHANGED <<resurrected, strikes, lastChain, faults>>

-----------------------------------------------------------------------------
(* Compaction. *)

\* trigger may find a cohort among the live packs P, now or once they have
\* aged: at least two are not quarantined.
Compactable(P) == Cardinality({p \in P : strikes[p] < 2}) >= 2

DeadCohort(states) ==
    [p \in Packs |-> IF p \in marked /\ states[p] # "gone" THEN "dead" ELSE states[p]]

WithoutCohortRows == [p \in Packs |-> IF p \in marked THEN {} ELSE objects[p]]

\* The compact swap: the build pack replaces its cohort in one span.  An
\* error after the dead-mark leaves the cohort's rows and the chain behind.
\* trigger may find another cohort to compact.  A cohort that is no longer
\* all live aborts the chain instead.
Swap(s, failed, again) ==
    LET n == slices[s].pack
        j == slices[s].job
    IN  /\ Uploaded(s)
        /\ gc.mode = "compact"
        /\ ChainFence(s)
        /\ CohortLive => packState[n] \in {"ingesting", "live"}
        /\ slices' = [slices EXCEPT ![s] = NoSlice]
        /\ IF ~CohortLive
           THEN /\ WipeAll
                /\ jobs' = Delete(jobs, j)
                /\ UNCHANGED <<resurrected, faults>>
           ELSE /\ packState' = DeadCohort([packState EXCEPT ![n] = "live"])
                /\ IF failed
                   THEN /\ faults < MaxFaults
                        /\ jobs' \in LandErr(jobs, j)
                        /\ faults' = faults + 1
                        /\ UNCHANGED <<objects, chainVars, resurrected>>
                   ELSE /\ again => /\ Compactable((LivePacks \ marked) \cup {n})
                                    /\ CanEnqueue(jobs, "gc_compact")
                        /\ objects' = WithoutCohortRows
                        /\ ClearChain
                        /\ resurrected' = [resurrected EXCEPT !["gc_compact"] = 0]
                        /\ jobs' = Delete(IF again THEN Enqueue(jobs, "gc_compact", 0)
                                          ELSE jobs, j)
                        /\ UNCHANGED faults
        /\ StoreSame
        /\ UNCHANGED <<strikes, lastChain>>

\* gc_compact may start: no chain and no old row, or a chain nobody finishes.
MayCompact == (gc.chain = 0 /\ ~Busy) \/ Orphaned

\* The quarantine as gc_compact leaves it: packs no longer live are pruned.
PrunedStrikes == [p \in Packs |-> IF p \in LiveIn(WipedState) THEN Struck[p] ELSE 0]

\* dedup_bitmaps: the first pack in id order that holds an object gets its bit.
DedupBits(cohort) ==
    [p \in Packs |-> IF p \in cohort
                     THEN {o \in WipedObjects[p] :
                              \A q \in cohort : q < p => o \notin WipedObjects[q]}
                     ELSE {}]

\* gc_compact stakes a chain over a cohort of live packs, none quarantined,
\* straight in its build phase.  An error after that leaves the chain staked.
GcCompact(j, cohort, failed) ==
    LET queue == Enqueue(WithoutDeadRows(Running(jobs, j)), "gc_consolidate", lastChain + 1)
    IN  /\ Dispatched(j, "gc_compact")
        /\ MayCompact
        /\ cohort \subseteq {p \in LiveIn(WipedState) : PrunedStrikes[p] < 2}
        /\ Cardinality(cohort) >= 2
        /\ lastChain < MaxChains
        /\ CanEnqueue(WithoutDeadRows(jobs), "gc_consolidate")
        /\ lastChain' = lastChain + 1
        /\ gc' = [NoGc EXCEPT !.chain = lastChain + 1, !.mode = "compact", !.phase = "build"]
        /\ marked' = cohort
        /\ bitmap' = DedupBits(cohort)
        /\ frontier' = {}
        /\ seen' = {}
        /\ packState' = WipedState
        /\ objects' = WipedObjects
        /\ strikes' = PrunedStrikes
        /\ IF failed THEN /\ faults < MaxFaults
                          /\ jobs' \in LandErr(queue, j)
                          /\ faults' = faults + 1
                     ELSE /\ jobs' = Delete(queue, j)
                          /\ UNCHANGED faults
        /\ StoreSame
        /\ UNCHANGED <<resurrected, slices>>

\* gc_compact finds no cohort.
GcCompactNothing(j) ==
    /\ Dispatched(j, "gc_compact")
    /\ MayCompact
    /\ WipeAll
    /\ jobs' = Delete(WithoutDeadRows(jobs), j)
    /\ strikes' = PrunedStrikes
    /\ StoreSame
    /\ UNCHANGED <<resurrected, slices, lastChain, faults>>

-----------------------------------------------------------------------------
(* gc_sweep: the whole slice is one span. *)

Sweeper(j) == Dispatched(j, "gc_sweep") /\ ~Stray(j) /\ gc.phase = "sweep"

\* The refs moved since the mark: the sweep deletes nothing and aborts.
GcSweepAbort(j) ==
    /\ Sweeper(j)
    /\ RefsMoved
    /\ CanEnqueue(jobs, "gc_mark")
    /\ WipeAll
    /\ jobs' = AbortJobs(j)
    /\ StoreSame
    /\ UNCHANGED <<resurrected, strikes, slices, lastChain, faults>>

\* Mutant: the epoch stays.
SameEpoch == gc_epoch

\* Pushes that began before the sweep will not commit.
BumpedEpoch == gc_epoch + 1

\* Retire the cohort: the epoch first, then the packs, their rows, the chain.
\* An error after the dead-mark leaves the rows and the chain behind.
GcSweep(j, failed) ==
    /\ Sweeper(j)
    /\ ~RefsMoved
    /\ gc_epoch' = BumpedEpoch
    /\ packState' = DeadCohort(packState)
    /\ IF failed
       THEN /\ faults < MaxFaults
            /\ jobs' \in LandErr(jobs, j)
            /\ faults' = faults + 1
            /\ UNCHANGED <<objects, chainVars, resurrected>>
       ELSE /\ objects' = WithoutCohortRows
            /\ ClearChain
            /\ resurrected' = [k \in GcKinds |-> 0]
            /\ jobs' = Delete(jobs, j)
            /\ UNCHANGED faults
    /\ UNCHANGED <<refVars, packPush, r2, pushVars, doomed, strikes, slices, lastChain>>

-----------------------------------------------------------------------------
(* How slices end, and how rows come back. *)

\* The budget is spent: Continue.  A slice starts with a fresh budget, so the
\* walk yields only after a commit.  A build yields behind its flush, whose rows
\* are BuildRows and whose checkpoint, parts and tail are GcBuild's Persist.
SliceYield(s) ==
    /\ Held(s)
    /\ \/ slices[s].pc \in {"loop", "rest"}
       \/ slices[s].pc = "build" /\ ChainFence(s)
    /\ jobs' = Release(jobs, slices[s].job, "queued")
    /\ slices' = [slices EXCEPT ![s] = NoSlice]
    /\ StoreSame /\ PacksSame
    /\ UNCHANGED <<chainVars, resurrected, strikes, lastChain, faults>>

\* Mutant: a stale slice deletes its row although another slice runs it.
LandDoneAlways(s) == Delete(jobs, slices[s].job)

\* land_outcome of Done: the row is deleted if the slice still holds it.
LandDone(s) == IF Held(s) THEN Delete(jobs, slices[s].job) ELSE jobs

\* A fence fails: the slice writes nothing more.  If it still holds its row
\* (the chain moved on) the row is done, otherwise the outcome cannot land.
SliceStale(s) ==
    /\ \/ /\ AtLoop(s) /\ ~MarkFence(s)
          /\ gc.chain # 0 /\ gc.mode = "mark"
          /\ refs_version # gc.refs_version \/ frontier = {}
       \/ InBatch(s) /\ ~MarkFence(s)
       \/ slices[s].pc \in {"build", "upload"} /\ ~ChainFence(s)
    /\ jobs' = LandDone(s)
    /\ slices' = [slices EXCEPT ![s] = NoSlice]
    /\ StoreSame /\ PacksSame
    /\ UNCHANGED <<chainVars, resurrected, strikes, lastChain, faults>>

\* The walk of a chain that is gone fails on the absent gc.refs_version.
Astray(s) == AtLoop(s) /\ (gc.chain = 0 \/ gc.mode = "compact")

\* The slice fails (R2, the budget, a row that is not there): its row, if it
\* still holds it, is retried or dead.
SliceErr(s) ==
    /\ slices[s].pc # "none"
    /\ jobs' \in IF Held(s) THEN LandErr(jobs, slices[s].job) ELSE {jobs}
    /\ slices' = [slices EXCEPT ![s] = NoSlice]
    /\ IF Astray(s) THEN UNCHANGED faults
       ELSE faults < MaxFaults /\ faults' = faults + 1
    /\ StoreSame /\ PacksSame
    /\ UNCHANGED <<chainVars, resurrected, strikes, lastChain>>

\* The isolate is killed: the slice is gone, its row stays 'running'.
SliceKill(s) ==
    /\ slices[s].pc # "none"
    /\ faults < MaxFaults
    /\ slices' = [slices EXCEPT ![s] = NoSlice]
    /\ faults' = faults + 1
    /\ StoreSame /\ PacksSame
    /\ UNCHANGED <<chainVars, jobs, resurrected, strikes, lastChain>>

\* The dead rows of a revived kind are replaced by one queued row without a
\* chain, unless one is queued already.
Resurrect(js) ==
    [j \in JobIds |->
        IF js[j].kind \in Revived(js) /\ js[j].state = "dead"
        THEN IF ~HasQueued(js, js[j].kind) /\ j = (CHOOSE i \in DeadOf(js, js[j].kind) : TRUE)
             THEN [kind |-> js[j].kind, chain |-> 0, state |-> "queued", lease |-> Null]
             ELSE NoRow
        ELSE js[j]]

\* Mutant: repair leaves a stranded row 'running'.
RequeuedNever(lost, spent) == jobs

\* Rows running too long go back to the queue, or die after 64 times.
Requeued(lost, spent) ==
    [j \in JobIds |-> IF j \in spent THEN Release(jobs, j, "dead")[j]
                      ELSE IF j \in lost THEN Release(jobs, j, "queued")[j]
                      ELSE jobs[j]]

\* repair, at the start of every request and alarm.  A row counts as lost
\* whether its slice is dead or only slow.
Repair(lost, spent) ==
    LET js   == Requeued(lost, spent)
        slow == {j \in lost : \E s \in Slices : slices[s].job = j /\ Held(s)}
    IN  /\ lost \subseteq {j \in JobIds : jobs[j].state = "running"}
        /\ spent \subseteq lost
        /\ lost # {} \/ Revived(js) # {}
        /\ faults + Cardinality(slow) <= MaxFaults
        /\ faults' = faults + Cardinality(slow)
        /\ jobs' = Resurrect(js)
        /\ resurrected' = [k \in GcKinds |->
              resurrected[k] + Cardinality({r \in Revived(js) : Counter(r) = k})]
        /\ StoreSame /\ PacksSame
        /\ UNCHANGED <<chainVars, strikes, slices, lastChain>>

\* A janitor pass queues compaction (trigger), or a mark when the repository
\* is at its pack cap and none is in flight.
JanitorEnqueue(kind) ==
    /\ ~HasQueued(jobs, kind)
    /\ kind = "gc_compact" => Compactable(LivePacks)
    /\ kind = "gc_mark" => ~\E j \in JobIds : jobs[j].kind = kind /\ jobs[j].state = "running"
    /\ CanEnqueue(jobs, kind)
    /\ jobs' = Enqueue(jobs, kind, 0)
    /\ StoreSame /\ PacksSame
    /\ UNCHANGED <<chainVars, resurrected, strikes, slices, lastChain, faults>>

-----------------------------------------------------------------------------
(* The store's own steps beside the collector. *)

\* Queues that may follow from trigger, which only sometimes finds a cohort.
MaybeCompact(js, pack) ==
    IF pack # Null /\ Compactable(LivePacks \cup {pack})
    THEN {js, Enqueue(js, "gc_compact", 0)} ELSE {js}

\* A landed push queues compaction for its pack and a mark for its refs.
CommitAndEnqueue(u, cmds, refused) ==
    /\ CommitPush(u, cmds, refused)
    /\ CanEnqueue(jobs, "gc_compact")
    /\ \E js \in MaybeCompact(jobs, edge[u].pack) :
          /\ CanEnqueue(js, "gc_mark")
          /\ jobs' = IF Landed(u, cmds, refused) = {} THEN js ELSE Enqueue(js, "gc_mark", 0)
    /\ UNCHANGED <<chainVars, resurrected, strikes, slices, lastChain, faults>>

\* A failed atomic push leaves behind what trigger queued for its pack.
AtomicFailedAndEnqueue(u, cmds, refused) ==
    /\ CommitAtomicFailed(u, cmds, refused)
    /\ CanEnqueue(jobs, "gc_compact")
    /\ jobs' \in MaybeCompact(jobs, edge[u].pack)
    /\ UNCHANGED <<chainVars, resurrected, strikes, slices, lastChain, faults>>

CommitStepGc ==
    \/ \E u \in Pushes : CommitRejected(u) /\ UNCHANGED gcVars
    \/ \E u \in Pushes, cmds \in CommandSets :
          \E refused \in SUBSET DOMAIN cmds : AtomicFailedAndEnqueue(u, cmds, refused)
    \/ \E u \in Pushes, cmds \in CommandSets :
          \E refused \in SUBSET DOMAIN cmds : CommitAndEnqueue(u, cmds, refused)

MarkStep ==
    \/ \E j \in JobIds, s \in Slices, cands \in SUBSET Packs : GcMarkInit(j, s, cands)
    \/ \E j \in JobIds : GcMarkNothing(j)
    \/ \E j \in JobIds : GcMarkLate(j)
    \/ \E j \in JobIds, s \in Slices : GcMarkResume(j, s)
    \/ \E s \in Slices : \E batch \in SUBSET frontier :
          \E at \in [batch \cap LiveObjects -> LivePacks] : MarkPop(s, batch, at)
    \/ \E s \in Slices : \E done \in SUBSET slices[s].batch : MarkCommit(s, done)
    \/ \E s \in Slices : \E kids \in SUBSET KidsOf(s, slices[s].batch) : MarkFlushKids(s, kids)
    \/ \E s \in Slices, upto \in 1..3 :
          \E done \in SUBSET slices[s].batch : MarkCommitErr(s, done, upto)
    \/ \E s \in Slices : MarkAbort(s)
    \/ \E s \in Slices : MarkHandoff(s)

BuildStep ==
    \/ \E j \in JobIds : GcDropRow(j)
    \/ \E j \in JobIds : GcConsolidateNothing(j)
    \/ \E j \in JobIds : GcConsolidateAbort(j)
    \/ \E j \in JobIds, failed \in BOOLEAN : GcConsolidateEmpty(j, failed)
    \/ \E j \in JobIds, s \in Slices, n \in Packs : GcConsolidateBegin(j, s, n)
    \/ \E j \in JobIds, s \in Slices : GcConsolidateResume(j, s)
    \/ \E s \in Slices : \E rows \in SUBSET Marked : BuildRows(s, rows)
    \/ \E s \in Slices : BuildComplete(s)
    \/ \E s \in Slices : BuildUpload(s)
    \/ \E s \in Slices : FinishBuild(s)
    \/ \E s \in Slices : BuildRetry(s)
    \/ \E s \in Slices, n \in Packs : BuildRestart(s, n)

RetireStep ==
    \/ \E s \in Slices, failed, again \in BOOLEAN : Swap(s, failed, again)
    \/ \E j \in JobIds, cohort \in SUBSET Packs, failed \in BOOLEAN : GcCompact(j, cohort, failed)
    \/ \E j \in JobIds : GcCompactNothing(j)
    \/ \E j \in JobIds : GcSweepAbort(j)
    \/ \E j \in JobIds, failed \in BOOLEAN : GcSweep(j, failed)

SliceStep ==
    \/ \E s \in Slices : SliceYield(s)
    \/ \E s \in Slices : SliceStale(s)
    \/ \E s \in Slices : SliceErr(s)
    \/ \E s \in Slices : SliceKill(s)
    \/ \E lost \in SUBSET JobIds : \E spent \in SUBSET lost : Repair(lost, spent)
    \/ \E kind \in {"gc_compact", "gc_mark"} : JanitorEnqueue(kind)

GcNext ==
    \/ EdgeStep /\ UNCHANGED gcVars
    \/ JanitorStep /\ UNCHANGED gcVars
    \/ CommitStepGc
    \/ MarkStep
    \/ BuildStep
    \/ RetireStep
    \/ SliceStep

GcSpec == GcInit /\ [][GcNext]_vars

-----------------------------------------------------------------------------
(* Fairness: the alarm runs every due row; a slice that is neither killed nor *)
(* failed goes on; every request or alarm runs repair.                        *)

\* A slice begins on row j.  One outcome for each case is enough: any other
\* outcome (a chain begun by gc_mark or gc_compact) takes the row as well.
RunRow(j) ==
    \/ /\ IsQueued(j, "gc_mark")
       /\ \/ GcMarkNothing(j) \/ GcMarkLate(j)
          \/ \E s \in Slices : GcMarkResume(j, s)
    \/ /\ IsQueued(j, "gc_consolidate")
       /\ \/ GcDropRow(j) \/ GcConsolidateNothing(j) \/ GcConsolidateAbort(j)
          \/ GcConsolidateEmpty(j, FALSE)
          \/ \E s \in Slices, n \in Packs : GcConsolidateBegin(j, s, n)
          \/ \E s \in Slices : GcConsolidateResume(j, s)
    \/ IsQueued(j, "gc_compact") /\ GcCompactNothing(j)
    \/ /\ IsQueued(j, "gc_sweep")
       /\ GcDropRow(j) \/ GcSweepAbort(j) \/ GcSweep(j, FALSE)

\* A slice of the walk, or of the build once all its input is copied, goes on.
SliceRuns(s) ==
    \/ /\ AtLoop(s)
       /\ \/ MarkAbort(s) \/ MarkHandoff(s)
          \/ Astray(s) /\ SliceErr(s)
          \/ \E batch \in SUBSET frontier :
                \E at \in [batch \cap LiveObjects -> LivePacks] : MarkPop(s, batch, at)
    \/ InBatch(s) /\ MarkCommit(s, slices[s].batch)
    \/ BuildUpload(s) \/ FinishBuild(s)
    \/ \E again \in BOOLEAN : Swap(s, FALSE, again)
    \/ SliceStale(s)

\* Rows whose slice is gone.
Stranded ==
    {j \in JobIds : jobs[j].state = "running" /\ ~\E s \in Slices : slices[s].job = j /\ Held(s)}

\* A build slice may yield any number of times, but the copy goes on where the
\* last one left it and the input is exhausted at last (GcBuild's BuildEnds):
\* strong fairness.
GcFairness ==
    /\ \A j \in JobIds : WF_vars(RunRow(j))
    /\ \A s \in Slices : WF_vars(SliceRuns(s)) /\ SF_vars(BuildComplete(s))
    /\ WF_vars(Repair(Stranded, {}))

GcFairSpec == GcSpec /\ GcFairness

-----------------------------------------------------------------------------
(* What the collector promises. *)

\* An object leaves the live index only in a step that moves gc_epoch: a push
\* whose links were looked up before it is then refused by commit_push.
\* Aborts, swaps, restarted builds and the janitor lose no object.
OnlySweepForgets == [][LiveObjects \subseteq LiveObjects' \/ gc_epoch' > gc_epoch]_vars

\* The live packs outside the cohort, the build pack aside.
Keepers == LivePacks \ (marked \cup {gc.new_pack})

\* While a finished mark still describes the refs and its cohort is live, the
\* marked objects and the packs left alone hold every ref target and every
\* object they link to: the cohort may be retired once the marks are copied.
SurvivorsClosed ==
    LET kept == Marked \cup ObjectsIn(Keepers)
    IN  gc.phase # "unset" /\ gc.mode = "mark" /\ CohortLive
            /\ refs_version = gc.refs_version
        => RefTargets \cup LinksOf(kept) \subseteq kept

\* A published phase has an owner row: finish_build, begin_build and the
\* mark's hand-off queue it first, and no stale slice may take it away.
OwnedPhase == gc.phase # "unset" => \E j \in JobIds : jobs[j].kind = OwnerKind /\ Serves(j)

\* Every unfinished build pack is the current chain's: the janitor never
\* touches a pack without a push, so a forgotten one would stay forever.
NoStrayBuild ==
    \A p \in Packs : packState[p] = "ingesting" /\ packPush[p] = Null => p = gc.new_pack

\* Every chain ends, gc.* is cleared by the sweep, a swap or an abort: when an
\* error, a kill or a requeue that repair may still undo hits any of its slices,
\* when a stale slice meets its successor, and when a push moves the refs at any
\* point of it (MarkAbort, GcConsolidateAbort, GcSweepAbort).
ChainEnds == []<>(gc.chain = 0)

\* Once a chain is over, no dead pack has object rows left: the janitor reaps
\* only dead packs that have none.
CleanSlate == gc.chain = 0 => \A p \in Packs : packState[p] = "dead" => objects[p] = {}

\* At most one row of a kind is queued.  enqueue's dedup alone would give this;
\* a running row that goes back to the queue does not look.
OneQueuedPerKind == \A kind \in GcKinds : \A i, j \in JobIds :
    IsQueued(i, kind) /\ IsQueued(j, kind) => i = j

=============================================================================
