--------------------------- MODULE GcOwnerProofs ----------------------------
(***************************************************************************)
(* Nothing of the collector is left without somebody to finish it: every   *)
(* unfinished build pack belongs to the current chain, and every published *)
(* phase has a job row that serves it.                                     *)
(***************************************************************************)
EXTENDS GcChainInv

-----------------------------------------------------------------------------
(* Build packs. *)

\* An unfinished pack that belongs to no push: only the collector finishes it.
Unfinished(p) == packState[p] = "ingesting" /\ packPush[p] = Null

\* Steps that begin no build and keep gc.new_pack.
LEMMA NoBuildBegun ==
    ASSUME NoStrayBuild, gc'.new_pack = gc.new_pack,
           \A p \in Packs : Unfinished(p)' => Unfinished(p)
    PROVE  NoStrayBuild'
  BY Zenon DEF NoStrayBuild, Unfinished

\* Steps that end the build, if there is one.
LEMMA BuildEnded ==
    ASSUME NoStrayBuild, \A p \in Packs : Unfinished(p)' => Unfinished(p) /\ p # gc.new_pack
    PROVE  NoStrayBuild'
  BY Zenon DEF NoStrayBuild, Unfinished

\* wipe_all leaves no unfinished build pack.
LEMMA WipedBuild ==
    ASSUME GcInv, NoStrayBuild, packState' = WipedState, StoreSame
    PROVE  NoStrayBuild'
<1>1. packState \in [Packs -> PackStates] /\ packPush' = packPush
  BY Zenon DEF GcInv, GcTypeOK, StoreTypeOK, StoreSame
<1>2. CASE gc.new_pack = Null \/ KeepNewPack
  <2>1. packState' = packState /\ (gc.new_pack = Null \/ packState[gc.new_pack] = "live")
    BY Zenon, <1>2 DEF WipedState, KeepNewPack
  <2>2. Null \notin Packs
    BY Zenon, NullAssumption
  <2>3. \A p \in Packs : Unfinished(p)' => Unfinished(p) /\ p # gc.new_pack
    BY <1>1, <2>1, <2>2 DEF Unfinished
  <2> QED
    BY Zenon, <2>3, BuildEnded
<1>3. CASE ~(gc.new_pack = Null \/ KeepNewPack)
  <2>1. packState' = [packState EXCEPT ![gc.new_pack] =
                         IF packState[gc.new_pack] \in {"ingesting", "live"} THEN "dead"
                         ELSE packState[gc.new_pack]]
    BY Zenon, <1>3 DEF WipedState
  <2>2. \A p \in Packs : Unfinished(p)' => Unfinished(p) /\ p # gc.new_pack
    BY <1>1, <2>1 DEF Unfinished
  <2> QED
    BY Zenon, <2>2, BuildEnded
<1> QED
  BY Zenon, <1>2, <1>3

\* A retired cohort: no build begins, and the chain's own pack, once live, stays finished.
LEMMA CohortBuild ==
    ASSUME packState \in [Packs -> PackStates], packPush' = packPush,
           NEW n \in Packs, packState' = DeadCohort([packState EXCEPT ![n] = "live"])
    PROVE  \A p \in Packs : Unfinished(p)' => Unfinished(p) /\ p # n
<1> DEFINE st == [packState EXCEPT ![n] = "live"]
<1>1. st[n] = "live" /\ \A p \in Packs : p # n => st[p] = packState[p]
  BY Zenon
<1> HIDE DEF st
<1>2. \A p \in Packs : packState'[p] = st[p] \/ packState'[p] = "dead"
  BY Zenon DEF DeadCohort, st
<1> QED
  BY Zenon, <1>1, <1>2 DEF Unfinished

\* Steps of the store beside the collector: a push's pack has a push.
LEMMA StoreBuild ==
    ASSUME GcInv, NoStrayBuild,
           \/ (EdgeStep \/ JanitorStep) /\ UNCHANGED gcVars
           \/ CommitStepGc
    PROVE  NoStrayBuild'
<1>0. /\ packState \in [Packs -> PackStates] /\ packPush \in [Packs -> Pushes \cup {Null}]
      /\ doomed \subseteq Packs /\ StoreInv
  BY Zenon DEF GcInv, GcTypeOK, StoreTypeOK
<1>1. gc' = gc
  BY Zenon DEF gcVars, chainVars, CommitStepGc, AtomicFailedAndEnqueue, CommitAndEnqueue
<1>2. CASE EdgeStep
  <2>1. ASSUME NEW u \in Pushes, NEW p \in Packs, NEW c \in PackContents, PushIndexFirst(u, p, c),
               NEW q \in Packs, Unfinished(q)'
        PROVE  Unfinished(q)
    BY Zenon, <1>0, <2>1, NullAssumption DEF PushIndexFirst, Unfinished
  <2>2. CASE UNCHANGED <<packState, packPush>>
    BY Zenon, <1>1, <2>2 DEF NoStrayBuild
  <2>3. \/ UNCHANGED <<packState, packPush>>
        \/ \E u \in Pushes, p \in Packs, c \in PackContents : PushIndexFirst(u, p, c)
    BY Zenon, <1>2 DEF EdgeStep, PushBegin, PushNoPack, PushIndexRows, PackFinish, PushIndexTail,
       PushLookup, EdgeFail, EdgeCrash, packVars
  <2> QED
    BY Zenon, <1>1, <2>1, <2>2, <2>3, NoBuildBegun DEF Unfinished
<1>3. CASE JanitorStep
  <2>1. /\ packPush' = packPush
        /\ \A p \in Packs : packState'[p] = packState[p] \/ packState'[p] \in {"dead", "gone"}
    BY Zenon, <1>0, <1>3 DEF JanitorStep, JanitorMark, JanitorSelect, JanitorDeleteBytes,
       JanitorDeleteRow, JanitorStop, packVars
  <2>2. \A p \in Packs : Unfinished(p)' => Unfinished(p)
    BY <2>1 DEF Unfinished
  <2> QED
    BY Zenon, <1>1, <2>2, NoBuildBegun
<1>4. CASE CommitStepGc
  <2>1. /\ packPush' = packPush
        /\ \A p \in Packs : packState'[p] = packState[p] \/ packState'[p] = "live"
    <3>1. ASSUME NEW u \in Pushes, CommitRejected(u) PROVE <2>1!1 /\ <2>1!2
      BY Zenon, <3>1 DEF CommitRejected, packVars
    <3>2. ASSUME NEW u \in Pushes, NEW cmds \in CommandSets, NEW refused \in SUBSET DOMAIN cmds,
                 AtomicFailedAndEnqueue(u, cmds, refused)
          PROVE  <2>1!1 /\ <2>1!2
      BY Zenon, <3>2 DEF AtomicFailedAndEnqueue, CommitAtomicFailed, packVars
    <3>3. ASSUME NEW u \in Pushes, NEW cmds \in CommandSets, NEW refused \in SUBSET DOMAIN cmds,
                 CommitAndEnqueue(u, cmds, refused)
          PROVE  <2>1!1 /\ <2>1!2
      BY Zenon, <1>0, <3>3 DEF CommitAndEnqueue, CommitPush
    <3> QED
      BY Zenon, <1>4, <3>1, <3>2, <3>3 DEF CommitStepGc
  <2>2. \A p \in Packs : Unfinished(p)' => Unfinished(p)
    BY <2>1 DEF Unfinished
  <2> QED
    BY Zenon, <1>1, <2>2, NoBuildBegun
<1> QED
  BY Zenon, <1>2, <1>3, <1>4

\* Steps that leave the packs alone and keep gc.new_pack.
LEMMA PacksSameBuild ==
    ASSUME NoStrayBuild, packState' = packState, packPush' = packPush, gc'.new_pack = gc.new_pack
    PROVE  NoStrayBuild'
  BY Zenon DEF NoStrayBuild

\* The walk's steps.
LEMMA MarkBuild ==
    ASSUME GcInv, NoStrayBuild, MarkStep PROVE NoStrayBuild'
<1>0. gc \in GcRow
  BY Zenon, TypeParts DEF GcInv, ChainType
<1>1. ASSUME NEW j \in JobIds,
             \/ \E s \in Slices, cands \in SUBSET Packs : GcMarkInit(j, s, cands)
             \/ GcMarkNothing(j)
      PROVE  NoStrayBuild'
  BY Zenon, <1>1, WipedBuild DEF GcMarkInit, GcMarkNothing, WipeAll
<1>2. ASSUME NEW j \in JobIds, GcMarkLate(j) PROVE NoStrayBuild'
  <2>1. (packState' = WipedState \/ (packState' = packState /\ gc' = gc)) /\ StoreSame
    BY Zenon, <1>2 DEF GcMarkLate, WipeAll, PacksSame, chainVars
  <2> QED
    BY Zenon, <2>1, WipedBuild, PacksSameBuild DEF StoreSame
<1>3. ASSUME NEW s \in Slices, MarkAbort(s) PROVE NoStrayBuild'
  BY Zenon, <1>3, WipedBuild DEF MarkAbort, WipeAll
<1>4. ASSUME NEW s \in Slices, MarkHandoff(s) PROVE NoStrayBuild'
  <2>1. gc' = [gc EXCEPT !.phase = "build"] /\ StoreSame /\ PacksSame
    BY Zenon, <1>4 DEF MarkHandoff
  <2> QED
    BY Zenon, <1>0, <2>1, PacksSameBuild DEF GcRow, StoreSame, PacksSame
<1>5. CASE StoreSame /\ PacksSame /\ gc' = gc
  BY Zenon, <1>5, PacksSameBuild DEF StoreSame, PacksSame
<1>6. \/ \E j \in JobIds : \/ \E s \in Slices, cands \in SUBSET Packs : GcMarkInit(j, s, cands)
                           \/ GcMarkNothing(j) \/ GcMarkLate(j)
      \/ \E s \in Slices : MarkAbort(s) \/ MarkHandoff(s)
      \/ StoreSame /\ PacksSame /\ gc' = gc
  <2>1. ASSUME NEW s \in Slices,
               \/ \E j \in JobIds : GcMarkResume(j, s)
               \/ \E batch \in SUBSET frontier :
                     \E at \in [batch \cap LiveObjects -> LivePacks] : MarkPop(s, batch, at)
        PROVE  StoreSame /\ PacksSame /\ gc' = gc
    BY Zenon, <2>1 DEF GcMarkResume, MarkPop, chainVars
  <2>2. ASSUME NEW s \in Slices,
               \/ \E done \in SUBSET slices[s].batch : MarkCommit(s, done)
               \/ \E kids \in SUBSET KidsOf(s, slices[s].batch) : MarkFlushKids(s, kids)
               \/ \E upto \in 1..3 : \E done \in SUBSET slices[s].batch : MarkCommitErr(s, done, upto)
        PROVE  StoreSame /\ PacksSame /\ gc' = gc
    BY Zenon, <2>2 DEF MarkCommit, MarkFlushKids, MarkCommitErr
  <2> QED
    BY Zenon, <2>1, <2>2 DEF MarkStep
<1> QED
  BY Zenon, <1>1, <1>2, <1>3, <1>4, <1>5, <1>6

\* The build's steps: a pack is begun only when the chain has none, or has just
\* dropped it.
LEMMA BuildBuild ==
    ASSUME GcInv, NoStrayBuild, BuildStep PROVE NoStrayBuild'
<1>0. gc \in GcRow /\ packState \in [Packs -> PackStates] /\ Null \notin Packs
  BY Zenon, TypeParts, NullAssumption DEF GcInv, ChainType, StoreTypeOK
<1>1. ASSUME NEW j \in JobIds, GcConsolidateNothing(j) \/ GcConsolidateAbort(j) PROVE NoStrayBuild'
  BY Zenon, <1>1, WipedBuild DEF GcConsolidateNothing, GcConsolidateAbort, WipeAll
<1>2. ASSUME NEW j \in JobIds, NEW s \in Slices, NEW n \in Packs, GcConsolidateBegin(j, s, n)
      PROVE  NoStrayBuild'
  <2>1. /\ gc.new_pack = Null /\ packState' = [packState EXCEPT ![n] = "ingesting"]
        /\ packPush' = packPush /\ gc' = [gc EXCEPT !.new_pack = n]
    BY Zenon, <1>2 DEF GcConsolidateBegin, WithBuildPack, StoreSame
  <2>2. gc'.new_pack = n /\ \A p \in Packs : p # n => packState'[p] = packState[p]
    BY Zenon, <1>0, <2>1 DEF GcRow
  <2> QED
    BY Zenon, <1>0, <2>1, <2>2 DEF NoStrayBuild
<1>3. ASSUME NEW s \in Slices, FinishBuild(s) PROVE NoStrayBuild'
  <2>1. /\ packState' = [packState EXCEPT ![slices[s].pack] = "live"] /\ packPush' = packPush
        /\ gc' = [gc EXCEPT !.phase = "sweep"]
    BY Zenon, <1>3 DEF FinishBuild, StoreSame
  <2>2. gc'.new_pack = gc.new_pack
    BY Zenon, <1>0, <2>1 DEF GcRow
  <2>3. \A p \in Packs : packState'[p] = packState[p] \/ packState'[p] = "live"
    BY Zenon, <1>0, <2>1
  <2>4. \A p \in Packs : Unfinished(p)' => Unfinished(p)
    BY <2>1, <2>3 DEF Unfinished
  <2> QED
    BY Zenon, <2>2, <2>4, NoBuildBegun
<1>4. ASSUME NEW s \in Slices, NEW n \in Packs, BuildRestart(s, n) PROVE NoStrayBuild'
  <2>1. UnbuiltState \in [Packs -> PackStates]
        /\ \A p \in Packs : \/ p # gc.new_pack /\ UnbuiltState[p] = packState[p]
                            \/ UnbuiltState[p] # "ingesting"
    BY Zenon, <1>0 DEF UnbuiltState, PackStates
  <2>2. packPush' = packPush
    BY Zenon, <1>4 DEF BuildRestart, StoreSame
  <2>3. CASE RefsMoved
    <3>1. packState' = UnbuiltState
      BY Zenon, <1>4, <2>3 DEF BuildRestart
    <3>2. \A p \in Packs : Unfinished(p)' => Unfinished(p) /\ p # gc.new_pack
      BY Zenon, <2>1, <2>2, <3>1 DEF Unfinished
    <3> QED
      BY Zenon, <3>2, BuildEnded
  <2>4. CASE ~RefsMoved
    <3>1. /\ packState' = [UnbuiltState EXCEPT ![n] = "ingesting"]
          /\ gc' = [gc EXCEPT !.new_pack = n, !.fails = 0]
      BY Zenon, <1>4, <2>4 DEF BuildRestart, WithBuildPack
    <3>2. gc'.new_pack = n /\ \A p \in Packs : p # n => packState'[p] = UnbuiltState[p]
      BY Zenon, <1>0, <2>1, <3>1 DEF GcRow
    <3> QED
      BY Zenon, <2>1, <2>2, <3>2 DEF NoStrayBuild
  <2> QED
    BY Zenon, <2>3, <2>4
<1>5. ASSUME NEW j \in JobIds, NEW failed \in BOOLEAN, GcConsolidateEmpty(j, failed)
      PROVE  NoStrayBuild'
  <2>1. /\ StoreSame /\ PacksSame
        /\ gc' = [gc EXCEPT !.fails = 0] \/ gc' = [gc EXCEPT !.fails = 0, !.phase = "sweep"]
    BY Zenon, <1>5 DEF GcConsolidateEmpty
  <2> QED
    BY Zenon, <1>0, <2>1, PacksSameBuild DEF GcRow, StoreSame, PacksSame
<1>6. ASSUME NEW s \in Slices, BuildRetry(s) PROVE NoStrayBuild'
  <2>1. StoreSame /\ PacksSame /\ gc' = [gc EXCEPT !.fails = 1]
    BY Zenon, <1>6 DEF BuildRetry
  <2> QED
    BY Zenon, <1>0, <2>1, PacksSameBuild DEF GcRow, StoreSame, PacksSame
<1>7. CASE packState' = packState /\ packPush' = packPush /\ gc' = gc
  BY Zenon, <1>7, PacksSameBuild
<1>8. \/ \E j \in JobIds : GcConsolidateNothing(j) \/ GcConsolidateAbort(j)
      \/ \E j \in JobIds, failed \in BOOLEAN : GcConsolidateEmpty(j, failed)
      \/ \E j \in JobIds, s \in Slices, n \in Packs : GcConsolidateBegin(j, s, n)
      \/ \E s \in Slices : FinishBuild(s) \/ BuildRetry(s)
      \/ \E s \in Slices, n \in Packs : BuildRestart(s, n)
      \/ packState' = packState /\ packPush' = packPush /\ gc' = gc
  BY Zenon DEF BuildStep, GcDropRow, GcConsolidateResume, BuildRows, BuildComplete, BuildUpload,
     StoreSame, PacksSame, chainVars, gcVars, packVars
<1> QED
  BY Zenon, <1>1, <1>2, <1>3, <1>4, <1>5, <1>6, <1>7, <1>8

\* Compaction and the sweep: when they clear the chain, its build pack is live.
LEMMA RetireBuild ==
    ASSUME GcInv, NoStrayBuild, RetireStep PROVE NoStrayBuild'
<1>0. packState \in [Packs -> PackStates] /\ Null \notin Packs
  BY Zenon, TypeParts, NullAssumption DEF GcInv, StoreTypeOK
<1>1. ASSUME NEW s \in Slices, NEW failed \in BOOLEAN, NEW again \in BOOLEAN, Swap(s, failed, again)
      PROVE  NoStrayBuild'
  <2>1. CASE ~CohortLive
    BY Zenon, <1>1, <2>1, WipedBuild DEF Swap, WipeAll
  <2>2. CASE CohortLive
    <3>1. slices[s].pack = gc.new_pack /\ gc.new_pack \in Packs
      BY Zenon, <1>1, FenceFacts DEF Swap, Uploaded, Building
    <3>2. /\ packState' = DeadCohort([packState EXCEPT ![gc.new_pack] = "live"])
          /\ packPush' = packPush
      BY Zenon, <1>1, <2>2, <3>1 DEF Swap, StoreSame
    <3> QED
      BY Zenon, <1>0, <3>1, <3>2, CohortBuild, BuildEnded
  <2> QED
    BY Zenon, <2>1, <2>2
<1>2. ASSUME NEW j \in JobIds,
             \/ \E cohort \in SUBSET Packs, failed \in BOOLEAN : GcCompact(j, cohort, failed)
             \/ GcCompactNothing(j) \/ GcSweepAbort(j)
      PROVE  NoStrayBuild'
  BY Zenon, <1>2, WipedBuild DEF GcCompact, GcCompactNothing, GcSweepAbort, WipeAll
<1>3. ASSUME NEW j \in JobIds, NEW failed \in BOOLEAN, GcSweep(j, failed) PROVE NoStrayBuild'
  <2>1. packState' = DeadCohort(packState) /\ packPush' = packPush /\ gc.phase = "sweep"
    BY Zenon, <1>3 DEF GcSweep, Sweeper
  <2>2. gc.new_pack \in Packs => packState[gc.new_pack] = "live"
    BY Zenon, <1>0, <2>1 DEF GcInv, NewPack
  <2>3. \A p \in Packs : packState'[p] = packState[p] \/ packState'[p] = "dead"
    BY Zenon, <2>1 DEF DeadCohort
  <2>4. \A p \in Packs : Unfinished(p)' => Unfinished(p) /\ p # gc.new_pack
    BY <2>1, <2>2, <2>3 DEF Unfinished
  <2> QED
    BY Zenon, <2>4, BuildEnded
<1> QED
  BY Zenon, <1>1, <1>2, <1>3 DEF RetireStep

\* Every step keeps unfinished build packs with their chain.
LEMMA NoStrayBuildStep ==
    ASSUME GcInv, NoStrayBuild, [GcNext]_vars PROVE NoStrayBuild'
<1>1. CASE SliceStep
  <2>1. StoreSame /\ PacksSame /\ gc' = gc
    BY Zenon, <1>1 DEF SliceStep, SliceYield, SliceStale, SliceErr, SliceKill, Repair, JanitorEnqueue,
       chainVars
  <2> QED
    BY Zenon, <2>1, PacksSameBuild DEF StoreSame, PacksSame
<1>2. CASE UNCHANGED vars
  BY Zenon, <1>2, PacksSameBuild DEF vars, storeVars, gcVars
<1> QED
  BY Zenon, <1>1, <1>2, StoreBuild, MarkBuild, BuildBuild, RetireBuild DEF GcNext

-----------------------------------------------------------------------------
(* The inductive invariant. *)

Pending(i) == jobs[i].state \in {"queued", "running"}

\* While a chain stands, no builder that may still run belongs to an older
\* one: enqueue, which is satisfied with any queued row, then finds one that
\* serves.  Outside the build phase only a revived builder is left, and repair
\* gives it no chain.
FreshBuilders == gc.chain # 0 =>
    \A i \in JobIds : jobs[i].kind = "gc_consolidate" /\ Pending(i) =>
        Serves(i) /\ (gc.phase # "build" => jobs[i].chain = 0)

\* The same for the sweep of a mark chain.
FreshSweepers == gc.chain # 0 /\ gc.mode = "mark" =>
    \A i \in JobIds : jobs[i].kind = "gc_sweep" /\ Pending(i) => Serves(i)

Walks(s) == slices[s].pc \in {"start", "loop", "read", "rest"}

\* A slice of the walk holds no row but a gc_mark.
Walkers == \A s \in Slices : Walks(s) /\ Held(s) => jobs[slices[s].job].kind = "gc_mark"

\* The row's slice has been overtaken by another build: it will find its fence
\* broken and delete the row.
Overtaken(i) == \E s \in Slices :
    Building(s) /\ Held(s) /\ slices[s].job = i /\ ~ChainFence(s)

OwnerRow(i) == jobs[i].kind = OwnerKind /\ Serves(i) /\ ~Overtaken(i)

\* A published phase has a row that no slice is about to delete.
Owned == gc.phase # "unset" => \E i \in JobIds : OwnerRow(i)

OwnerInv == FreshBuilders /\ FreshSweepers /\ Walkers /\ Owned

-----------------------------------------------------------------------------
(* Rows and slices that only go on or end. *)

\* No row starts to run, or changes hands.
NoneClaimed == \A i \in JobIds : jobs'[i].state = "running" => jobs'[i] = jobs[i]

\* No slice begins: each one stays where it was, goes on with its work, or ends.
NoneBegun == \A t \in Slices : slices'[t].pc # "none" =>
    /\ slices[t].pc # "none"
    /\ slices'[t].job = slices[t].job
    /\ slices'[t].chain = slices[t].chain
    /\ slices'[t].pack = slices[t].pack
    /\ Walks(t)' => Walks(t)
    /\ Building(t)' => Building(t)

\* The phase keeps its meaning.
SamePhase == /\ gc'.chain = gc.chain /\ gc'.mode = gc.mode
             /\ gc'.phase = gc.phase /\ gc'.new_pack = gc.new_pack

\* What a pending builder or sweeper row was before the step, unless it is new.
SameOwners == \A i \in JobIds : jobs'[i].kind \in {"gc_consolidate", "gc_sweep"} /\ Pending(i)' =>
    jobs[i].kind = jobs'[i].kind /\ jobs[i].chain = jobs'[i].chain /\ Pending(i)

\* The kinds that own a phase.
LEMMA OwnerKinds ==
    /\ gc.phase = "sweep" => OwnerKind = "gc_sweep"
    /\ gc.phase = "build" => OwnerKind = "gc_consolidate"
    /\ gc.phase = "unset" => OwnerKind = "gc_mark"
  BY DEF OwnerKind

\* The same of the next state.
LEMMA OwnerKindsNext ==
    /\ gc'.phase = "sweep" => OwnerKind' = "gc_sweep"
    /\ gc'.phase = "build" => OwnerKind' = "gc_consolidate"
    /\ gc'.phase = "unset" => OwnerKind' = "gc_mark"
  BY DEF OwnerKind

\* A slice that holds its row held it before.
LEMMA HeldBefore ==
    ASSUME GcInv, NoneClaimed, NoneBegun, NEW t \in Slices, Held(t)'
    PROVE  /\ Held(t) /\ slices'[t].job = slices[t].job /\ slices[t].job \in JobIds
           /\ jobs'[slices[t].job] = jobs[slices[t].job]
<1>1. /\ slices'[t].pc # "none" /\ jobs'[slices'[t].job].state = "running"
      /\ jobs'[slices'[t].job].lease = t
  BY Zenon DEF Held
<1>2. slices[t].pc # "none" /\ slices'[t].job = slices[t].job
  BY Zenon, <1>1 DEF NoneBegun
<1>3. slices[t].job \in JobIds
  BY Zenon, <1>2 DEF GcInv, ChainIds
<1>4. jobs'[slices[t].job] = jobs[slices[t].job]
  BY Zenon, <1>1, <1>2, <1>3 DEF NoneClaimed
<1> QED
  BY Zenon, <1>1, <1>2, <1>3, <1>4 DEF Held

\* The walk's slices still hold gc_mark rows.
LEMMA WalkersKept ==
    ASSUME GcInv, Walkers, NoneClaimed, NoneBegun PROVE Walkers'
<1> SUFFICES ASSUME NEW t \in Slices, Walks(t)', Held(t)'
             PROVE  jobs'[slices'[t].job].kind = "gc_mark"
  BY Zenon DEF Walkers
<1>1. /\ Held(t) /\ slices'[t].job = slices[t].job
      /\ jobs'[slices[t].job] = jobs[slices[t].job]
  BY Zenon, HeldBefore
<1>2. Walks(t)
  BY Zenon DEF NoneBegun, Held
<1> QED
  BY Zenon, <1>1, <1>2 DEF Walkers

\* A row that keeps its kind and chain still owns the phase.
LEMMA OwnerKept ==
    ASSUME GcInv, NoneClaimed, NoneBegun, SamePhase, NEW i \in JobIds, OwnerRow(i),
           jobs'[i].kind = jobs[i].kind, jobs'[i].chain = jobs[i].chain
    PROVE  OwnerRow(i)'
<1>1. OwnerKind' = OwnerKind
  BY Zenon DEF OwnerKind, SamePhase
<1>2. jobs'[i].kind = OwnerKind' /\ Serves(i)'
  BY Zenon, <1>1 DEF OwnerRow, Serves, SamePhase
<1>3. ASSUME NEW t \in Slices, Building(t)', Held(t)', slices'[t].job = i, ~ChainFence(t)'
      PROVE  FALSE
  <2>1. Held(t) /\ slices[t].job = i
    BY Zenon, <1>3, HeldBefore
  <2>2. Building(t) /\ slices'[t].chain = slices[t].chain /\ slices'[t].pack = slices[t].pack
    BY Zenon, <1>3 DEF NoneBegun, Held
  <2>3. ~ChainFence(t)
    BY Zenon, <1>3, <2>1, <2>2 DEF ChainFence, SamePhase
  <2> QED
    BY Zenon, <2>1, <2>2, <2>3 DEF OwnerRow, Overtaken
<1> QED
  BY Zenon, <1>2, <1>3 DEF OwnerRow, Overtaken

\* Pending builders and sweepers still serve the chain.
LEMMA FreshKept ==
    ASSUME FreshBuilders, FreshSweepers, SamePhase, SameOwners
    PROVE  FreshBuilders' /\ FreshSweepers'
<1>1. FreshBuilders'
  BY Zenon DEF FreshBuilders, SamePhase, SameOwners, Serves
<1>2. FreshSweepers'
  BY Zenon DEF FreshSweepers, SamePhase, SameOwners, Serves
<1> QED
  BY Zenon, <1>1, <1>2

\* A step that keeps the phase, and deletes no row that owns it.
LEMMA OwnerSame ==
    ASSUME GcInv, OwnerInv, NoneClaimed, NoneBegun, SamePhase, SameOwners,
           gc.phase # "unset" => \A i \in JobIds : OwnerRow(i) =>
               jobs'[i].kind = jobs[i].kind /\ jobs'[i].chain = jobs[i].chain
    PROVE  OwnerInv'
<1>1. Owned'
  BY Zenon, OwnerKept DEF OwnerInv, Owned, SamePhase
<1> QED
  BY Zenon, <1>1, FreshKept, WalkersKept DEF OwnerInv

\* A step that ends the chain.
LEMMA OwnerCleared ==
    ASSUME GcInv, OwnerInv, NoneClaimed, NoneBegun, gc' = NoGc PROVE OwnerInv'
<1>1. gc'.chain = 0 /\ gc'.phase = "unset"
  BY Zenon DEF NoGc
<1> QED
  BY Zenon, <1>1, WalkersKept DEF OwnerInv, FreshBuilders, FreshSweepers, Owned

\* A queued row of the right kind owns a phase that is published beside it.
LEMMA OwnerQueued ==
    ASSUME NEW i \in JobIds, jobs'[i].state # "running", jobs'[i].kind = OwnerKind',
           jobs'[i].chain \in {0, gc'.chain}
    PROVE  Owned'
<1>1. Serves(i)'
  BY Zenon DEF Serves
<1>2. ~Overtaken(i)'
  BY Zenon DEF Overtaken, Held
<1> QED
  BY Zenon, <1>1, <1>2 DEF Owned, OwnerRow

-----------------------------------------------------------------------------
(* What the operations on the jobs table do to a row. *)

\* One row goes back to the queue, or dies, and keeps its kind and chain.
LEMMA ReleasedRow ==
    ASSUME NEW js \in JobTable, NEW j \in JobIds, NEW rs \in LandErr(js, j)
    PROVE  /\ rs \in JobTable
           /\ rs[j].kind = js[j].kind /\ rs[j].chain = js[j].chain
           /\ rs[j].state \in {"queued", "dead"}
           /\ \A i \in JobIds : i # j => rs[i] = js[i]
<1>1. PICK state \in {"queued", "dead"} : rs = Release(js, j, state)
  BY Zenon DEF LandErr
<1>2. Release(js, j, state)[j].chain = js[j].chain
  BY Zenon DEF Release, JobTable, Row
<1>3. /\ Release(js, j, state) \in JobTable
      /\ Release(js, j, state)[j].kind = js[j].kind
      /\ Release(js, j, state)[j].state = state
      /\ \A i \in JobIds : i # j => Release(js, j, state)[i] = js[i]
  BY SMTT(30), <1>1 DEF Release, JobTable, Row
<1> QED
  BY Zenon, <1>1, <1>2, <1>3

\* A claimed row keeps its chain.
LEMMA ClaimedChain ==
    ASSUME NEW js \in JobTable, NEW j \in JobIds, NEW s \in Slices
    PROVE  Claim(js, j, s)[j].chain = js[j].chain
  BY Zenon DEF Claim, JobTable, Row

\* enqueue ends with a queued row of the kind: the new one, or one that was there.
LEMMA EnqueuedRow ==
    ASSUME NEW js \in JobTable, NEW kind \in GcKinds, NEW chain \in Nat, CanEnqueue(js, kind)
    PROVE  \E q \in JobIds :
              /\ Enqueue(js, kind, chain)[q].kind = kind
              /\ Enqueue(js, kind, chain)[q].state = "queued"
              /\ Enqueue(js, kind, chain)[q] = js[q] \/ Enqueue(js, kind, chain)[q].chain = chain
<1> DEFINE row == [kind |-> kind, chain |-> chain, state |-> "queued", lease |-> Null]
<1>1. CASE HasQueued(js, kind)
  BY Zenon, <1>1 DEF Enqueue, HasQueued
<1>2. CASE ~HasQueued(js, kind)
  <2>1. Enqueue(js, kind, chain) = [js EXCEPT ![FreeRow(js)] = row]
    BY Zenon, <1>2 DEF Enqueue
  <2>2. FreeRow(js) \in JobIds
    BY Zenon, <1>2 DEF CanEnqueue, FreeRow
  <2>3. Enqueue(js, kind, chain)[FreeRow(js)] = row
    BY Zenon, <2>1, <2>2 DEF JobTable
  <2>4. row.kind = kind /\ row.state = "queued" /\ row.chain = chain
    BY Zenon
  <2> HIDE DEF row
  <2> QED
    BY Zenon, <2>2, <2>3, <2>4
<1> QED
  BY Zenon, <1>1, <1>2

\* Rows that end or go back leave the rows of the other builders and sweepers
\* as they were.
LEMMA RowEnds ==
    ASSUME jobs \in JobTable, NEW j \in JobIds,
           \/ jobs' = Delete(jobs, j)
           \/ Pending(j) /\ jobs' \in LandErr(jobs, j)
    PROVE  /\ NoneClaimed /\ SameOwners
           /\ \A i \in JobIds : i # j => jobs'[i] = jobs[i]
<1>1. CASE jobs' = Delete(jobs, j)
  <2>1. jobs'[j] = NoRow /\ \A i \in JobIds : i # j => jobs'[i] = jobs[i]
    BY Zenon, <1>1, DeleteRows
  <2> QED
    BY <2>1 DEF NoneClaimed, SameOwners, NoRow, Pending
<1>2. CASE Pending(j) /\ jobs' \in LandErr(jobs, j)
  <2>1. /\ jobs'[j].kind = jobs[j].kind /\ jobs'[j].chain = jobs[j].chain
        /\ jobs'[j].state \in {"queued", "dead"}
        /\ \A i \in JobIds : i # j => jobs'[i] = jobs[i]
    BY Zenon, <1>2, ReleasedRow
  <2> QED
    BY Zenon, <1>2, <2>1 DEF NoneClaimed, SameOwners, Pending
<1> QED
  BY Zenon, <1>1, <1>2

\* A row that fails or yields keeps its phase owned.
LEMMA OwnerReleased ==
    ASSUME GcInv, OwnerInv, NEW j \in JobIds, Pending(j), jobs' \in LandErr(jobs, j),
           NoneBegun, SamePhase
    PROVE  OwnerInv'
<1>1. jobs \in JobTable
  BY Zenon, TypeParts DEF GcInv
<1>2. NoneClaimed /\ SameOwners /\ \A i \in JobIds : i # j => jobs'[i] = jobs[i]
  BY Zenon, <1>1, RowEnds
<1>3. jobs'[j].kind = jobs[j].kind /\ jobs'[j].chain = jobs[j].chain
  BY Zenon, <1>1, ReleasedRow
<1> QED
  BY Zenon, <1>2, <1>3, OwnerSame

\* A row that ends without owning the phase.
LEMMA OwnerDeleted ==
    ASSUME GcInv, OwnerInv, NEW j \in JobIds, jobs' = Delete(jobs, j),
           NoneBegun, SamePhase, gc.phase # "unset" => ~OwnerRow(j)
    PROVE  OwnerInv'
<1>1. jobs \in JobTable
  BY Zenon, TypeParts DEF GcInv
<1>2. NoneClaimed /\ SameOwners /\ \A i \in JobIds : i # j => jobs'[i] = jobs[i]
  BY Zenon, <1>1, RowEnds
<1>3. gc.phase # "unset" => \A i \in JobIds : OwnerRow(i) =>
         jobs'[i].kind = jobs[i].kind /\ jobs'[i].chain = jobs[i].chain
  BY Zenon, <1>2
<1> QED
  BY Zenon, <1>2, <1>3, OwnerSame

\* The jobs table and the chain stay as they are.
LEMMA OwnerStill ==
    ASSUME GcInv, OwnerInv, jobs' = jobs, NoneBegun, SamePhase PROVE OwnerInv'
<1>1. NoneClaimed /\ SameOwners
  BY Zenon DEF NoneClaimed, SameOwners, Pending
<1> QED
  BY Zenon, <1>1, OwnerSame

\* No slice begins when none changes, and when one ends.
LEMMA NoneBegunSame ==
    ASSUME slices \in SliceTable,
           slices' = slices \/ \E s \in Slices : slices' = [slices EXCEPT ![s] = NoSlice]
    PROVE  NoneBegun
<1>1. CASE slices' = slices
  BY Zenon, <1>1 DEF NoneBegun, Walks, Building
<1>2. ASSUME NEW s \in Slices, slices' = [slices EXCEPT ![s] = NoSlice] PROVE NoneBegun
  <2>1. slices'[s].pc = "none" /\ \A t \in Slices : t # s => slices'[t] = slices[t]
    BY Zenon, <1>2, NoSliceRow DEF SliceTable
  <2> QED
    BY Zenon, <2>1 DEF NoneBegun, Walks, Building
<1> QED
  BY Zenon, <1>1, <1>2

-----------------------------------------------------------------------------
(* The steps that end a chain. *)

\* The rows an abort, a finished row or an orphan's cleanup leaves: none is claimed.
LEMMA EndRows ==
    ASSUME jobs \in JobTable, NEW j \in JobIds,
           \/ CanEnqueue(Running(jobs, j), "gc_mark") /\ jobs' = AbortJobs(j)
           \/ jobs' = Delete(jobs, j)
           \/ jobs' = WithoutDeadRows(jobs)
           \/ jobs' = Delete(WithoutDeadRows(jobs), j)
           \/ CanEnqueue(jobs, "gc_compact") /\ jobs' = Delete(Enqueue(jobs, "gc_compact", 0), j)
    PROVE  NoneClaimed
<1>1. Tame(jobs')
  <2>1. CASE CanEnqueue(Running(jobs, j), "gc_mark") /\ jobs' = AbortJobs(j)
    BY Zenon, <2>1, TameAbort
  <2>2. CASE jobs' = Delete(jobs, j)
    BY Zenon, <2>2, TameDelete
  <2>3. CASE jobs' = WithoutDeadRows(jobs) \/ jobs' = Delete(WithoutDeadRows(jobs), j)
    BY Zenon, <2>3, TameWithoutDead, TameWithoutDeadDelete
  <2>4. CASE CanEnqueue(jobs, "gc_compact") /\ jobs' = Delete(Enqueue(jobs, "gc_compact", 0), j)
    <3>1. "gc_compact" \in GcKinds \ {"gc_consolidate"} /\ 0 \in Nat
      BY DEF GcKinds
    <3> QED
      BY Zenon, <2>4, <3>1, TameEnqueueDelete
  <2> QED
    BY Zenon, <2>1, <2>2, <2>3, <2>4
<1> QED
  BY Zenon, <1>1 DEF Tame, TameRow, NoneClaimed

\* The room for a new gc_mark row is still there once the aborting row runs.
LEMMA AbortRoom ==
    ASSUME jobs \in JobTable, NEW j \in JobIds, CanEnqueue(jobs, "gc_mark"), Pending(j),
           jobs[j].kind # "gc_mark" \/ jobs[j].state = "running"
    PROVE  CanEnqueue(Running(jobs, j), "gc_mark")
  BY Zenon, CanStillEnqueue DEF Pending, GcKinds

\* wipe_all, and whatever else clears gc.*, leaves nothing to own.
LEMMA ClearingOwner ==
    ASSUME GcInv, OwnerInv,
           \/ \E j \in JobIds : \/ GcMarkNothing(j) \/ GcConsolidateNothing(j) \/ GcConsolidateAbort(j)
                                \/ GcCompactNothing(j) \/ GcSweepAbort(j)
           \/ \E s \in Slices : MarkAbort(s)
    PROVE  OwnerInv'
<1>0. jobs \in JobTable /\ slices \in SliceTable
  BY Zenon, TypeParts DEF GcInv
<1>1. ASSUME NEW j \in JobIds, GcMarkNothing(j) \/ GcConsolidateNothing(j) \/ GcCompactNothing(j)
      PROVE  OwnerInv'
  <2>1. /\ gc' = NoGc /\ slices' = slices
        /\ \/ jobs' = Delete(jobs, j) \/ jobs' = WithoutDeadRows(jobs)
           \/ jobs' = Delete(WithoutDeadRows(jobs), j)
    BY Zenon, <1>1 DEF GcMarkNothing, GcConsolidateNothing, GcCompactNothing, WipeAll, ClearChain
  <2> QED
    BY Zenon, <1>0, <2>1, EndRows, NoneBegunSame, OwnerCleared
<1>2. ASSUME NEW j \in JobIds, GcConsolidateAbort(j) \/ GcSweepAbort(j) PROVE OwnerInv'
  <2>1. gc' = NoGc /\ slices' = slices /\ jobs' = AbortJobs(j) /\ CanEnqueue(jobs, "gc_mark")
    BY Zenon, <1>2 DEF GcConsolidateAbort, GcSweepAbort, WipeAll, ClearChain
  <2>2. Pending(j) /\ jobs[j].kind # "gc_mark"
    BY <1>2 DEF GcConsolidateAbort, GcSweepAbort, Builder, Sweeper, Dispatched, IsQueued, Pending
  <2> QED
    BY Zenon, <1>0, <2>1, <2>2, AbortRoom, EndRows, NoneBegunSame, OwnerCleared
<1>3. ASSUME NEW s \in Slices, MarkAbort(s) PROVE OwnerInv'
  <2>1. /\ gc' = NoGc /\ jobs' = AbortJobs(slices[s].job) /\ CanEnqueue(jobs, "gc_mark")
        /\ slices' = [slices EXCEPT ![s] = NoSlice] /\ Held(s)
    BY Zenon, <1>3 DEF MarkAbort, WipeAll, ClearChain, MarkFence
  <2>2. slices[s].job \in JobIds /\ Pending(slices[s].job) /\ jobs[slices[s].job].state = "running"
    BY Zenon, <2>1 DEF Held, GcInv, ChainIds, Pending
  <2> QED
    BY Zenon, <1>0, <2>1, <2>2, AbortRoom, EndRows, NoneBegunSame, OwnerCleared
<1> QED
  BY Zenon, <1>1, <1>2, <1>3

\* gc_mark comes late: it aborts the chain, or ends without touching it.
LEMMA GcMarkLateOwner ==
    ASSUME GcInv, OwnerInv, NEW j \in JobIds, GcMarkLate(j) PROVE OwnerInv'
<1>0. jobs \in JobTable /\ slices \in SliceTable /\ slices' = slices /\ gc.phase # "unset"
  BY Zenon, TypeParts DEF GcInv, GcMarkLate
<1>1. CASE refs_version # gc.refs_version
  <2>1. gc' = NoGc /\ jobs' = AbortJobs(j) /\ CanEnqueue(Running(jobs, j), "gc_mark")
    BY Zenon, <1>1 DEF GcMarkLate, WipeAll, ClearChain
  <2> QED
    BY Zenon, <1>0, <2>1, EndRows, NoneBegunSame, OwnerCleared
<1>2. CASE refs_version = gc.refs_version
  <2>1. gc' = gc /\ jobs' = Delete(jobs, j) /\ jobs[j].kind = "gc_mark"
    BY Zenon, <1>2 DEF GcMarkLate, chainVars, Dispatched, IsQueued
  <2>2. gc.phase \in {"build", "sweep"}
    BY Zenon, <1>0, TypeParts DEF GcInv, ChainType, GcRow
  <2>3. ~OwnerRow(j)
    BY <2>1, <2>2, OwnerKinds DEF OwnerRow
  <2> QED
    BY Zenon, <1>0, <2>1, <2>3, NoneBegunSame, OwnerDeleted DEF SamePhase
<1> QED
  BY Zenon, <1>1, <1>2

-----------------------------------------------------------------------------
(* The steps that keep the phase. *)

\* A slice goes on or is killed, its row untouched.
LEMMA StillOwner ==
    ASSUME GcInv, OwnerInv, jobs' = jobs, gc' = gc, NEW s \in Slices,
           \/ slices' = slices
           \/ slices' = [slices EXCEPT ![s] = NoSlice]
           \/ /\ \A t \in Slices : t # s => slices'[t] = slices[t]
              /\ slices[s].pc # "none" /\ slices'[s].job = slices[s].job
              /\ slices'[s].chain = slices[s].chain /\ slices'[s].pack = slices[s].pack
              /\ Walks(s)' => Walks(s)
              /\ Building(s)' => Building(s)
    PROVE  OwnerInv'
<1>0. slices \in SliceTable
  BY Zenon, TypeParts DEF GcInv
<1>1. NoneBegun
  <2>1. CASE slices' = slices \/ slices' = [slices EXCEPT ![s] = NoSlice]
    BY Zenon, <1>0, <2>1, NoneBegunSame
  <2>2. CASE ~(slices' = slices \/ slices' = [slices EXCEPT ![s] = NoSlice])
    BY Zenon, <2>2 DEF NoneBegun, Walks, Building
  <2> QED
    BY Zenon, <2>1, <2>2
<1> QED
  BY Zenon, <1>1, OwnerStill DEF SamePhase

\* The walk goes on.
LEMMA WalkOwner ==
    ASSUME GcInv, OwnerInv, NEW s \in Slices,
           \/ \E batch \in SUBSET frontier :
                 \E at \in [batch \cap LiveObjects -> LivePacks] : MarkPop(s, batch, at)
           \/ \E done \in SUBSET slices[s].batch : MarkCommit(s, done)
           \/ \E kids \in SUBSET KidsOf(s, slices[s].batch) : MarkFlushKids(s, kids)
    PROVE  OwnerInv'
<1>0. slices \in SliceTable
  BY Zenon, TypeParts DEF GcInv
<1>1. gc' = gc /\ jobs' = jobs
  BY Zenon DEF MarkPop, MarkCommit, MarkFlushKids, chainVars
<1>2. /\ \A t \in Slices : t # s => slices'[t] = slices[t]
      /\ slices[s].pc \in {"start", "loop", "read", "rest"}
      /\ slices'[s].job = slices[s].job /\ slices'[s].chain = slices[s].chain
      /\ slices'[s].pack = slices[s].pack
      /\ slices'[s].pc \in {"start", "loop", "read", "rest"}
  <2>1. ASSUME NEW batch \in SUBSET frontier, NEW at \in [batch \cap LiveObjects -> LivePacks],
               MarkPop(s, batch, at)
        PROVE  <1>2!1 /\ <1>2!2 /\ <1>2!3 /\ <1>2!4 /\ <1>2!5
    <3>1. slices' = [slices EXCEPT
             ![s].pc = "read", ![s].batch = batch, ![s].hits = DOMAIN at,
             ![s].bits = [p \in Packs |-> {o \in DOMAIN at : p \in marked /\ at[o] = p}]]
          /\ AtLoop(s)
      BY Zenon, <2>1 DEF MarkPop
    <3> QED
      BY Zenon, <1>0, <3>1 DEF AtLoop, SliceTable, SliceRow
  <2>2. ASSUME NEW done \in SUBSET slices[s].batch, MarkCommit(s, done)
        PROVE  <1>2!1 /\ <1>2!2 /\ <1>2!3 /\ <1>2!4 /\ <1>2!5
    <3>1. slices' = [slices EXCEPT
             ![s].batch = slices[s].batch \ done, ![s].bits = NoBits,
             ![s].pc = IF slices[s].batch = done THEN "loop" ELSE "rest"]
          /\ InBatch(s)
      BY Zenon, <2>2 DEF MarkCommit
    <3> QED
      BY Zenon, <1>0, <3>1 DEF InBatch, SliceTable, SliceRow
  <2>3. ASSUME NEW kids \in SUBSET KidsOf(s, slices[s].batch), MarkFlushKids(s, kids)
        PROVE  <1>2!1 /\ <1>2!2 /\ <1>2!3 /\ <1>2!4 /\ <1>2!5
    <3>1. slices' = [slices EXCEPT ![s].bits = NoBits] /\ InBatch(s)
      BY Zenon, <2>3 DEF MarkFlushKids
    <3> QED
      BY Zenon, <1>0, <3>1 DEF InBatch, SliceTable, SliceRow
  <2> QED
    BY Zenon, <2>1, <2>2, <2>3
<1>3. slices[s].pc # "none" /\ Walks(s) /\ ~Building(s)'
  BY <1>2 DEF Walks, Building
<1> QED
  BY Zenon, <1>1, <1>2, <1>3, StillOwner

\* The build goes on: rows are posted, the upload completes.
LEMMA CopyOwner ==
    ASSUME GcInv, OwnerInv, NEW s \in Slices,
           \/ \E rows \in SUBSET Marked : BuildRows(s, rows)
           \/ BuildComplete(s) \/ BuildUpload(s)
    PROVE  OwnerInv'
<1>0. slices \in SliceTable
  BY Zenon, TypeParts DEF GcInv
<1>1. gc' = gc /\ jobs' = jobs
  BY Zenon DEF BuildRows, BuildComplete, BuildUpload, chainVars, jobVars, gcVars
<1>2. CASE BuildComplete(s)
  <2>1. slices' = [slices EXCEPT ![s].pc = "upload"] /\ slices[s].pc = "build"
    BY Zenon, <1>2 DEF BuildComplete
  <2>2. /\ \A t \in Slices : t # s => slices'[t] = slices[t]
        /\ slices'[s].pc = "upload" /\ slices'[s].job = slices[s].job
        /\ slices'[s].chain = slices[s].chain /\ slices'[s].pack = slices[s].pack
    BY Zenon, <1>0, <2>1 DEF SliceTable, SliceRow
  <2>3. slices[s].pc # "none" /\ Building(s) /\ ~Walks(s)'
    BY <2>1, <2>2 DEF Walks, Building
  <2> QED
    BY Zenon, <1>1, <2>2, <2>3, StillOwner
<1>3. CASE slices' = slices
  BY Zenon, <1>1, <1>3, StillOwner
<1>4. BuildComplete(s) \/ slices' = slices
  BY Zenon DEF BuildRows, BuildUpload, jobVars, gcVars
<1> QED
  BY Zenon, <1>2, <1>3, <1>4

\* A slice that fails puts its row back, or lets it die.
LEMMA FailOwner ==
    ASSUME GcInv, OwnerInv, NEW s \in Slices, Held(s), SamePhase,
           jobs' \in LandErr(jobs, slices[s].job), slices' = [slices EXCEPT ![s] = NoSlice]
    PROVE  OwnerInv'
<1>1. slices \in SliceTable /\ slices[s].job \in JobIds /\ Pending(slices[s].job)
  BY Zenon, TypeParts DEF GcInv, Held, ChainIds, Pending
<1> QED
  BY Zenon, <1>1, NoneBegunSame, OwnerReleased

\* The errors of the walk, of the upload and of a slice, and its end of budget.
LEMMA FailedOwner ==
    ASSUME GcInv, OwnerInv, NEW s \in Slices,
           \/ \E upto \in 1..3 : \E done \in SUBSET slices[s].batch : MarkCommitErr(s, done, upto)
           \/ BuildRetry(s) \/ SliceYield(s) \/ SliceErr(s) \/ SliceKill(s)
    PROVE  OwnerInv'
<1>0. gc \in GcRow
  BY Zenon, TypeParts DEF GcInv, ChainType
<1>1. ASSUME NEW upto \in 1..3, NEW done \in SUBSET slices[s].batch, MarkCommitErr(s, done, upto)
      PROVE  OwnerInv'
  <2>1. /\ Held(s) /\ gc' = gc /\ jobs' \in LandErr(jobs, slices[s].job)
        /\ slices' = [slices EXCEPT ![s] = NoSlice]
    BY Zenon, <1>1 DEF MarkCommitErr, MarkFence
  <2> QED
    BY Zenon, <2>1, FailOwner DEF SamePhase
<1>2. CASE BuildRetry(s)
  <2>1. /\ Held(s) /\ gc' = [gc EXCEPT !.fails = 1] /\ jobs' \in LandErr(jobs, slices[s].job)
        /\ slices' = [slices EXCEPT ![s] = NoSlice]
    BY Zenon, <1>2 DEF BuildRetry, ChainFence
  <2>2. SamePhase
    BY Zenon, <1>0, <2>1 DEF SamePhase, GcRow
  <2> QED
    BY Zenon, <2>1, <2>2, FailOwner
<1>3. CASE SliceYield(s)
  <2>1. /\ Held(s) /\ gc' = gc /\ jobs' \in LandErr(jobs, slices[s].job)
        /\ slices' = [slices EXCEPT ![s] = NoSlice]
    BY Zenon, <1>3 DEF SliceYield, LandErr, chainVars
  <2> QED
    BY Zenon, <2>1, FailOwner DEF SamePhase
<1>4. CASE SliceErr(s)
  <2>1. /\ gc' = gc /\ slices' = [slices EXCEPT ![s] = NoSlice]
        /\ (Held(s) /\ jobs' \in LandErr(jobs, slices[s].job)) \/ jobs' = jobs
    BY Zenon, <1>4 DEF SliceErr, chainVars
  <2> QED
    BY Zenon, <2>1, FailOwner, StillOwner DEF SamePhase
<1>5. CASE SliceKill(s)
  <2>1. gc' = gc /\ slices' = [slices EXCEPT ![s] = NoSlice] /\ jobs' = jobs
    BY Zenon, <1>5 DEF SliceKill, chainVars
  <2> QED
    BY Zenon, <2>1, StillOwner
<1> QED
  BY Zenon, <1>1, <1>2, <1>3, <1>4, <1>5

\* A slice that finds its fence broken deletes its row only if that row does
\* not own the phase: the walk holds a gc_mark, a builder has been overtaken.
LEMMA StaleOwner ==
    ASSUME GcInv, OwnerInv, NEW s \in Slices, SliceStale(s) PROVE OwnerInv'
<1>1. /\ gc' = gc /\ slices' = [slices EXCEPT ![s] = NoSlice] /\ jobs' = LandDone(s)
      /\ AtLoop(s) \/ InBatch(s) \/ (Building(s) /\ ~ChainFence(s))
  BY Zenon DEF SliceStale, chainVars, Building
<1>2. CASE ~Held(s)
  BY Zenon, <1>1, <1>2, StillOwner DEF LandDone
<1>3. CASE Held(s)
  <2>1. slices \in SliceTable /\ slices[s].job \in JobIds /\ gc.phase \in {"unset", "build", "sweep"}
    BY Zenon, <1>3, TypeParts DEF GcInv, Held, ChainIds, ChainType, GcRow
  <2>2. jobs' = Delete(jobs, slices[s].job) /\ NoneBegun /\ SamePhase
    BY Zenon, <1>1, <1>3, <2>1, NoneBegunSame DEF LandDone, SamePhase
  <2>3. gc.phase # "unset" => ~OwnerRow(slices[s].job)
    <3>1. CASE AtLoop(s) \/ InBatch(s)
      <4>1. Walks(s)
        BY <3>1 DEF Walks, AtLoop, InBatch
      <4>2. jobs[slices[s].job].kind = "gc_mark"
        BY Zenon, <1>3, <4>1 DEF OwnerInv, Walkers
      <4> QED
        BY <2>1, <4>2, OwnerKinds DEF OwnerRow
    <3>2. CASE Building(s) /\ ~ChainFence(s)
      BY Zenon, <1>3, <3>2 DEF OwnerRow, Overtaken
    <3> QED
      BY Zenon, <1>1, <3>1, <3>2
  <2> QED
    BY Zenon, <2>1, <2>2, <2>3, OwnerDeleted
<1> QED
  BY Zenon, <1>2, <1>3

\* A row that is stray, or whose phase is not current, owns nothing.
LEMMA DropOwner ==
    ASSUME GcInv, OwnerInv, NEW j \in JobIds, GcDropRow(j) PROVE OwnerInv'
<1>1. /\ gc' = gc /\ slices' = slices /\ jobs' = Delete(jobs, j) /\ slices \in SliceTable
      /\ gc.phase \in {"unset", "build", "sweep"}
  BY Zenon, TypeParts DEF GcDropRow, chainVars, GcInv, ChainType, GcRow
<1>2. \/ jobs[j].kind = "gc_consolidate" /\ (Stray(j) \/ gc.phase # "build")
      \/ jobs[j].kind = "gc_sweep" /\ (Stray(j) \/ gc.phase # "sweep")
  BY Zenon DEF GcDropRow, Dispatched, IsQueued
<1>3. Stray(j) => ~Serves(j)
  BY Zenon DEF Stray, Serves
<1>4. ~OwnerRow(j)
  BY <1>1, <1>2, <1>3, OwnerKinds DEF OwnerRow
<1> QED
  BY Zenon, <1>1, <1>4, NoneBegunSame, OwnerDeleted DEF SamePhase

\* A new gc_mark or gc_compact row owns nothing and takes no row's place.
LEMMA EnqueueOwner ==
    ASSUME NEW js \in JobTable, NEW kind \in {"gc_mark", "gc_compact"}, CanEnqueue(js, kind)
    PROVE  /\ Enqueue(js, kind, 0) \in JobTable
           /\ \A i \in JobIds :
                 \/ Enqueue(js, kind, 0)[i] = js[i]
                 \/ /\ js[i] = NoRow /\ Enqueue(js, kind, 0)[i].state = "queued"
                    /\ Enqueue(js, kind, 0)[i].kind \in {"gc_mark", "gc_compact"}
<1>1. kind \in GcKinds /\ 0 \in Nat
  BY DEF GcKinds
<1>2. /\ Enqueue(js, kind, 0) \in JobTable
      /\ \A i \in JobIds :
            \/ Enqueue(js, kind, 0)[i] = js[i]
            \/ /\ js[i] = NoRow
               /\ Enqueue(js, kind, 0)[i] =
                     [kind |-> kind, chain |-> 0, state |-> "queued", lease |-> Null]
  BY Zenon, <1>1, EnqueueRows
<1> QED
  BY <1>2

\* Steps that only add gc_mark and gc_compact rows.
LEMMA AddedOwner ==
    ASSUME GcInv, OwnerInv, gc' = gc, slices' = slices,
           \A i \in JobIds :
              \/ jobs'[i] = jobs[i]
              \/ /\ jobs[i] = NoRow /\ jobs'[i].state = "queued"
                 /\ jobs'[i].kind \in {"gc_mark", "gc_compact"}
    PROVE  OwnerInv'
<1>1. slices \in SliceTable /\ gc.phase \in {"unset", "build", "sweep"}
  BY Zenon, TypeParts DEF GcInv, ChainType, GcRow
<1>2. NoneClaimed /\ SameOwners
  <2>1. NoneClaimed
    BY DEF NoneClaimed
  <2>2. SameOwners
    BY DEF SameOwners, Pending
  <2> QED
    BY Zenon, <2>1, <2>2
<1>3. \A i \in JobIds : OwnerRow(i) => jobs[i] # NoRow
  BY <1>1, OwnerKinds DEF OwnerRow, NoRow
<1> QED
  BY Zenon, <1>1, <1>2, <1>3, NoneBegunSame, OwnerSame DEF SamePhase

\* The janitor queues compaction or a mark.
LEMMA JanitorOwner ==
    ASSUME GcInv, OwnerInv, NEW kind \in {"gc_compact", "gc_mark"}, JanitorEnqueue(kind)
    PROVE  OwnerInv'
<1>1. /\ gc' = gc /\ slices' = slices /\ jobs' = Enqueue(jobs, kind, 0) /\ CanEnqueue(jobs, kind)
      /\ jobs \in JobTable
  BY Zenon, TypeParts DEF JanitorEnqueue, chainVars, GcInv
<1>2. \A i \in JobIds : \/ jobs'[i] = jobs[i]
                        \/ /\ jobs[i] = NoRow /\ jobs'[i].state = "queued"
                           /\ jobs'[i].kind \in {"gc_mark", "gc_compact"}
  <2>1. kind \in {"gc_mark", "gc_compact"}
    OBVIOUS
  <2> QED
    BY Zenon, <1>1, <2>1, EnqueueOwner
<1> QED
  BY Zenon, <1>1, <1>2, AddedOwner

\* Pushes and the janitor's pass over the packs.
LEMMA StoreOwner ==
    ASSUME GcInv, OwnerInv,
           \/ (EdgeStep \/ JanitorStep) /\ UNCHANGED gcVars
           \/ CommitStepGc
    PROVE  OwnerInv'
<1>0. jobs \in JobTable /\ slices \in SliceTable
  BY Zenon, TypeParts DEF GcInv
<1>1. CASE UNCHANGED gcVars
  <2>1. jobs' = jobs /\ gc' = gc /\ slices' = slices
    BY Zenon, <1>1 DEF gcVars
  <2> QED
    BY Zenon, <1>0, <2>1, NoneBegunSame, OwnerStill DEF SamePhase
<1>2. ASSUME NEW u \in Pushes, NEW cmds \in CommandSets, NEW refused \in SUBSET DOMAIN cmds,
             AtomicFailedAndEnqueue(u, cmds, refused) \/ CommitAndEnqueue(u, cmds, refused)
      PROVE  OwnerInv'
  <2>1. /\ gc' = gc /\ slices' = slices /\ CanEnqueue(jobs, "gc_compact")
        /\ \E js \in MaybeCompact(jobs, edge[u].pack) :
              jobs' = js \/ (jobs' = Enqueue(js, "gc_mark", 0) /\ CanEnqueue(js, "gc_mark"))
    BY Zenon, <1>2 DEF AtomicFailedAndEnqueue, CommitAndEnqueue, chainVars
  <2>2. PICK js \in MaybeCompact(jobs, edge[u].pack) :
           jobs' = js \/ (jobs' = Enqueue(js, "gc_mark", 0) /\ CanEnqueue(js, "gc_mark"))
    BY Zenon, <2>1
  <2>3. js = jobs \/ js = Enqueue(jobs, "gc_compact", 0)
    BY Zenon, <2>2 DEF MaybeCompact
  <2>4. /\ js \in JobTable
        /\ \A i \in JobIds : \/ js[i] = jobs[i]
                             \/ /\ jobs[i] = NoRow /\ js[i].state = "queued"
                                /\ js[i].kind \in {"gc_mark", "gc_compact"}
    <3>1. CASE js = jobs
      BY Zenon, <1>0, <3>1
    <3>2. CASE js = Enqueue(jobs, "gc_compact", 0)
      BY Zenon, <1>0, <2>1, <3>2, EnqueueOwner
    <3> QED
      BY Zenon, <2>3, <3>1, <3>2
  <2>5. CASE jobs' = js
    BY Zenon, <2>1, <2>4, <2>5, AddedOwner
  <2>6. CASE jobs' = Enqueue(js, "gc_mark", 0) /\ CanEnqueue(js, "gc_mark")
    <3>1. \A i \in JobIds : \/ jobs'[i] = js[i]
                            \/ /\ js[i] = NoRow /\ jobs'[i].state = "queued"
                               /\ jobs'[i].kind \in {"gc_mark", "gc_compact"}
      BY Zenon, <2>4, <2>6, EnqueueOwner
    <3>2. NoRow.state = "none"
      BY Zenon DEF NoRow
    <3>3. \A i \in JobIds : \/ jobs'[i] = jobs[i]
                            \/ /\ jobs[i] = NoRow /\ jobs'[i].state = "queued"
                               /\ jobs'[i].kind \in {"gc_mark", "gc_compact"}
      BY Zenon, <2>4, <3>1, <3>2
    <3> QED
      BY Zenon, <2>1, <3>3, AddedOwner
  <2> QED
    BY Zenon, <2>2, <2>5, <2>6
<1> QED
  BY Zenon, <1>1, <1>2 DEF CommitStepGc

\* The swap and the sweep: a failure leaves the row and the chain, success ends both.
LEMMA RetireOwner ==
    ASSUME GcInv, OwnerInv,
           \/ \E s \in Slices, failed, again \in BOOLEAN : Swap(s, failed, again)
           \/ \E j \in JobIds, failed \in BOOLEAN : GcSweep(j, failed)
    PROVE  OwnerInv'
<1>0. jobs \in JobTable /\ slices \in SliceTable
  BY Zenon, TypeParts DEF GcInv
<1>1. ASSUME NEW s \in Slices, NEW failed \in BOOLEAN, NEW again \in BOOLEAN, Swap(s, failed, again)
      PROVE  OwnerInv'
  <2>1. /\ slices' = [slices EXCEPT ![s] = NoSlice] /\ Held(s)
        /\ \/ gc' = gc /\ jobs' \in LandErr(jobs, slices[s].job)
           \/ gc' = NoGc /\ jobs' = Delete(jobs, slices[s].job)
           \/ /\ gc' = NoGc /\ CanEnqueue(jobs, "gc_compact")
              /\ jobs' = Delete(Enqueue(jobs, "gc_compact", 0), slices[s].job)
    BY Zenon, <1>1 DEF Swap, WipeAll, ClearChain, ChainFence, chainVars
  <2>2. slices[s].job \in JobIds
    BY Zenon, <2>1 DEF GcInv, ChainIds, Held
  <2>3. CASE gc' = gc /\ jobs' \in LandErr(jobs, slices[s].job)
    BY Zenon, <2>1, <2>3, FailOwner DEF SamePhase
  <2>4. CASE gc' = NoGc /\ jobs' = Delete(jobs, slices[s].job)
    BY Zenon, <1>0, <2>1, <2>2, <2>4, EndRows, NoneBegunSame, OwnerCleared
  <2>5. CASE /\ gc' = NoGc /\ CanEnqueue(jobs, "gc_compact")
             /\ jobs' = Delete(Enqueue(jobs, "gc_compact", 0), slices[s].job)
    BY Zenon, <1>0, <2>1, <2>2, <2>5, EndRows, NoneBegunSame, OwnerCleared
  <2> QED
    BY Zenon, <2>1, <2>3, <2>4, <2>5
<1>2. ASSUME NEW j \in JobIds, NEW failed \in BOOLEAN, GcSweep(j, failed) PROVE OwnerInv'
  <2>1. /\ slices' = slices /\ Pending(j)
        /\ \/ gc' = gc /\ jobs' \in LandErr(jobs, j)
           \/ gc' = NoGc /\ jobs' = Delete(jobs, j)
    BY Zenon, <1>2 DEF GcSweep, Sweeper, Dispatched, IsQueued, Pending, ClearChain, chainVars
  <2>2. CASE gc' = gc /\ jobs' \in LandErr(jobs, j)
    BY Zenon, <1>0, <2>1, <2>2, NoneBegunSame, OwnerReleased DEF SamePhase
  <2>3. CASE gc' = NoGc /\ jobs' = Delete(jobs, j)
    BY Zenon, <1>0, <2>1, <2>3, EndRows, NoneBegunSame, OwnerCleared
  <2> QED
    BY Zenon, <2>1, <2>2, <2>3
<1> QED
  BY Zenon, <1>1, <1>2

-----------------------------------------------------------------------------
(* A slice takes its row. *)

\* The other walkers keep their rows when a row is claimed.
LEMMA ClaimWalkers ==
    ASSUME GcInv, Walkers, NEW j \in JobIds, NEW s \in Slices, jobs'[j].lease = s,
           \A i \in JobIds : i # j => jobs'[i] \in {jobs[i], NoRow},
           \A t \in Slices : t # s => slices'[t] = slices[t],
           Walks(s)' => jobs'[slices'[s].job].kind = "gc_mark"
    PROVE  Walkers'
<1> SUFFICES ASSUME NEW t \in Slices, t # s, Walks(t)', Held(t)'
             PROVE  jobs'[slices'[t].job].kind = "gc_mark"
  BY Zenon DEF Walkers
<1>1. Held(t) /\ jobs'[slices[t].job].kind = jobs[slices[t].job].kind
  BY Zenon, ClaimedHeld
<1>2. Walks(t)
  BY Zenon DEF Walks
<1> QED
  BY Zenon, <1>1, <1>2 DEF Walkers

\* gc_mark begins or resumes a walk.
LEMMA MarkClaimOwner ==
    ASSUME GcInv, OwnerInv, NEW j \in JobIds, NEW s \in Slices,
           \/ \E cands \in SUBSET Packs : GcMarkInit(j, s, cands)
           \/ GcMarkResume(j, s)
    PROVE  OwnerInv'
<1>0. jobs \in JobTable /\ slices \in SliceTable
  BY Zenon, TypeParts DEF GcInv
<1>1. /\ jobs[j].kind = "gc_mark" /\ slices[s] = NoSlice
      /\ \/ jobs' = Claim(jobs, j, s)
         \/ jobs' = Claim(WithoutDeadRows(jobs), j, s)
  BY Zenon DEF GcMarkInit, GcMarkResume, Dispatched, IsQueued, FreshLease
<1>2. PICK js \in JobTable : /\ jobs' = Claim(js, j, s) /\ js[j] = jobs[j]
                             /\ \A i \in JobIds : js[i] \in {jobs[i], NoRow}
  <2>1. jobs[j].state = "queued"
    BY Zenon DEF GcMarkInit, GcMarkResume, Dispatched, IsQueued
  <2>2. WithoutDeadRows(jobs)[j] = jobs[j]
    BY <1>0, <2>1 DEF WithoutDeadRows, JobTable
  <2>3. /\ WithoutDeadRows(jobs) \in JobTable
        /\ \A i \in JobIds : WithoutDeadRows(jobs)[i] \in {jobs[i], NoRow}
    BY Zenon, <1>0, WithoutDeadRowsRows
  <2> QED
    BY Zenon, <1>0, <1>1, <2>2, <2>3
<1>3. /\ jobs'[j].lease = s /\ jobs'[j].kind = "gc_mark"
      /\ \A i \in JobIds : i # j => jobs'[i] \in {jobs[i], NoRow}
  <2>1. /\ Claim(js, j, s) \in JobTable
        /\ Claim(js, j, s)[j].kind = js[j].kind
        /\ Claim(js, j, s)[j].state = "running"
        /\ Claim(js, j, s)[j].lease = s
        /\ \A i \in JobIds : i # j => Claim(js, j, s)[i] = js[i]
    BY Zenon, ClaimRows
  <2> QED
    BY Zenon, <1>1, <1>2, <2>1
<1>4. /\ slices'[s].job = j /\ \A t \in Slices : t # s => slices'[t] = slices[t]
      /\ gc'.phase = "unset" /\ gc'.mode = "mark"
  <2>1. CASE \E cands \in SUBSET Packs : GcMarkInit(j, s, cands)
    <3>1. /\ slices' = [slices EXCEPT ![s] =
                [NoSlice EXCEPT !.pc = "start", !.job = j, !.chain = lastChain + 1]]
          /\ gc' = [NoGc EXCEPT !.chain = lastChain + 1, !.refs_version = refs_version]
      BY Zenon, <2>1 DEF GcMarkInit
    <3> QED
      BY Zenon, <1>0, <3>1 DEF SliceTable, NoSlice, NoGc
  <2>2. CASE GcMarkResume(j, s)
    <3>1. /\ slices' = [slices EXCEPT ![s] =
                [NoSlice EXCEPT !.pc = "start", !.job = j, !.chain = gc.chain]]
          /\ gc' = gc /\ gc.phase = "unset" /\ gc.mode = "mark"
      BY Zenon, <2>2 DEF GcMarkResume, chainVars
    <3> QED
      BY Zenon, <1>0, <3>1 DEF SliceTable, NoSlice
  <2> QED
    BY Zenon, <2>1, <2>2
<1>5. Walkers'
  BY Zenon, <1>3, <1>4, ClaimWalkers DEF OwnerInv
<1>6. Owned'
  BY Zenon, <1>4 DEF Owned
<1>7. \A i \in JobIds : jobs'[i].kind \in {"gc_consolidate", "gc_sweep"} => jobs'[i] = jobs[i]
  BY <1>3 DEF NoRow
<1>8. FreshBuilders' /\ FreshSweepers'
  <2>1. CASE \E cands \in SUBSET Packs : GcMarkInit(j, s, cands)
    <3>1. ~Busy
      BY Zenon, <2>1 DEF GcMarkInit
    <3>2. \A i \in JobIds : ~(jobs'[i].kind \in {"gc_consolidate", "gc_sweep"} /\ Pending(i)')
      BY Zenon, <1>7, <3>1 DEF Busy, Pending
    <3> QED
      BY Zenon, <3>2 DEF FreshBuilders, FreshSweepers
  <2>2. CASE GcMarkResume(j, s)
    <3>1. gc' = gc
      BY Zenon, <2>2 DEF GcMarkResume, chainVars
    <3>2. SamePhase /\ SameOwners
      BY Zenon, <1>7, <3>1 DEF SamePhase, SameOwners, Pending
    <3> QED
      BY Zenon, <3>2, FreshKept DEF OwnerInv
  <2> QED
    BY Zenon, <2>1, <2>2
<1> QED
  BY Zenon, <1>5, <1>6, <1>8 DEF OwnerInv

\* The slice that builds the chain's pack holds a row that owns the phase.
LEMMA HolderOwner ==
    ASSUME NEW j \in JobIds, NEW s \in Slices, jobs'[j].kind = "gc_consolidate",
           jobs'[j].chain \in {0, gc'.chain}, jobs'[j].lease = s, gc'.phase = "build",
           slices'[s].chain = gc'.chain, slices'[s].pack = gc'.new_pack
    PROVE  Owned'
<1>1. OwnerKind' = "gc_consolidate" /\ Serves(j)'
  BY Zenon, OwnerKindsNext DEF Serves
<1>2. ~Overtaken(j)'
  <2> SUFFICES ASSUME NEW t \in Slices, Held(t)', slices'[t].job = j, ~ChainFence(t)'
               PROVE  FALSE
    BY Zenon DEF Overtaken
  <2>1. t = s
    BY Zenon DEF Held
  <2> QED
    BY Zenon, <2>1 DEF ChainFence
<1> QED
  BY Zenon, <1>1, <1>2 DEF Owned, OwnerRow

\* gc_consolidate begins a build or resumes one.
LEMMA BuildClaimOwner ==
    ASSUME GcInv, OwnerInv, NEW j \in JobIds, NEW s \in Slices,
           \/ \E n \in Packs : GcConsolidateBegin(j, s, n)
           \/ GcConsolidateResume(j, s)
    PROVE  OwnerInv'
<1>0. jobs \in JobTable /\ slices \in SliceTable /\ gc \in GcRow
  BY Zenon, TypeParts DEF GcInv, ChainType
<1>1. /\ jobs[j].kind = "gc_consolidate" /\ jobs[j].state = "queued" /\ ~Stray(j) /\ gc.phase = "build"
      /\ jobs' = Claim(jobs, j, s)
  BY Zenon DEF GcConsolidateBegin, GcConsolidateResume, Builder, Dispatched, IsQueued
<1>2. /\ slices' = [slices EXCEPT ![s] = BuildSlice(j, gc'.new_pack)]
      /\ gc'.chain = gc.chain /\ gc'.mode = gc.mode /\ gc'.phase = gc.phase
  <2>1. ASSUME NEW n \in Packs, GcConsolidateBegin(j, s, n) PROVE <1>2!1 /\ <1>2!2
    <3>1. gc' = [gc EXCEPT !.new_pack = n] /\ slices' = [slices EXCEPT ![s] = BuildSlice(j, n)]
      BY Zenon, <2>1 DEF GcConsolidateBegin
    <3> QED
      BY Zenon, <1>0, <3>1 DEF GcRow
  <2>2. CASE GcConsolidateResume(j, s)
    BY Zenon, <2>2 DEF GcConsolidateResume, chainVars
  <2> QED
    BY Zenon, <2>1, <2>2
<1>3. /\ slices'[s].pc = "build" /\ slices'[s].chain = gc.chain /\ slices'[s].pack = gc'.new_pack
      /\ \A t \in Slices : t # s => slices'[t] = slices[t]
  BY Zenon, <1>0, <1>2 DEF BuildSlice, NoSlice, SliceTable
<1>4. /\ jobs'[j].kind = "gc_consolidate" /\ jobs'[j].lease = s /\ jobs'[j].state = "running"
      /\ jobs'[j].chain = jobs[j].chain /\ \A i \in JobIds : i # j => jobs'[i] = jobs[i]
  <2>1. /\ Claim(jobs, j, s) \in JobTable
        /\ Claim(jobs, j, s)[j].kind = jobs[j].kind
        /\ Claim(jobs, j, s)[j].state = "running"
        /\ Claim(jobs, j, s)[j].lease = s
        /\ \A i \in JobIds : i # j => Claim(jobs, j, s)[i] = jobs[i]
    BY Zenon, <1>0, ClaimRows
  <2>2. Claim(jobs, j, s)[j].chain = jobs[j].chain
    BY Zenon, <1>0, ClaimedChain
  <2> QED
    BY Zenon, <1>1, <2>1, <2>2
<1>5. Walkers'
  <2>1. ~Walks(s)'
    BY <1>3 DEF Walks
  <2> QED
    BY Zenon, <1>3, <1>4, <2>1, ClaimWalkers DEF OwnerInv
<1>6. Owned'
  BY Zenon, <1>1, <1>2, <1>3, <1>4, HolderOwner DEF Stray
<1>7. FreshBuilders' /\ FreshSweepers'
  <2>1. SameOwners
    BY Zenon, <1>1, <1>4 DEF SameOwners, Pending
  <2>2. FreshBuilders'
    BY Zenon, <1>2, <2>1 DEF OwnerInv, FreshBuilders, SameOwners, Serves
  <2>3. FreshSweepers'
    BY Zenon, <1>2, <2>1 DEF OwnerInv, FreshSweepers, SameOwners, Serves
  <2> QED
    BY Zenon, <2>2, <2>3
<1> QED
  BY Zenon, <1>5, <1>6, <1>7 DEF OwnerInv

\* A build that starts over: its slice now holds the new pack.
LEMMA RestartOwner ==
    ASSUME GcInv, OwnerInv, NEW s \in Slices, NEW n \in Packs, BuildRestart(s, n) PROVE OwnerInv'
<1> DEFINE j == slices[s].job
<1>0. jobs \in JobTable /\ slices \in SliceTable /\ gc \in GcRow
  BY Zenon, TypeParts DEF GcInv, ChainType
<1>1. Building(s) /\ ChainFence(s) /\ Held(s)
  BY Zenon DEF BuildRestart, Building, ChainFence
<1>2. /\ j \in JobIds /\ jobs[j].state = "running" /\ jobs[j].lease = s
      /\ jobs[j].kind = "gc_consolidate" /\ gc.phase = "build" /\ gc.chain # 0
  BY Zenon, <1>1, FenceFacts DEF GcInv, OneBuilder
<1>3. CASE RefsMoved
  <2>1. /\ gc' = NoGc /\ CanEnqueue(jobs, "gc_mark") /\ jobs' = AbortJobs(j)
        /\ slices' = [slices EXCEPT ![s] = NoSlice]
    BY Zenon, <1>3 DEF BuildRestart, ClearChain
  <2>2. Pending(j)
    BY Zenon, <1>2 DEF Pending
  <2> QED
    BY Zenon, <1>0, <1>2, <2>1, <2>2, AbortRoom, EndRows, NoneBegunSame, OwnerCleared
<1>4. CASE ~RefsMoved
  <2>1. /\ gc' = [gc EXCEPT !.new_pack = n, !.fails = 0] /\ jobs' = jobs
        /\ slices' = [slices EXCEPT ![s] = BuildSlice(j, n)]
    BY Zenon, <1>4 DEF BuildRestart
  <2>2. gc'.new_pack = n /\ gc'.chain = gc.chain /\ gc'.mode = gc.mode /\ gc'.phase = gc.phase
    BY Zenon, <1>0, <2>1 DEF GcRow
  <2>3. /\ slices'[s].pc = "build" /\ slices'[s].chain = gc.chain /\ slices'[s].pack = n
        /\ \A t \in Slices : t # s => slices'[t] = slices[t]
    BY Zenon, <1>0, <2>1 DEF BuildSlice, NoSlice, SliceTable
  <2>4. Walkers'
    <3>1. ~Walks(s)'
      BY <2>3 DEF Walks
    <3>2. \A i \in JobIds : i # j => jobs'[i] \in {jobs[i], NoRow}
      BY Zenon, <2>1
    <3> QED
      BY Zenon, <1>2, <2>1, <2>3, <3>1, <3>2, ClaimWalkers DEF OwnerInv
  <2>5. Owned'
    <3>1. Serves(j)
      BY Zenon, <1>2 DEF OwnerInv, FreshBuilders, Pending
    <3> QED
      BY Zenon, <1>2, <2>1, <2>2, <2>3, <3>1, HolderOwner DEF Serves
  <2>6. FreshBuilders' /\ FreshSweepers'
    BY Zenon, <2>1, <2>2 DEF OwnerInv, FreshBuilders, FreshSweepers, Serves, Pending
  <2> QED
    BY Zenon, <2>4, <2>5, <2>6 DEF OwnerInv
<1> QED
  BY Zenon, <1>3, <1>4

-----------------------------------------------------------------------------
(* A phase is published: its row is queued first. *)

\* The rows when row j queues a successor and then ends, or fails.
LEMMA SuccessorRows ==
    ASSUME NEW js \in JobTable, NEW kind \in GcKinds, NEW c \in Nat, CanEnqueue(js, kind),
           NEW j \in JobIds, js[j].state = "running",
           \A i \in JobIds : i # j => js[i] \in {jobs[i], NoRow},
           \/ jobs' = Delete(Enqueue(js, kind, c), j)
           \/ jobs' \in LandErr(Enqueue(js, kind, c), j)
    PROVE  /\ \A i \in JobIds : i # j =>
                 \/ jobs'[i] \in {jobs[i], NoRow}
                 \/ jobs'[i].kind = kind /\ jobs'[i].chain = c /\ jobs'[i].state = "queued"
           /\ jobs' = Delete(Enqueue(js, kind, c), j) => jobs'[j] = NoRow
           /\ jobs' \in LandErr(Enqueue(js, kind, c), j) =>
                 /\ jobs'[j].kind = js[j].kind /\ jobs'[j].chain = js[j].chain
                 /\ jobs'[j].state \in {"queued", "dead"}
           /\ jobs'[j].state # "running"
           /\ \E q \in JobIds : /\ q # j /\ jobs'[q].kind = kind /\ jobs'[q].state = "queued"
                                /\ jobs'[q] = jobs[q] \/ jobs'[q].chain = c
<1> DEFINE b == Enqueue(js, kind, c)
           row == [kind |-> kind, chain |-> c, state |-> "queued", lease |-> Null]
<1>1. b \in JobTable /\ \A i \in JobIds : b[i] = js[i] \/ (js[i] = NoRow /\ b[i] = row)
  BY Zenon, EnqueueRows
<1>2. row.kind = kind /\ row.chain = c /\ row.state = "queued" /\ NoRow.state = "none"
  BY Zenon DEF NoRow
<1>3. PICK q \in JobIds : /\ b[q].kind = kind /\ b[q].state = "queued"
                          /\ b[q] = js[q] \/ b[q].chain = c
  <2>1. \E q \in JobIds :
           /\ Enqueue(js, kind, c)[q].kind = kind
           /\ Enqueue(js, kind, c)[q].state = "queued"
           /\ Enqueue(js, kind, c)[q] = js[q] \/ Enqueue(js, kind, c)[q].chain = c
    BY EnqueuedRow
  <2> QED
    BY Zenon, <2>1
<1> HIDE DEF b, row
<1>4. b[j] = js[j]
  BY Zenon, <1>1, <1>2
<1>5. \A i \in JobIds : i # j => jobs'[i] = b[i]
  <2>1. CASE jobs' = Delete(b, j)
    <3>1. \A i \in JobIds : i # j => Delete(b, j)[i] = b[i]
      BY Zenon, <1>1 DEF Delete, JobTable
    <3> QED
      BY Zenon, <2>1, <3>1
  <2>2. CASE jobs' \in LandErr(b, j)
    BY Zenon, <1>1, <2>2, ReleasedRow
  <2> QED
    BY Zenon, <2>1, <2>2 DEF b
<1>6. jobs' = Delete(b, j) => jobs'[j] = NoRow
  BY <1>1, DeleteRows
<1>7. jobs' \in LandErr(b, j) => /\ jobs'[j].kind = b[j].kind /\ jobs'[j].chain = b[j].chain
                                 /\ jobs'[j].state \in {"queued", "dead"}
  BY Zenon, <1>1, ReleasedRow
<1>8. q # j
  BY Zenon, <1>3, <1>4
<1>9. jobs'[q] = jobs[q] \/ jobs'[q].chain = c
  BY Zenon, <1>2, <1>3, <1>5, <1>8
<1>10. jobs'[j].state # "running"
  BY <1>2, <1>6, <1>7 DEF b
<1>11. \A i \in JobIds : i # j =>
          \/ jobs'[i] \in {jobs[i], NoRow}
          \/ jobs'[i].kind = kind /\ jobs'[i].chain = c /\ jobs'[i].state = "queued"
  BY Zenon, <1>1, <1>2, <1>5
<1> QED
  BY Zenon, <1>3, <1>4, <1>5, <1>6, <1>7, <1>8, <1>9, <1>10, <1>11 DEF b

\* The walk hands over to the build.
LEMMA HandoffOwner ==
    ASSUME GcInv, OwnerInv, NEW s \in Slices, MarkHandoff(s) PROVE OwnerInv'
<1> DEFINE j == slices[s].job
<1>0. jobs \in JobTable /\ slices \in SliceTable /\ gc \in GcRow
  BY Zenon, TypeParts DEF GcInv, ChainType
<1>1. /\ Held(s) /\ gc.chain = slices[s].chain /\ gc.phase = "unset"
      /\ CanEnqueue(jobs, "gc_consolidate") /\ gc' = [gc EXCEPT !.phase = "build"]
      /\ jobs' = Delete(Enqueue(jobs, "gc_consolidate", gc.chain), j)
      /\ slices' = [slices EXCEPT ![s] = NoSlice]
  BY Zenon DEF MarkHandoff, MarkFence, HandoffJobs
<1>2. j \in JobIds /\ jobs[j].state = "running" /\ gc.chain # 0 /\ gc.chain \in Nat
  BY Zenon, <1>0, <1>1 DEF GcInv, ChainIds, Held, GcRow
<1>3. gc'.phase = "build" /\ gc'.chain = gc.chain /\ gc'.mode = gc.mode
  BY Zenon, <1>0, <1>1 DEF GcRow
<1> HIDE DEF j
<1>4. /\ \A i \in JobIds : i # j =>
            \/ jobs'[i] \in {jobs[i], NoRow}
            \/ /\ jobs'[i].kind = "gc_consolidate" /\ jobs'[i].chain = gc.chain
               /\ jobs'[i].state = "queued"
      /\ jobs'[j] = NoRow
      /\ \E q \in JobIds : /\ q # j /\ jobs'[q].kind = "gc_consolidate" /\ jobs'[q].state = "queued"
                           /\ jobs'[q] = jobs[q] \/ jobs'[q].chain = gc.chain
  <2>0. /\ jobs \in JobTable /\ gc.chain \in Nat /\ CanEnqueue(jobs, "gc_consolidate")
        /\ j \in JobIds /\ jobs[j].state = "running"
        /\ jobs' = Delete(Enqueue(jobs, "gc_consolidate", gc.chain), j)
    BY Zenon, <1>0, <1>1, <1>2
  <2>1. "gc_consolidate" \in GcKinds
    BY DEF GcKinds
  <2>2. \A i \in JobIds : i # j => jobs[i] \in {jobs[i], NoRow}
    BY Zenon
  <2>3. /\ \A i \in JobIds : i # j =>
              \/ jobs'[i] \in {jobs[i], NoRow}
              \/ /\ jobs'[i].kind = "gc_consolidate" /\ jobs'[i].chain = gc.chain
                 /\ jobs'[i].state = "queued"
        /\ jobs' = Delete(Enqueue(jobs, "gc_consolidate", gc.chain), j) => jobs'[j] = NoRow
        /\ \E q \in JobIds : /\ q # j /\ jobs'[q].kind = "gc_consolidate" /\ jobs'[q].state = "queued"
                             /\ jobs'[q] = jobs[q] \/ jobs'[q].chain = gc.chain
    BY <2>0, <2>1, <2>2, SuccessorRows
  <2> QED
    BY Zenon, <1>1, <2>3
<1>5. NoRow.state = "none" /\ NoRow.kind = "none"
  BY Zenon DEF NoRow
<1>6. NoneClaimed
  BY <1>4, <1>5 DEF NoneClaimed
<1>7. Walkers'
  BY Zenon, <1>0, <1>1, <1>6, NoneBegunSame, WalkersKept DEF OwnerInv
<1>8. FreshBuilders'
  <2> SUFFICES ASSUME NEW i \in JobIds, jobs'[i].kind = "gc_consolidate", Pending(i)'
               PROVE  jobs'[i].chain \in {0, gc.chain}
    BY Zenon, <1>3 DEF FreshBuilders, Serves
  <2>1. jobs'[i] = jobs[i] \/ jobs'[i].chain = gc.chain
    BY <1>4, <1>5
  <2> QED
    BY Zenon, <1>2, <2>1 DEF OwnerInv, FreshBuilders, Serves, Pending
<1>9. FreshSweepers'
  <2> SUFFICES ASSUME NEW i \in JobIds, gc.mode = "mark", jobs'[i].kind = "gc_sweep", Pending(i)'
               PROVE  jobs'[i].chain \in {0, gc.chain}
    BY Zenon, <1>3 DEF FreshSweepers, Serves
  <2>1. jobs'[i] = jobs[i]
    BY <1>4, <1>5
  <2> QED
    BY Zenon, <1>2, <2>1 DEF OwnerInv, FreshSweepers, Serves, Pending
<1>10. Owned'
  <2>1. PICK q \in JobIds : /\ jobs'[q].kind = "gc_consolidate" /\ jobs'[q].state = "queued"
    BY Zenon, <1>4
  <2>2. Pending(q)' /\ jobs'[q].state # "running"
    BY <2>1 DEF Pending
  <2>3. jobs'[q].chain \in {0, gc'.chain}
    BY Zenon, <1>2, <1>3, <1>8, <2>1, <2>2 DEF FreshBuilders, Serves
  <2> QED
    BY Zenon, <1>3, <2>1, <2>2, <2>3, OwnerKindsNext, OwnerQueued
<1> QED
  BY Zenon, <1>7, <1>8, <1>9, <1>10 DEF OwnerInv

\* The sweep's row is queued beside the builder j of a mark chain, which ends or fails.
LEMMA SweepQueued ==
    ASSUME GcInv, OwnerInv, NEW js \in JobTable, NEW j \in JobIds, js[j].state = "running",
           js[j].kind = jobs[j].kind, js[j].chain = jobs[j].chain,
           \A i \in JobIds : i # j => js[i] = jobs[i],
           jobs[j].kind = "gc_consolidate", Pending(j),
           gc.chain # 0, gc.mode = "mark", gc.phase = "build", CanEnqueue(js, "gc_sweep"),
           gc'.chain = gc.chain, gc'.mode = gc.mode, NoneBegun,
           \/ jobs' = Delete(Enqueue(js, "gc_sweep", gc.chain), j) /\ gc'.phase = "sweep"
           \/ jobs' \in LandErr(Enqueue(js, "gc_sweep", gc.chain), j) /\ gc'.phase = "build"
    PROVE  OwnerInv'
<1>0. gc.chain \in Nat /\ "gc_sweep" \in GcKinds
  BY Zenon, TypeParts DEF GcInv, ChainType, GcRow, GcKinds
<1>1. \A i \in JobIds : i # j => js[i] \in {jobs[i], NoRow}
  BY Zenon
<1>2. /\ \A i \in JobIds : i # j =>
            \/ jobs'[i] \in {jobs[i], NoRow}
            \/ jobs'[i].kind = "gc_sweep" /\ jobs'[i].chain = gc.chain /\ jobs'[i].state = "queued"
      /\ jobs' = Delete(Enqueue(js, "gc_sweep", gc.chain), j) => jobs'[j] = NoRow
      /\ jobs' \in LandErr(Enqueue(js, "gc_sweep", gc.chain), j) =>
            /\ jobs'[j].kind = js[j].kind /\ jobs'[j].chain = js[j].chain
            /\ jobs'[j].state \in {"queued", "dead"}
      /\ jobs'[j].state # "running"
      /\ \E q \in JobIds : /\ q # j /\ jobs'[q].kind = "gc_sweep" /\ jobs'[q].state = "queued"
                           /\ jobs'[q] = jobs[q] \/ jobs'[q].chain = gc.chain
  BY <1>0, <1>1, SuccessorRows
<1>3. NoRow.state = "none" /\ NoRow.kind = "none"
  BY Zenon DEF NoRow
<1>4. NoneClaimed
  BY <1>2, <1>3 DEF NoneClaimed
<1>5. Walkers'
  BY Zenon, <1>4, WalkersKept DEF OwnerInv
<1>6. ASSUME NEW i \in JobIds, i # j, jobs'[i].kind = "gc_consolidate", Pending(i)' PROVE FALSE
  <2>1. jobs'[i] = jobs[i]
    BY <1>2, <1>3, <1>6
  <2>2. \A k \in {i, j} : IsBuilder(k, "queued") \/ IsBuilder(k, "running")
    BY <1>6, <2>1 DEF IsBuilder, Pending
  <2> QED
    BY Zenon, <1>6, <2>2 DEF GcInv, OneBuilder
<1>7. Serves(j)
  BY Zenon DEF OwnerInv, FreshBuilders
<1>8. FreshBuilders'
  <2> SUFFICES ASSUME NEW i \in JobIds, jobs'[i].kind = "gc_consolidate", Pending(i)'
               PROVE  Serves(i)' /\ (gc'.phase # "build" => jobs'[i].chain = 0)
    BY Zenon DEF FreshBuilders
  <2>1. i = j
    BY Zenon, <1>6
  <2>2. jobs'[j].chain = jobs[j].chain /\ gc'.phase = "build"
    BY Zenon, <1>2, <1>3, <2>1
  <2> QED
    BY Zenon, <1>7, <2>1, <2>2 DEF Serves
<1>9. FreshSweepers'
  <2> SUFFICES ASSUME NEW i \in JobIds, jobs'[i].kind = "gc_sweep", Pending(i)'
               PROVE  jobs'[i].chain \in {0, gc.chain}
    BY Zenon DEF FreshSweepers, Serves
  <2>1. i # j
    BY <1>2, <1>3
  <2>2. jobs'[i] = jobs[i] \/ jobs'[i].chain = gc.chain
    BY <1>2, <1>3, <2>1
  <2> QED
    BY Zenon, <2>2 DEF OwnerInv, FreshSweepers, Serves, Pending
<1>10. Owned'
  <2>1. CASE gc'.phase = "sweep"
    <3>1. PICK q \in JobIds : jobs'[q].kind = "gc_sweep" /\ jobs'[q].state = "queued"
      BY Zenon, <1>2
    <3>2. Pending(q)' /\ jobs'[q].state # "running"
      BY <3>1 DEF Pending
    <3>3. jobs'[q].chain \in {0, gc'.chain}
      BY Zenon, <1>9, <3>1, <3>2 DEF FreshSweepers, Serves
    <3> QED
      BY Zenon, <2>1, <3>1, <3>2, <3>3, OwnerKindsNext, OwnerQueued
  <2>2. CASE jobs' \in LandErr(Enqueue(js, "gc_sweep", gc.chain), j) /\ gc'.phase = "build"
    <3>1. jobs'[j].kind = "gc_consolidate" /\ jobs'[j].chain \in {0, gc'.chain}
      BY Zenon, <1>2, <1>7, <2>2 DEF Serves
    <3> QED
      BY Zenon, <1>2, <2>2, <3>1, OwnerKindsNext, OwnerQueued
  <2> QED
    BY Zenon, <2>1, <2>2
<1> QED
  BY Zenon, <1>5, <1>8, <1>9, <1>10 DEF OwnerInv

\* finish_build publishes the sweep.
LEMMA FinishOwner ==
    ASSUME GcInv, OwnerInv, NEW s \in Slices, FinishBuild(s) PROVE OwnerInv'
<1> DEFINE j == slices[s].job
<1>0. jobs \in JobTable /\ slices \in SliceTable /\ gc \in GcRow
  BY Zenon, TypeParts DEF GcInv, ChainType
<1>1. /\ Building(s) /\ ChainFence(s) /\ gc.mode = "mark" /\ CanEnqueue(jobs, "gc_sweep")
      /\ jobs' = Delete(Enqueue(jobs, "gc_sweep", gc.chain), j)
      /\ gc' = [gc EXCEPT !.phase = "sweep"] /\ slices' = [slices EXCEPT ![s] = NoSlice]
  BY Zenon DEF FinishBuild, Uploaded, Building
<1>2. /\ j \in JobIds /\ jobs[j].state = "running" /\ jobs[j].kind = "gc_consolidate" /\ Pending(j)
      /\ gc.phase = "build" /\ gc.chain # 0
  BY Zenon, <1>1, FenceFacts DEF GcInv, OneBuilder, ChainFence, Pending
<1>3. gc'.chain = gc.chain /\ gc'.mode = gc.mode /\ gc'.phase = "sweep"
  BY Zenon, <1>0, <1>1 DEF GcRow
<1>4. NoneBegun
  BY Zenon, <1>0, <1>1, NoneBegunSame
<1> HIDE DEF j
<1> QED
  BY Zenon, <1>0, <1>1, <1>2, <1>3, <1>4, SweepQueued

\* begin_build with nothing marked publishes the sweep, or fails on the way.
LEMMA EmptyOwner ==
    ASSUME GcInv, OwnerInv, NEW j \in JobIds, NEW failed \in BOOLEAN, GcConsolidateEmpty(j, failed)
    PROVE  OwnerInv'
<1> DEFINE js == Running(jobs, j)
<1>0. jobs \in JobTable /\ slices \in SliceTable /\ gc \in GcRow
  BY Zenon, TypeParts DEF GcInv, ChainType
<1>1. /\ jobs[j].kind = "gc_consolidate" /\ jobs[j].state = "queued" /\ gc.phase = "build"
      /\ gc.mode = "mark" /\ CanEnqueue(jobs, "gc_sweep") /\ slices' = slices
      /\ \/ /\ jobs' = Delete(Enqueue(js, "gc_sweep", gc.chain), j)
            /\ gc' = [gc EXCEPT !.fails = 0, !.phase = "sweep"]
         \/ /\ jobs' \in LandErr(Enqueue(js, "gc_sweep", gc.chain), j)
            /\ gc' = [gc EXCEPT !.fails = 0]
  BY Zenon DEF GcConsolidateEmpty, Builder, Dispatched, IsQueued
<1>2. gc.chain # 0
  BY Zenon, <1>1 DEF GcInv, ChainShape
<1>3. /\ js \in JobTable /\ js[j].kind = jobs[j].kind /\ js[j].state = "running"
      /\ \A i \in JobIds : i # j => js[i] = jobs[i]
  BY Zenon, <1>0, RunningRows
<1>4. js[j].chain = jobs[j].chain
  BY Zenon, <1>0 DEF Running, JobTable, Row
<1>5. CanEnqueue(js, "gc_sweep") /\ Pending(j)
  BY <1>0, <1>1, CanStillEnqueue DEF GcKinds, Pending
<1>6. /\ gc'.chain = gc.chain /\ gc'.mode = gc.mode
      /\ \/ jobs' = Delete(Enqueue(js, "gc_sweep", gc.chain), j) /\ gc'.phase = "sweep"
         \/ jobs' \in LandErr(Enqueue(js, "gc_sweep", gc.chain), j) /\ gc'.phase = "build"
  BY Zenon, <1>0, <1>1 DEF GcRow
<1>7. NoneBegun
  BY Zenon, <1>0, <1>1, NoneBegunSame
<1> HIDE DEF js
<1> QED
  BY Zenon, <1>1, <1>2, <1>3, <1>4, <1>5, <1>6, <1>7, SweepQueued

\* gc_compact stakes its chain where no builder of another chain is pending:
\* nobody is busy, or the chain it replaces is orphaned.
LEMMA CompactOwner ==
    ASSUME GcInv, OwnerInv, NEW j \in JobIds, NEW cohort \in SUBSET Packs, NEW failed \in BOOLEAN,
           GcCompact(j, cohort, failed)
    PROVE  OwnerInv'
<1> DEFINE c == lastChain + 1
           a == Running(jobs, j)
           js == WithoutDeadRows(a)
<1>0. jobs \in JobTable /\ slices \in SliceTable /\ c \in Nat /\ gc.phase \in {"unset", "build", "sweep"}
  <2>1. lastChain \in Nat
    BY Zenon, TypeParts DEF GcInv, Counters
  <2> QED
    BY <2>1, TypeParts DEF GcInv, ChainType, GcRow
<1>1. /\ jobs[j].kind = "gc_compact" /\ jobs[j].state = "queued" /\ MayCompact /\ slices' = slices
      /\ CanEnqueue(WithoutDeadRows(jobs), "gc_consolidate")
      /\ gc' = [NoGc EXCEPT !.chain = c, !.mode = "compact", !.phase = "build"]
      /\ \/ jobs' = Delete(Enqueue(js, "gc_consolidate", c), j)
         \/ jobs' \in LandErr(Enqueue(js, "gc_consolidate", c), j)
  BY Zenon DEF GcCompact, Dispatched, IsQueued
<1>2. gc'.chain = c /\ gc'.mode = "compact" /\ gc'.phase = "build"
  BY Zenon, <1>1 DEF NoGc
<1>3. /\ a \in JobTable /\ a[j].kind = "gc_compact" /\ a[j].state = "running"
      /\ \A i \in JobIds : i # j => a[i] = jobs[i]
  BY Zenon, <1>0, <1>1, RunningRows
<1>4. /\ js \in JobTable /\ js[j] = a[j] /\ \A i \in JobIds : i # j => js[i] \in {jobs[i], NoRow}
  <2>1. js \in JobTable /\ \A i \in JobIds : js[i] \in {a[i], NoRow}
    BY Zenon, <1>3, WithoutDeadRowsRows
  <2>2. js[j] = a[j]
    BY <1>3 DEF WithoutDeadRows, JobTable
  <2> QED
    BY Zenon, <1>3, <2>1, <2>2
<1>5. CanEnqueue(js, "gc_consolidate")
  <2>1. \A i \in JobIds : i # j => js[i] = WithoutDeadRows(jobs)[i]
    BY Zenon, <1>3 DEF WithoutDeadRows
  <2>2. WithoutDeadRows(jobs)[j] = jobs[j]
    BY <1>0, <1>1 DEF WithoutDeadRows, JobTable
  <2> HIDE DEF js
  <2> QED
    BY <1>1, <2>1, <2>2 DEF CanEnqueue, HasQueued, NoRow
<1> HIDE DEF a, js, c
<1>6. /\ \A i \in JobIds : i # j =>
            \/ jobs'[i] \in {jobs[i], NoRow}
            \/ jobs'[i].kind = "gc_consolidate" /\ jobs'[i].chain = c /\ jobs'[i].state = "queued"
      /\ jobs' = Delete(Enqueue(js, "gc_consolidate", c), j) => jobs'[j] = NoRow
      /\ jobs' \in LandErr(Enqueue(js, "gc_consolidate", c), j) =>
            /\ jobs'[j].kind = js[j].kind /\ jobs'[j].chain = js[j].chain
            /\ jobs'[j].state \in {"queued", "dead"}
      /\ jobs'[j].state # "running"
      /\ \E q \in JobIds : /\ q # j /\ jobs'[q].kind = "gc_consolidate" /\ jobs'[q].state = "queued"
                           /\ jobs'[q] = jobs[q] \/ jobs'[q].chain = c
  <2>1. "gc_consolidate" \in GcKinds
    BY DEF GcKinds
  <2>2. js[j].state = "running"
    BY Zenon, <1>3, <1>4
  <2> QED
    BY <1>0, <1>1, <1>4, <1>5, <2>1, <2>2, SuccessorRows
<1>7. NoRow.state = "none" /\ NoRow.kind = "none"
  BY Zenon DEF NoRow
<1>8. NoneClaimed
  BY <1>6, <1>7 DEF NoneClaimed
<1>9. Walkers'
  BY Zenon, <1>0, <1>1, <1>8, NoneBegunSame, WalkersKept DEF OwnerInv
<1>10. \A i \in JobIds : jobs[i].kind = "gc_consolidate" /\ Pending(i) => jobs[i].chain = 0
  <2> SUFFICES ASSUME NEW i \in JobIds, jobs[i].kind = "gc_consolidate", Pending(i)
               PROVE  jobs[i].chain = 0
    BY Zenon
  <2>1. Busy
    BY Zenon DEF Busy, Pending
  <2>2. Orphaned /\ gc.chain # 0
    BY Zenon, <1>1, <2>1 DEF MayCompact, Orphaned
  <2>3. Serves(i) /\ (gc.phase # "build" => jobs[i].chain = 0)
    BY Zenon, <2>2 DEF OwnerInv, FreshBuilders
  <2>4. gc.phase # "build"
    BY Zenon, <2>2, <2>3, OwnerKinds DEF Orphaned, Pending
  <2> QED
    BY Zenon, <2>3, <2>4
<1>11. \A i \in JobIds : jobs'[i].kind = "gc_consolidate" /\ Pending(i)' => jobs'[i].chain \in {0, c}
  <2> SUFFICES ASSUME NEW i \in JobIds, jobs'[i].kind = "gc_consolidate", Pending(i)'
               PROVE  jobs'[i].chain \in {0, c}
    BY Zenon
  <2>1. i # j
    BY <1>1, <1>3, <1>4, <1>6, <1>7
  <2>2. jobs'[i] = jobs[i] \/ jobs'[i].chain = c
    BY <1>6, <1>7, <2>1
  <2> QED
    BY Zenon, <1>10, <2>2 DEF Pending
<1>12. FreshBuilders' /\ FreshSweepers'
  <2>1. FreshBuilders'
    BY Zenon, <1>2, <1>11 DEF FreshBuilders, Serves
  <2>2. FreshSweepers'
    BY <1>2 DEF FreshSweepers
  <2> QED
    BY Zenon, <2>1, <2>2
<1>13. Owned'
  <2>1. PICK q \in JobIds : jobs'[q].kind = "gc_consolidate" /\ jobs'[q].state = "queued"
    BY Zenon, <1>6
  <2>2. Pending(q)' /\ jobs'[q].state # "running"
    BY <2>1 DEF Pending
  <2>3. jobs'[q].chain \in {0, gc'.chain}
    BY Zenon, <1>2, <1>11, <2>1, <2>2
  <2> QED
    BY Zenon, <1>2, <2>1, <2>2, <2>3, OwnerKindsNext, OwnerQueued
<1> QED
  BY Zenon, <1>9, <1>12, <1>13 DEF OwnerInv

-----------------------------------------------------------------------------
(* repair. *)

\* repair keeps the chain of every row it leaves, and the row it revives has
\* none; a kind it revives has a queued row afterwards.
LEMMA RepairedChains ==
    ASSUME jobs \in JobTable, NEW lost \in SUBSET JobIds, NEW spent \in SUBSET lost,
           lost \subseteq {i \in JobIds : jobs[i].state = "running"},
           jobs' = Resurrect(Requeued(lost, spent))
    PROVE  /\ \A i \in JobIds :
                 \/ /\ jobs'[i].kind = jobs[i].kind /\ jobs'[i].chain = jobs[i].chain
                    /\ jobs'[i].state = "running" => jobs'[i] = jobs[i]
                    /\ Pending(i)' => Pending(i)
                 \/ /\ jobs'[i].kind = jobs[i].kind /\ jobs'[i].chain = 0
                    /\ jobs'[i].state = "queued"
                 \/ /\ jobs'[i] = NoRow
                    /\ \E q \in JobIds :
                          /\ jobs'[q].kind = jobs[i].kind /\ jobs'[q].state = "queued"
                          /\ jobs'[q].chain = 0 \/ (jobs'[q].chain = jobs[q].chain /\ Pending(q)
                                                    /\ jobs'[q].kind = jobs[q].kind)
<1> DEFINE js == Requeued(lost, spent)
<1>1. \A i \in JobIds : /\ i \in spent => js[i] = Release(jobs, i, "dead")[i]
                        /\ i \in lost \ spent => js[i] = Release(jobs, i, "queued")[i]
                        /\ i \notin lost => js[i] = jobs[i]
  BY Zenon DEF Requeued
<1>2. jobs' = Resurrect(js)
  BY Zenon
<1> HIDE DEF js
<1>3. \A i \in JobIds, st \in {"queued", "dead"} :
         /\ Release(jobs, i, st)[i].kind = jobs[i].kind
         /\ Release(jobs, i, st)[i].chain = jobs[i].chain
         /\ Release(jobs, i, st)[i].state = st
  BY DEF Release, JobTable, Row
<1>4. \A i \in JobIds :
         /\ js[i].kind = jobs[i].kind /\ js[i].chain = jobs[i].chain
         /\ js[i].state = "running" => js[i] = jobs[i]
         /\ js[i].state \in {"queued", "running"} => Pending(i)
  <2> SUFFICES ASSUME NEW i \in JobIds
               PROVE  /\ js[i].kind = jobs[i].kind /\ js[i].chain = jobs[i].chain
                      /\ js[i].state = "running" => js[i] = jobs[i]
                      /\ js[i].state \in {"queued", "running"} => Pending(i)
    OBVIOUS
  <2>1. CASE i \in spent
    BY <1>1, <1>3, <2>1
  <2>2. CASE i \in lost \ spent
    BY <1>1, <1>3, <2>2 DEF Pending
  <2>3. CASE i \notin lost
    BY Zenon, <1>1, <2>3 DEF Pending
  <2> QED
    BY Zenon, <2>1, <2>2, <2>3
<1>5. ASSUME NEW i \in JobIds, ~(js[i].kind \in Revived(js) /\ js[i].state = "dead")
      PROVE  jobs'[i] = js[i]
  BY Zenon, <1>2, <1>5 DEF Resurrect
<1>6. ASSUME NEW i \in JobIds, js[i].kind \in Revived(js), js[i].state = "dead",
             ~HasQueued(js, js[i].kind), i = (CHOOSE k \in DeadOf(js, js[i].kind) : TRUE)
      PROVE  jobs'[i].kind = js[i].kind /\ jobs'[i].chain = 0 /\ jobs'[i].state = "queued"
  <2>1. jobs'[i] = [kind |-> js[i].kind, chain |-> 0, state |-> "queued", lease |-> Null]
    BY Zenon, <1>2, <1>6 DEF Resurrect
  <2> QED
    BY <2>1
<1>7. ASSUME NEW i \in JobIds, js[i].kind \in Revived(js), js[i].state = "dead",
             ~(~HasQueued(js, js[i].kind) /\ i = (CHOOSE k \in DeadOf(js, js[i].kind) : TRUE))
      PROVE  /\ jobs'[i] = NoRow
             /\ \E q \in JobIds :
                   /\ jobs'[q].kind = jobs[i].kind /\ jobs'[q].state = "queued"
                   /\ jobs'[q].chain = 0 \/ (jobs'[q].chain = jobs[q].chain /\ Pending(q)
                                             /\ jobs'[q].kind = jobs[q].kind)
  <2>1. jobs'[i] = NoRow
    BY Zenon, <1>2, <1>7 DEF Resurrect
  <2>2. CASE HasQueued(js, js[i].kind)
    <3>1. PICK q \in JobIds : js[q].kind = js[i].kind /\ js[q].state = "queued"
      BY Zenon, <2>2 DEF HasQueued
    <3>2. jobs'[q] = js[q]
      BY Zenon, <1>5, <3>1
    <3> QED
      BY Zenon, <1>4, <2>1, <3>1, <3>2
  <2>3. CASE ~HasQueued(js, js[i].kind)
    <3> DEFINE q == CHOOSE k \in DeadOf(js, js[i].kind) : TRUE
    <3>1. i \in DeadOf(js, js[i].kind)
      BY Zenon, <1>7 DEF DeadOf
    <3>2. q \in DeadOf(js, js[i].kind)
      BY Zenon, <3>1
    <3> HIDE DEF q
    <3>3. q \in JobIds /\ js[q].kind = js[i].kind /\ js[q].state = "dead"
      BY Zenon, <3>2 DEF DeadOf
    <3>4. q = (CHOOSE k \in DeadOf(js, js[q].kind) : TRUE) /\ ~HasQueued(js, js[q].kind)
      BY Zenon, <2>3, <3>3 DEF q
    <3>5. jobs'[q].kind = js[q].kind /\ jobs'[q].chain = 0 /\ jobs'[q].state = "queued"
      BY Zenon, <1>6, <1>7, <3>3, <3>4
    <3> QED
      BY Zenon, <1>4, <2>1, <3>3, <3>5
  <2> QED
    BY Zenon, <2>2, <2>3
<1> SUFFICES ASSUME NEW i \in JobIds
             PROVE  \/ /\ jobs'[i].kind = jobs[i].kind /\ jobs'[i].chain = jobs[i].chain
                       /\ jobs'[i].state = "running" => jobs'[i] = jobs[i]
                       /\ Pending(i)' => Pending(i)
                    \/ /\ jobs'[i].kind = jobs[i].kind /\ jobs'[i].chain = 0
                       /\ jobs'[i].state = "queued"
                    \/ /\ jobs'[i] = NoRow
                       /\ \E q \in JobIds :
                             /\ jobs'[q].kind = jobs[i].kind /\ jobs'[q].state = "queued"
                             /\ jobs'[q].chain = 0 \/ (jobs'[q].chain = jobs[q].chain /\ Pending(q)
                                                       /\ jobs'[q].kind = jobs[q].kind)
  BY Zenon
<1>8. CASE ~(js[i].kind \in Revived(js) /\ js[i].state = "dead")
  <2>1. jobs'[i] = js[i]
    BY Zenon, <1>5, <1>8
  <2> QED
    BY Zenon, <1>4, <2>1 DEF Pending
<1>9. CASE js[i].kind \in Revived(js) /\ js[i].state = "dead"
  BY ZenonT(40), <1>4, <1>6, <1>7, <1>9
<1> QED
  BY Zenon, <1>8, <1>9

\* repair keeps the phase owned: what it removes is replaced by a queued row.
LEMMA RepairOwner ==
    ASSUME GcInv, OwnerInv, NEW lost \in SUBSET JobIds, NEW spent \in SUBSET lost, Repair(lost, spent)
    PROVE  OwnerInv'
<1>0. jobs \in JobTable /\ slices \in SliceTable /\ gc.phase \in {"unset", "build", "sweep"}
  BY Zenon, TypeParts DEF GcInv, ChainType, GcRow
<1>1. gc' = gc /\ slices' = slices
  BY Zenon DEF Repair, chainVars
<1>2. \A i \in JobIds :
         \/ /\ jobs'[i].kind = jobs[i].kind /\ jobs'[i].chain = jobs[i].chain
            /\ jobs'[i].state = "running" => jobs'[i] = jobs[i]
            /\ Pending(i)' => Pending(i)
         \/ /\ jobs'[i].kind = jobs[i].kind /\ jobs'[i].chain = 0
            /\ jobs'[i].state = "queued"
         \/ /\ jobs'[i] = NoRow
            /\ \E q \in JobIds :
                  /\ jobs'[q].kind = jobs[i].kind /\ jobs'[q].state = "queued"
                  /\ jobs'[q].chain = 0 \/ (jobs'[q].chain = jobs[q].chain /\ Pending(q)
                                            /\ jobs'[q].kind = jobs[q].kind)
  BY Zenon, <1>0, RepairedChains DEF Repair
<1>3. NoRow.state = "none" /\ NoRow.kind = "none"
  BY Zenon DEF NoRow
<1>4. NoneClaimed /\ NoneBegun /\ SamePhase
  <2>1. NoneClaimed
    BY <1>2, <1>3 DEF NoneClaimed
  <2> QED
    BY Zenon, <1>0, <1>1, <2>1, NoneBegunSame DEF SamePhase
<1>5. Walkers'
  BY Zenon, <1>4, WalkersKept DEF OwnerInv
<1>6. \A i \in JobIds : jobs'[i].kind \in {"gc_consolidate", "gc_sweep"} /\ Pending(i)' =>
         \/ jobs'[i].chain = 0
         \/ jobs'[i].chain = jobs[i].chain /\ jobs'[i].kind = jobs[i].kind /\ Pending(i)
  BY <1>2, <1>3
<1>7. FreshBuilders'
  BY Zenon, <1>1, <1>6 DEF OwnerInv, FreshBuilders, Serves
<1>8. FreshSweepers'
  BY Zenon, <1>1, <1>6 DEF OwnerInv, FreshSweepers, Serves
<1>9. ASSUME gc.phase # "unset" PROVE Owned'
  <2>1. PICK i \in JobIds : OwnerRow(i)
    BY Zenon, <1>9 DEF OwnerInv, Owned
  <2>2. /\ jobs[i].kind = OwnerKind /\ OwnerKind' = OwnerKind
        /\ OwnerKind \in {"gc_consolidate", "gc_sweep"}
        /\ OwnerKind = "gc_sweep" => gc.phase = "sweep"
    BY <1>0, <1>1, <1>9, <2>1, OwnerKinds, OwnerKindsNext DEF OwnerRow
  <2>3. CASE jobs'[i].kind = jobs[i].kind /\ jobs'[i].chain = jobs[i].chain
    BY Zenon, <1>4, <2>1, <2>3, OwnerKept DEF Owned
  <2>4. CASE jobs'[i].kind = jobs[i].kind /\ jobs'[i].chain = 0 /\ jobs'[i].state = "queued"
    <3>1. jobs'[i].state # "running" /\ jobs'[i].chain \in {0, gc'.chain}
      BY <2>4
    <3> QED
      BY Zenon, <2>2, <2>4, <3>1, OwnerQueued
  <2>5. ASSUME NEW q \in JobIds, jobs'[q].kind = jobs[i].kind, jobs'[q].state = "queued",
               jobs'[q].chain = 0 \/ (jobs'[q].chain = jobs[q].chain /\ Pending(q)
                                      /\ jobs'[q].kind = jobs[q].kind)
        PROVE  Owned'
    <3>1. gc.chain # 0
      BY Zenon, <1>9 DEF GcInv, ChainShape
    <3>2. gc.phase = "sweep" => gc.mode = "mark"
      <4>1. gc.mode \in {"mark", "compact"}
        BY Zenon, TypeParts DEF GcInv, ChainType, GcRow
      <4> QED
        BY <4>1 DEF GcInv, ChainShape
    <3>3. jobs'[q].chain \in {0, gc'.chain}
      BY Zenon, <1>1, <2>2, <2>5, <3>1, <3>2 DEF OwnerInv, FreshBuilders, FreshSweepers, Serves
    <3>4. jobs'[q].state # "running"
      BY <2>5
    <3> QED
      BY Zenon, <2>2, <2>5, <3>3, <3>4, OwnerQueued
  <2> QED
    BY Zenon, <1>2, <2>3, <2>4, <2>5
<1>10. Owned'
  BY Zenon, <1>1, <1>9 DEF Owned
<1> QED
  BY Zenon, <1>5, <1>7, <1>8, <1>10 DEF OwnerInv

-----------------------------------------------------------------------------
(* Every step. *)

\* Every step keeps the phase owned.
LEMMA OwnerStep ==
    ASSUME GcInv, OwnerInv, [GcNext]_vars PROVE OwnerInv'
<1>1. CASE MarkStep
  BY Zenon, <1>1, MarkClaimOwner, ClearingOwner, GcMarkLateOwner, WalkOwner, FailedOwner, HandoffOwner
  DEF MarkStep
<1>2. CASE BuildStep
  BY Zenon, <1>2, DropOwner, ClearingOwner, EmptyOwner, BuildClaimOwner, CopyOwner, FinishOwner,
     FailedOwner, RestartOwner
  DEF BuildStep
<1>3. CASE RetireStep
  BY Zenon, <1>3, RetireOwner, CompactOwner, ClearingOwner DEF RetireStep
<1>4. CASE SliceStep
  BY Zenon, <1>4, FailedOwner, StaleOwner, RepairOwner, JanitorOwner DEF SliceStep
<1>5. CASE UNCHANGED vars
  <2>1. jobs' = jobs /\ gc' = gc /\ slices' = slices /\ slices \in SliceTable
    BY Zenon, <1>5, TypeParts DEF vars, gcVars, GcInv
  <2> QED
    BY Zenon, <2>1, NoneBegunSame, OwnerStill DEF SamePhase
<1> QED
  BY Zenon, <1>1, <1>2, <1>3, <1>4, <1>5, StoreOwner DEF GcNext

\* A fresh repository has no chain, no row and no slice.
LEMMA OwnerInit == GcInit => OwnerInv /\ NoStrayBuild
<1> SUFFICES ASSUME GcInit PROVE OwnerInv /\ NoStrayBuild
  OBVIOUS
<1>1. gc = NoGc /\ slices = [s \in Slices |-> NoSlice]
      /\ packState = [p \in Packs |-> IF p \in SeedPacks THEN "live" ELSE "none"]
  BY Zenon DEF GcInit, StoreInit
<1>2. gc.chain = 0 /\ gc.phase = "unset" /\ \A s \in Slices : ~Held(s)
  BY Zenon, <1>1, NoSliceRow DEF NoGc, Held
<1>3. OwnerInv
  BY Zenon, <1>2 DEF OwnerInv, FreshBuilders, FreshSweepers, Walkers, Owned
<1>4. NoStrayBuild
  BY <1>1 DEF NoStrayBuild
<1> QED
  BY Zenon, <1>3, <1>4

=============================================================================
