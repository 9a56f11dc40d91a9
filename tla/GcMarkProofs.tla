---------------------------- MODULE GcMarkProofs ----------------------------
(***************************************************************************)
(* The collector's invariant through the mark: its start, the walk, its    *)
(* commits, the hand-off and the ends of slices; and what repair does to   *)
(* the job rows.                                                           *)
(***************************************************************************)
EXTENDS GcChainInv

-----------------------------------------------------------------------------
(* Chains that end, and steps that touch only job rows and slices. *)

\* gc_mark that begins no chain wipes an orphaned one; its row ends or is queued again.
LEMMA GcMarkNothingInv == \A j \in JobIds : GcInv /\ GcMarkNothing(j) => Safe
<1> SUFFICES ASSUME NEW j \in JobIds, GcInv, GcMarkNothing(j) PROVE Safe
  OBVIOUS
<1>1. jobs \in JobTable /\ slices \in SliceTable /\ Counters
  BY Zenon, TypeParts DEF GcInv
<1>2. jobs' \in JobTable /\ Tame(jobs')
  BY Zenon, <1>1, TameWithoutDead, TameWithoutDeadDelete DEF GcMarkNothing
<1>3. WipeAll /\ StoreSame /\ slices' = slices /\ lastChain' = lastChain
  BY Zenon DEF GcMarkNothing
<1>4. Counters'
  BY Zenon, <1>1, StruckType DEF GcMarkNothing, Counters
<1> QED
  BY Zenon, <1>1, <1>2, <1>3, <1>4, WipedChainInv DEF Safe

\* gc_compact that finds no cohort wipes what is left of a chain and ends.
LEMMA GcCompactNothingInv == \A j \in JobIds : GcInv /\ GcCompactNothing(j) => Safe
<1> SUFFICES ASSUME NEW j \in JobIds, GcInv, GcCompactNothing(j) PROVE Safe
  OBVIOUS
<1>1. jobs \in JobTable /\ slices \in SliceTable /\ Counters
  BY Zenon, TypeParts DEF GcInv
<1>2. jobs' \in JobTable /\ Tame(jobs')
  BY Zenon, <1>1, TameWithoutDeadDelete DEF GcCompactNothing
<1>3. WipeAll /\ StoreSame /\ slices' = slices /\ lastChain' = lastChain
  BY Zenon DEF GcCompactNothing
<1>4. Counters'
  BY Zenon, <1>1, StruckType DEF GcCompactNothing, Counters
<1> QED
  BY Zenon, <1>1, <1>2, <1>3, <1>4, WipedChainInv DEF Safe

\* gc_consolidate of a retired cohort, or of one not worth copying, wipes the chain.
LEMMA GcConsolidateNothingInv == \A j \in JobIds : GcInv /\ GcConsolidateNothing(j) => Safe
<1> SUFFICES ASSUME NEW j \in JobIds, GcInv, GcConsolidateNothing(j) PROVE Safe
  OBVIOUS
<1>1. jobs \in JobTable /\ slices \in SliceTable /\ Counters
  BY Zenon, TypeParts DEF GcInv
<1>2. jobs' \in JobTable /\ Tame(jobs')
  BY Zenon, <1>1, TameDelete DEF GcConsolidateNothing
<1>3. WipeAll /\ StoreSame /\ slices' = slices /\ lastChain' = lastChain /\ Counters'
  BY Zenon, <1>1 DEF GcConsolidateNothing, Counters
<1> QED
  BY Zenon, <1>1, <1>2, <1>3, WipedChainInv DEF Safe

\* gc_consolidate that finds the refs moved aborts the chain.
LEMMA GcConsolidateAbortInv == \A j \in JobIds : GcInv /\ GcConsolidateAbort(j) => Safe
<1> SUFFICES ASSUME NEW j \in JobIds, GcInv, GcConsolidateAbort(j) PROVE Safe
  OBVIOUS
<1>1. jobs \in JobTable /\ slices \in SliceTable /\ Counters
  BY Zenon, TypeParts DEF GcInv
<1>2. CanEnqueue(Running(jobs, j), "gc_mark")
  BY Zenon, <1>1, CanStillEnqueue DEF GcConsolidateAbort, Builder, Dispatched, IsQueued, GcKinds
<1>3. jobs' \in JobTable /\ Tame(jobs')
  BY Zenon, <1>1, <1>2, TameAbort DEF GcConsolidateAbort
<1>4. WipeAll /\ StoreSame /\ slices' = slices /\ lastChain' = lastChain /\ Counters'
  BY Zenon, <1>1 DEF GcConsolidateAbort, Counters
<1> QED
  BY Zenon, <1>1, <1>3, <1>4, WipedChainInv DEF Safe

\* gc_sweep that finds the refs moved aborts the chain and forgets nothing.
LEMMA GcSweepAbortInv == \A j \in JobIds : GcInv /\ GcSweepAbort(j) => Safe
<1> SUFFICES ASSUME NEW j \in JobIds, GcInv, GcSweepAbort(j) PROVE Safe
  OBVIOUS
<1>1. jobs \in JobTable /\ slices \in SliceTable /\ Counters
  BY Zenon, TypeParts DEF GcInv
<1>2. CanEnqueue(Running(jobs, j), "gc_mark")
  BY Zenon, <1>1, CanStillEnqueue DEF GcSweepAbort, Sweeper, Dispatched, IsQueued, GcKinds
<1>3. jobs' \in JobTable /\ Tame(jobs')
  BY Zenon, <1>1, <1>2, TameAbort DEF GcSweepAbort
<1>4. WipeAll /\ StoreSame /\ slices' = slices /\ lastChain' = lastChain /\ Counters'
  BY Zenon, <1>1 DEF GcSweepAbort, Counters
<1> QED
  BY Zenon, <1>1, <1>3, <1>4, WipedChainInv DEF Safe

\* A walk that finds the refs moved aborts the chain.
LEMMA MarkAbortInv == \A s \in Slices : GcInv /\ MarkAbort(s) => Safe
<1> SUFFICES ASSUME NEW s \in Slices, GcInv, MarkAbort(s) PROVE Safe
  OBVIOUS
<1>1. jobs \in JobTable /\ slices \in SliceTable /\ Counters
  BY Zenon, TypeParts DEF GcInv
<1>2. slices[s].job \in JobIds /\ jobs[slices[s].job].state = "running"
  BY Zenon DEF MarkAbort, AtLoop, MarkFence, Held, GcInv, ChainIds
<1>3. CanEnqueue(Running(jobs, slices[s].job), "gc_mark")
  BY Zenon, <1>1, <1>2, CanStillEnqueue DEF MarkAbort, GcKinds
<1>4. jobs' \in JobTable /\ Tame(jobs')
  BY Zenon, <1>1, <1>2, <1>3, TameAbort DEF MarkAbort
<1>5. WipeAll /\ StoreSame /\ lastChain' = lastChain /\ Counters'
      /\ slices' = [slices EXCEPT ![s] = NoSlice]
  BY Zenon, <1>1 DEF MarkAbort, Counters
<1>6. slices' \in SliceTable /\ \A t \in Slices : slices'[t] \in {slices[t], NoSlice}
  BY Zenon, <1>1, <1>5, SliceDropped
<1> QED
  BY Zenon, <1>4, <1>5, <1>6, WipedChainInv DEF Safe

\* A stray row, or one whose phase is not current, only ends.
LEMMA GcDropRowInv == \A j \in JobIds : GcInv /\ GcDropRow(j) => Safe
<1> SUFFICES ASSUME NEW j \in JobIds, GcInv, GcDropRow(j) PROVE Safe
  OBVIOUS
<1>1. jobs \in JobTable /\ slices \in SliceTable /\ Counters
  BY Zenon, TypeParts DEF GcInv
<1>2. jobs' \in JobTable /\ Tame(jobs')
  BY Zenon, <1>1, TameDelete DEF GcDropRow
<1>3. UNCHANGED <<storeVars, chainVars, lastChain, resurrected, slices>> /\ Counters'
  BY Zenon, <1>1, StoreSameVars DEF GcDropRow, Counters
<1> QED
  BY Zenon, <1>1, <1>2, <1>3, QuietInv

\* gc_mark that meets a chain past its walk leaves it to its owner, or aborts it.
LEMMA GcMarkLateInv == \A j \in JobIds : GcInv /\ GcMarkLate(j) => Safe
<1> SUFFICES ASSUME NEW j \in JobIds, GcInv, GcMarkLate(j) PROVE Safe
  OBVIOUS
<1>1. jobs \in JobTable /\ slices \in SliceTable /\ Counters
  BY Zenon, TypeParts DEF GcInv
<1>2. StoreSame /\ UNCHANGED <<lastChain, resurrected, slices>> /\ Counters'
  BY Zenon, <1>1 DEF GcMarkLate, Counters
<1>3. CASE refs_version # gc.refs_version
  <2>1. WipeAll /\ jobs' = AbortJobs(j) /\ CanEnqueue(Running(jobs, j), "gc_mark")
    BY Zenon, <1>3 DEF GcMarkLate
  <2>2. jobs' \in JobTable /\ Tame(jobs')
    BY Zenon, <1>1, <2>1, TameAbort
  <2> QED
    BY Zenon, <1>1, <1>2, <2>1, <2>2, WipedChainInv DEF Safe
<1>4. CASE refs_version = gc.refs_version
  <2>1. PacksSame /\ UNCHANGED chainVars /\ jobs' = Delete(jobs, j)
    BY Zenon, <1>4 DEF GcMarkLate
  <2>2. jobs' \in JobTable /\ Tame(jobs')
    BY Zenon, <1>1, <2>1, TameDelete
  <2> QED
    BY Zenon, <1>1, <1>2, <2>1, <2>2, StoreSameVars, QuietInv
<1> QED
  BY Zenon, <1>3, <1>4

\* The janitor queues a compaction or a mark.
LEMMA JanitorEnqueueInv ==
    \A kind \in {"gc_compact", "gc_mark"} : GcInv /\ JanitorEnqueue(kind) => Safe
<1> SUFFICES ASSUME NEW kind \in {"gc_compact", "gc_mark"}, GcInv, JanitorEnqueue(kind) PROVE Safe
  OBVIOUS
<1>1. jobs \in JobTable /\ slices \in SliceTable /\ Counters
  BY Zenon, TypeParts DEF GcInv
<1>2. kind \in GcKinds \ {"gc_consolidate"}
  BY Zenon DEF GcKinds
<1>3. jobs' \in JobTable /\ Tame(jobs')
  <2>1. \A i \in JobIds : TameRow(jobs, i)
    BY Zenon, <1>1 DEF TameRow, JobTable, Row
  <2>2. CanEnqueue(jobs, kind) /\ jobs' = Enqueue(jobs, kind, 0)
    BY Zenon DEF JanitorEnqueue
  <2> QED
    BY Zenon, <1>1, <1>2, <2>1, <2>2, TameEnqueue DEF Tame
<1>4. UNCHANGED <<storeVars, chainVars, lastChain, resurrected, slices>> /\ Counters'
  BY Zenon, <1>1, StoreSameVars DEF JanitorEnqueue, Counters
<1> QED
  BY Zenon, <1>1, <1>3, <1>4, QuietInv

\* The ways a slice ends without writing to the store or the chain.
LEMMA SliceEndsInv ==
    \A s \in Slices : GcInv /\ (SliceYield(s) \/ SliceStale(s) \/ SliceErr(s) \/ SliceKill(s)) => Safe
<1> SUFFICES ASSUME NEW s \in Slices, GcInv,
                    SliceYield(s) \/ SliceStale(s) \/ SliceErr(s) \/ SliceKill(s)
             PROVE  Safe
  OBVIOUS
<1>1. jobs \in JobTable /\ slices \in SliceTable /\ Counters
  BY Zenon, TypeParts DEF GcInv
<1>2. Tame(jobs)
  BY Zenon, <1>1 DEF Tame, TameRow, JobTable, Row
<1>3. Held(s) => slices[s].job \in JobIds /\ jobs[slices[s].job].state = "running"
  BY Zenon DEF Held, GcInv, ChainIds
<1>4. jobs' \in JobTable /\ Tame(jobs')
  <2>1. CASE SliceYield(s)
    BY Zenon, <1>1, <1>3, <2>1, TameRelease DEF SliceYield
  <2>2. CASE SliceStale(s)
    BY Zenon, <1>1, <1>2, <1>3, <2>2, TameDelete DEF SliceStale, LandDone
  <2>3. CASE SliceErr(s)
    BY Zenon, <1>1, <1>2, <1>3, <2>3, TameLandErr DEF SliceErr
  <2>4. CASE SliceKill(s)
    BY Zenon, <1>1, <1>2, <2>4 DEF SliceKill
  <2> QED
    BY Zenon, <2>1, <2>2, <2>3, <2>4
<1>5. slices' = [slices EXCEPT ![s] = NoSlice]
  BY Zenon DEF SliceYield, SliceStale, SliceErr, SliceKill
<1>6. slices' \in SliceTable /\ \A t \in Slices : slices'[t] \in {slices[t], NoSlice}
  BY Zenon, <1>1, <1>5, SliceDropped
<1>7. UNCHANGED <<storeVars, chainVars, lastChain, resurrected>>
  BY Zenon, StoreSameVars DEF SliceYield, SliceStale, SliceErr, SliceKill
<1>8. UNCHANGED strikes /\ faults' \in Nat
  BY <1>1 DEF SliceYield, SliceStale, SliceErr, SliceKill, Counters
<1>9. Counters'
  BY Zenon, <1>1, <1>7, <1>8 DEF Counters
<1> QED
  BY Zenon, <1>4, <1>6, <1>7, <1>9, QuietInv

-----------------------------------------------------------------------------
(* A mark begins or goes on. *)

\* The memory of a gc_mark slice that begins.
WalkSlice(j, chain) == [NoSlice EXCEPT !.pc = "start", !.job = j, !.chain = chain]

\* The init span of gc_mark starts a chain: the cohort is live and unmarked, the frontier
\* holds every ref target and every object of the kept packs that has links.
LEMMA GcMarkInitInv ==
    \A j \in JobIds, s \in Slices, cands \in SUBSET Packs : GcInv /\ GcMarkInit(j, s, cands) => Safe
<1> SUFFICES ASSUME NEW j \in JobIds, NEW s \in Slices, NEW cands \in SUBSET Packs, GcInv,
                    GcMarkInit(j, s, cands)
             PROVE  Safe
  OBVIOUS
<1> DEFINE c == lastChain + 1
           row == WalkSlice(j, c)
           young == LiveIn(WipedState) \ cands
           roots == {o \in UNION {WipedObjects[p] : p \in young} : Links[o] # {}}
<1>1. jobs \in JobTable /\ slices \in SliceTable /\ Counters /\ ChainType /\ StoreTypeOK
  BY Zenon, TypeParts DEF GcInv
<1>2. /\ IsQueued(j, "gc_mark") /\ FreshLease(s) /\ ~Busy /\ cands # {} /\ cands \subseteq LiveIn(WipedState)
      /\ lastChain' = c /\ marked' = cands /\ bitmap' = NoBits
      /\ frontier' = RefTargets \cup roots /\ seen' = {}
      /\ packState' = WipedState /\ objects' = WipedObjects
      /\ jobs' = Claim(WithoutDeadRows(jobs), j, s) /\ strikes' = Struck
      /\ slices' = [slices EXCEPT ![s] = row]
      /\ StoreSame /\ UNCHANGED <<resurrected, faults>>
  BY Zenon DEF GcMarkInit, WalkSlice, Dispatched
<1>3. gc' = [NoGc EXCEPT !.chain = c, !.refs_version = refs_version]
  BY Zenon DEF GcMarkInit
<1>4. c \in Nat /\ c > lastChain /\ c # 0 /\ lastChain \in Nat /\ refs_version \in Nat
  BY <1>1 DEF Counters, StoreTypeOK
<1>5. /\ gc' \in GcRow /\ gc'.chain = c /\ gc'.mode = "mark" /\ gc'.phase = "unset"
      /\ gc'.refs_version = refs_version /\ gc'.new_pack = Null
  BY Zenon, <1>3, <1>4 DEF NoGc, GcRow
<1>6. row \in SliceRow /\ row.job = j /\ row.pc = "start" /\ row.chain = c
  BY Zenon, <1>4, NoSliceRow DEF SliceRow, NoSlice, WalkSlice
<1>7. UNCHANGED <<refs, refs_version, gc_epoch, packPush, r2, pushState, pushEpoch, edge, doomed>>
  BY Zenon, <1>2 DEF StoreSame, refVars, pushVars
<1>8. /\ StoreInv' /\ LiveObjects' = LiveObjects /\ LivePacks' = LiveIn(WipedState)
      /\ \A p \in Packs : packState[p] # "none" => packState'[p] # "none"
  BY Zenon, <1>2, WipedInv
<1> HIDE DEF c, row
<1>9. Marked' = {} /\ RefTargets' = RefTargets
  BY Zenon, <1>2, <1>7 DEF Marked, NoBits, RefTargets
<1>10. Kept' = UNION {WipedObjects[p] : p \in young}
  BY Zenon, <1>2, <1>8 DEF Kept, ObjectsIn
<1>11. Kept' \subseteq LiveObjects' /\ RefTargets \subseteq LiveObjects' /\ LiveObjects' \subseteq Oid
  <2>1. Kept' \subseteq LiveObjects'
    BY Zenon DEF Kept, LiveObjects, ObjectsIn
  <2>2. RefTargets \subseteq LiveObjects'
    BY Zenon, <1>8, <1>9 DEF StoreInv, LiveClosed
  <2>3. LiveObjects' \subseteq Oid
    BY <1>8 DEF LiveObjects, ObjectsIn, LivePacks, StoreInv, StoreTypeOK
  <2> QED
    BY Zenon, <2>1, <2>2, <2>3
<1>12. roots = {o \in Kept' : Links[o] # {}}
  BY Zenon, <1>10
<1> HIDE DEF roots, young
<1>13. ChainType' /\ Counters'
  <2>1. frontier' \subseteq Oid
    BY Zenon, <1>2, <1>11, <1>12
  <2> QED
    BY Zenon, <1>1, <1>2, <1>4, <1>5, <2>1, StruckType DEF ChainType, Counters, NoBits
<1>14. ChainInv'
  <2>1. ChainShape'
    BY <1>4, <1>5, <1>7 DEF ChainShape
  <2>2. Cohort'
    BY Zenon, <1>2, <1>5, <1>8 DEF Cohort, LivePacks
  <2>3. NewPack' /\ Marks' /\ SurvivorsClosed'
    BY Zenon, <1>2, <1>5 DEF NewPack, Marks, SurvivorsClosed, NoBits
  <2>4. Walk'
    BY Zenon, <1>2, <1>9, <1>11, <1>12 DEF Walk
  <2> QED
    BY Zenon, <2>1, <2>2, <2>3, <2>4 DEF ChainInv
<1>15. slices' \in SliceTable /\ slices'[s] = row /\ \A t \in Slices : t # s => slices'[t] = slices[t]
  BY Zenon, <1>1, <1>2, <1>6 DEF SliceTable
<1>16. /\ jobs' \in JobTable /\ jobs'[j].lease = s /\ jobs'[j].kind = "gc_mark"
       /\ \A i \in JobIds : i # j => jobs'[i] \in {jobs[i], NoRow}
  <2>1. /\ WithoutDeadRows(jobs) \in JobTable
        /\ \A i \in JobIds : WithoutDeadRows(jobs)[i] \in {jobs[i], NoRow}
    BY Zenon, <1>1, WithoutDeadRowsRows
  <2>2. WithoutDeadRows(jobs)[j] = jobs[j]
    BY Zenon, <1>1, <1>2 DEF WithoutDeadRows, IsQueued
  <2>3. /\ jobs' \in JobTable /\ jobs'[j].lease = s
        /\ jobs'[j].kind = WithoutDeadRows(jobs)[j].kind
        /\ \A i \in JobIds : i # j => jobs'[i] = WithoutDeadRows(jobs)[i]
    BY ZenonT(30), <1>2, <2>1, ClaimRows
  <2> QED
    BY Zenon, <1>2, <2>1, <2>2, <2>3 DEF IsQueued
<1>17. \A t \in Slices : t # s /\ Held(t)' =>
          Held(t) /\ jobs'[slices[t].job].kind = jobs[slices[t].job].kind
  BY Zenon, <1>15, <1>16, ClaimedHeld
<1>18. \A t \in Slices : t # s => slices[t].chain < c
  BY <1>1, <1>4 DEF GcInv, ChainIds, SliceTable, SliceRow
<1>19. SlicesInv'
  <2>1. ChainIds'
    <3>1. \A t \in Slices : slices[t].chain \in Nat
      BY Zenon, <1>1 DEF SliceTable, SliceRow
    <3> QED
      BY <1>2, <1>4, <1>5, <1>6, <1>15, <3>1 DEF GcInv, ChainIds
  <2>2. SliceWalk'
    BY <1>4, <1>5, <1>6, <1>15, <1>18 DEF SliceWalk, InBatch
  <2>3. \A t \in Slices : Building(t)' => t # s /\ Building(t) /\ slices'[t] = slices[t]
    BY Zenon, <1>6, <1>15 DEF Building
  <2>4. SliceBuild'
    <3> SUFFICES ASSUME NEW t \in Slices, Building(t)'
                 PROVE  /\ slices'[t].pack \in Packs /\ packPush[slices'[t].pack] = Null
                        /\ packState'[slices'[t].pack] # "none"
                        /\ slices'[t].chain # c
      BY Zenon, <1>5, <1>7, NullAssumption DEF SliceBuild
    <3>1. slices[t].chain \in Nat
      BY Zenon, <1>1 DEF SliceTable, SliceRow
    <3> QED
      BY <1>4, <1>8, <1>18, <2>3, <3>1 DEF GcInv, SliceBuild
  <2> QED
    BY Zenon, <2>1, <2>2, <2>4 DEF SlicesInv
<1>20. OneBuilder'
  <2>1. \A i \in JobIds : ~(IsBuilder(i, "queued") \/ IsBuilder(i, "running"))
    BY Zenon, <1>2 DEF IsBuilder, Busy
  <2>2. \A i \in JobIds : ~(IsBuilder(i, "queued") \/ IsBuilder(i, "running"))'
    BY <1>16, <2>1 DEF IsBuilder, NoRow
  <2>3. \A t \in Slices : Building(t)' /\ Held(t)' => jobs'[slices'[t].job].kind = "gc_consolidate"
    <3> SUFFICES ASSUME NEW t \in Slices, Building(t)', Held(t)'
                 PROVE  jobs'[slices'[t].job].kind = "gc_consolidate"
      OBVIOUS
    <3>1. t # s /\ Building(t) /\ slices'[t] = slices[t]
      BY Zenon, <1>6, <1>15 DEF Building
    <3>2. Held(t) /\ jobs'[slices[t].job].kind = jobs[slices[t].job].kind
      BY Zenon, <1>17, <3>1
    <3> QED
      BY Zenon, <3>1, <3>2 DEF GcInv, OneBuilder
  <2> QED
    BY Zenon, <2>2, <2>3 DEF OneBuilder
<1>21. GcTypeOK'
  BY Zenon, <1>8, <1>13, <1>15, <1>16, TypePartsNext DEF StoreInv
<1> QED
  BY Zenon, <1>8, <1>14, <1>19, <1>20, <1>21, GcInvParts DEF Safe, GcInv, ChainInv, SlicesInv

\* A later gc_mark slice takes up the walk where the tables left it.
LEMMA GcMarkResumeInv == \A j \in JobIds, s \in Slices : GcInv /\ GcMarkResume(j, s) => Safe
<1> SUFFICES ASSUME NEW j \in JobIds, NEW s \in Slices, GcInv, GcMarkResume(j, s) PROVE Safe
  OBVIOUS
<1> DEFINE row == WalkSlice(j, gc.chain)
<1>1. jobs \in JobTable /\ slices \in SliceTable /\ Counters /\ ChainType
  BY Zenon, TypeParts DEF GcInv
<1>2. row \in SliceRow /\ row.job = j /\ row.pc = "start" /\ row.chain = gc.chain
  BY Zenon, <1>1, NoSliceRow DEF SliceRow, ChainType, GcRow, NoSlice, WalkSlice
<1>3. /\ FreshLease(s) /\ gc.chain # 0 /\ jobs' = Claim(jobs, j, s)
      /\ slices' = [slices EXCEPT ![s] = row] /\ IsQueued(j, "gc_mark")
      /\ UNCHANGED <<storeVars, chainVars, resurrected, strikes, lastChain, faults>>
  BY Zenon, StoreSameVars DEF GcMarkResume, Dispatched, WalkSlice
<1>4. UNCHANGED <<gc, marked, bitmap, frontier, seen>>
  BY Zenon, <1>3 DEF chainVars
<1>5. UNCHANGED <<refs, refs_version, gc_epoch, packState, packPush, objects>>
  BY Zenon, <1>3 DEF storeVars
<1> HIDE DEF row
<1>6. /\ jobs' \in JobTable /\ slices' \in SliceTable /\ slices'[s] = row
      /\ \A t \in Slices : t # s =>
            /\ slices'[t] = slices[t]
            /\ Held(t)' => Held(t) /\ jobs'[slices[t].job].kind = jobs[slices[t].job].kind
  <2>1. slices' \in SliceTable /\ slices'[s] = row /\ \A t \in Slices : t # s => slices'[t] = slices[t]
    BY Zenon, <1>1, <1>2, <1>3 DEF SliceTable
  <2>2. jobs' \in JobTable /\ jobs'[j].lease = s /\ \A i \in JobIds : i # j => jobs'[i] = jobs[i]
    BY Zenon, <1>1, <1>3, ClaimRows
  <2>3. \A t \in Slices : t # s /\ Held(t)' =>
           Held(t) /\ jobs'[slices[t].job].kind = jobs[slices[t].job].kind
    BY Zenon, <2>1, <2>2, ClaimedHeld
  <2> QED
    BY Zenon, <2>1, <2>2, <2>3
<1>7. StoreInv' /\ ChainInv'
  BY Zenon, <1>3, StoreStutter, ChainQuiet, GcInvParts
<1>8. GcTypeOK'
  BY Zenon, <1>1, <1>3, <1>4, <1>6, <1>7, TypePartsNext DEF StoreInv, ChainType, Counters
<1>9. Marked' = Marked /\ Kept' = Kept /\ (Walking' <=> Walking)
  BY Zenon, <1>4, <1>5 DEF Marked, Kept, LivePacks, ObjectsIn, Walking
<1>10. \A t \in Slices :
          /\ Building(t)' => t # s /\ Building(t) /\ slices'[t] = slices[t] /\ (Held(t)' => Held(t))
          /\ InBatch(t)' => InBatch(t) /\ slices'[t] = slices[t]
  BY Zenon, <1>2, <1>6 DEF Building, InBatch
<1>11. SlicesInv'
  <2>1. ChainIds'
    BY Zenon, <1>1, <1>2, <1>3, <1>4, <1>6 DEF GcInv, ChainIds, Counters
  <2>2. SliceWalk'
    BY <1>4, <1>5, <1>9, <1>10 DEF GcInv, SliceWalk
  <2>3. SliceBuild'
    BY Zenon, <1>4, <1>5, <1>9, <1>10 DEF GcInv, SliceBuild
  <2> QED
    BY Zenon, <2>1, <2>2, <2>3 DEF SlicesInv
<1>12. OneBuilder'
  <2>1. /\ jobs'[j].kind = "gc_mark"
        /\ \A i \in JobIds : i # j => jobs'[i] = jobs[i]
    BY <1>1, <1>3, ClaimRows DEF IsQueued
  <2>2. \A i \in JobIds, st \in {"queued", "running", "dead"} : IsBuilder(i, st)' <=> IsBuilder(i, st)
    BY Zenon, <1>3, <2>1 DEF IsBuilder, IsQueued
  <2>3. \A t \in Slices : Building(t)' /\ Held(t)' => jobs'[slices'[t].job].kind = "gc_consolidate"
    BY Zenon, <1>6, <1>10 DEF GcInv, OneBuilder
  <2> QED
    BY Zenon, <1>3, <1>4, <2>2, <2>3 DEF GcInv, OneBuilder
<1>13. LiveObjects' = LiveObjects
  BY Zenon, <1>5 DEF LiveObjects, ObjectsIn, LivePacks
<1> QED
  BY Zenon, <1>7, <1>8, <1>11, <1>12, <1>13, GcInvParts DEF Safe, GcInv, ChainInv, SlicesInv

-----------------------------------------------------------------------------
(* The walk. *)

\* A slice takes a batch off the frontier and reads where its objects are.
LEMMA MarkPopInv ==
    \A s \in Slices : \A batch \in SUBSET frontier :
        \A at \in [batch \cap LiveObjects -> LivePacks] : GcInv /\ MarkPop(s, batch, at) => Safe
<1> SUFFICES ASSUME NEW s \in Slices, NEW batch \in SUBSET frontier,
                    NEW at \in [batch \cap LiveObjects -> LivePacks],
                    GcInv, MarkPop(s, batch, at)
             PROVE  Safe
  OBVIOUS
<1> DEFINE bits == [p \in Packs |-> {o \in DOMAIN at : p \in marked /\ at[o] = p}]
<1>1. jobs \in JobTable /\ slices \in SliceTable /\ Counters /\ ChainType
  BY Zenon, TypeParts DEF GcInv
<1>2. UNCHANGED <<storeVars, chainVars, jobs, resurrected, strikes, lastChain, faults>>
  BY Zenon, StoreSameVars DEF MarkPop
<1>3. DOMAIN at = batch \cap LiveObjects /\ batch \subseteq Oid
  BY Zenon, <1>1 DEF ChainType
<1>4. bits \in [Packs -> SUBSET Oid]
  BY Zenon, <1>3
<1>5. /\ slices' \in SliceTable
      /\ slices'[s].pc = "read" /\ slices'[s].batch = batch /\ slices'[s].hits = batch \cap LiveObjects
      /\ slices'[s].bits = bits /\ slices'[s].job = slices[s].job /\ slices'[s].chain = slices[s].chain
      /\ \A t \in Slices : t # s => slices'[t] = slices[t]
  <2>1. slices' = [slices EXCEPT ![s].pc = "read", ![s].batch = batch, ![s].hits = DOMAIN at,
                                 ![s].bits = bits]
    BY Zenon DEF MarkPop
  <2>2. slices[s] \in SliceRow /\ DOMAIN at \subseteq Oid
    BY Zenon, <1>1, <1>3 DEF SliceTable
  <2> HIDE DEF bits
  <2>3. slices' \in SliceTable
    BY Zenon, <1>1, <1>3, <1>4, <2>1, <2>2 DEF SliceTable, SliceRow
  <2> QED
    BY Zenon, <1>1, <1>3, <2>1, <2>2, <2>3 DEF SliceTable, SliceRow
<1>6. slices[s].pc # "none" /\ ~Building(s) /\ ~InBatch(s)
  BY Zenon DEF MarkPop, AtLoop, Building, InBatch
<1>7. UNCHANGED <<gc, marked, bitmap, frontier, seen>>
  BY Zenon, <1>2 DEF chainVars
<1>8. UNCHANGED <<refs, refs_version, gc_epoch, packState, packPush, objects>>
  BY Zenon, <1>2 DEF storeVars
<1>9. StoreInv' /\ ChainInv'
  BY Zenon, <1>2, StoreStutter, ChainQuiet, GcInvParts
<1>10. GcTypeOK'
  BY Zenon, <1>1, <1>2, <1>5, <1>7, <1>9, TypePartsNext DEF StoreInv, ChainType, Counters
<1>11. Marked' = Marked /\ Kept' = Kept /\ (Walking' <=> Walking)
  BY Zenon, <1>7, <1>8 DEF Marked, Kept, LivePacks, ObjectsIn, Walking
<1>12. \A t \in Slices : Building(t)' => t # s /\ Building(t) /\ slices'[t] = slices[t]
  BY Zenon, <1>5 DEF Building
<1>13. \A t \in Slices : Held(t)' => Held(t)
  BY Zenon, <1>2, <1>5, <1>6 DEF Held
<1>14. \A t \in Slices : InBatch(t)' => t = s \/ (InBatch(t) /\ slices'[t] = slices[t])
  BY Zenon, <1>5 DEF InBatch
<1>15. /\ \A p \in marked : bits[p] \subseteq objects[p] /\ bits[p] \subseteq batch
       /\ \A o \in batch \cap LiveObjects : o \in Kept \/ \E p \in marked : o \in bits[p]
  <2>1. \A o \in DOMAIN at : at[o] \in LivePacks /\ o \in objects[at[o]]
    BY Zenon, <1>3 DEF MarkPop
  <2>2. marked \subseteq Packs /\ LivePacks \subseteq Packs
    BY Zenon, <1>1 DEF ChainType, LivePacks
  <2>3. \A p \in marked : bits[p] \subseteq objects[p] /\ bits[p] \subseteq batch
    BY Zenon, <1>3, <2>1, <2>2
  <2>4. ASSUME NEW o \in batch \cap LiveObjects PROVE o \in Kept \/ \E p \in marked : o \in bits[p]
    <3>1. CASE at[o] \in marked
      BY Zenon, <1>3, <2>1, <2>2, <3>1
    <3>2. CASE at[o] \notin marked
      BY Zenon, <1>3, <2>1, <3>2 DEF Kept, ObjectsIn
    <3> QED
      BY Zenon, <3>1, <3>2
  <2> QED
    BY Zenon, <2>3, <2>4
<1>16. Walking => batch \subseteq LiveObjects
  BY Zenon DEF GcInv, Walk
<1> HIDE DEF bits
<1>17. SlicesInv'
  <2>1. ChainIds'
    BY Zenon, <1>2, <1>5, <1>6, <1>7 DEF GcInv, ChainIds
  <2>2. SliceBuild'
    BY Zenon, <1>7, <1>8, <1>11, <1>12, <1>13 DEF GcInv, SliceBuild
  <2>3. SliceWalk'
    <3> SUFFICES ASSUME NEW t \in Slices, InBatch(t)', slices'[t].chain = gc.chain, gc.phase = "unset"
                 PROVE  /\ \A p \in marked : slices'[t].bits[p] \subseteq objects[p]
                        /\ Walking =>
                              /\ slices'[t].batch \subseteq slices'[t].hits
                              /\ slices'[t].batch \subseteq frontier \cup seen
                              /\ \A p \in marked : slices'[t].bits[p] \subseteq frontier \cup seen
                              /\ \A o \in slices'[t].batch :
                                    o \in Marked \cup Kept \/ \E p \in marked : o \in slices'[t].bits[p]
      BY Zenon, <1>7, <1>8, <1>11 DEF SliceWalk
    <3>1. CASE t = s
      BY Zenon, <1>5, <1>15, <1>16, <3>1
    <3>2. CASE t # s
      BY <1>14, <3>2 DEF GcInv, SliceWalk
    <3> QED
      BY Zenon, <3>1, <3>2
  <2> QED
    BY Zenon, <2>1, <2>2, <2>3 DEF SlicesInv
<1>18. OneBuilder'
  <2>1. \A i \in JobIds, st \in {"queued", "running", "dead"} : IsBuilder(i, st)' <=> IsBuilder(i, st)
    BY Zenon, <1>2 DEF IsBuilder
  <2> QED
    BY Zenon, <1>2, <1>7, <1>12, <1>13, <2>1 DEF GcInv, OneBuilder
<1>19. LiveObjects' = LiveObjects
  BY Zenon, <1>8 DEF LiveObjects, ObjectsIn, LivePacks
<1> QED
  BY Zenon, <1>9, <1>10, <1>17, <1>18, <1>19, GcInvParts DEF Safe, GcInv, ChainInv, SlicesInv

\* What a slice of the current chain writes to the walk's tables: its bits,
\* then part of its batch into seen and links into the frontier.
LEMMA WalkWrites ==
    ASSUME GcInv, NEW s \in Slices, InBatch(s), MarkFence(s),
           UNCHANGED <<storeVars, gc, marked>>, bitmap' = FlushedBits(s),
           frontier' \subseteq Oid, seen' \subseteq Oid,
           frontier \cup seen \subseteq frontier' \cup seen',
           seen' \subseteq seen \cup slices[s].batch,
           frontier' \subseteq frontier \cup KidsOf(s, slices[s].batch),
           Walking => \A o \in seen' : o \in frontier' \/ Links[o] \subseteq frontier' \cup seen'
    PROVE  /\ ChainType'
           /\ ChainInv'
           /\ Marked \subseteq Marked' /\ Kept' = Kept /\ (Walking' <=> Walking)
           /\ \A p \in marked : slices[s].bits[p] \subseteq Marked'
           /\ gc.new_pack = Null
<1>1. slices \in SliceTable /\ ChainType
  BY Zenon, TypeParts DEF GcInv
<1>2. gc.chain = slices[s].chain /\ gc.phase = "unset" /\ gc.mode = "mark" /\ gc.new_pack = Null
  BY Zenon, <1>1 DEF MarkFence, GcInv, ChainShape, ChainType, GcRow
<1>3. UNCHANGED <<refs, refs_version, gc_epoch, packState, packPush, objects, r2>>
  BY Zenon DEF storeVars
<1>4. slices[s].bits \in [Packs -> SUBSET Oid] /\ marked \subseteq Packs
  BY Zenon, <1>1 DEF SliceTable, SliceRow, ChainType
<1>5. /\ bitmap' \in [Packs -> SUBSET Oid]
      /\ \A p \in marked : bitmap'[p] = bitmap[p] \cup slices[s].bits[p]
  BY Zenon, <1>1, <1>4 DEF FlushedBits, OrBits, ChainType
<1>6. ChainType'
  BY Zenon, <1>1, <1>5 DEF ChainType
<1>7. /\ LivePacks' = LivePacks /\ LiveObjects' = LiveObjects /\ Kept' = Kept
      /\ (Walking' <=> Walking) /\ RefTargets' = RefTargets
  BY Zenon, <1>3 DEF LivePacks, LiveObjects, ObjectsIn, Kept, Walking, RefTargets
<1>8. Marked \subseteq Marked' /\ \A p \in marked : slices[s].bits[p] \subseteq Marked'
  BY <1>5 DEF Marked
<1>9. \A o \in Marked' : o \in Marked \/ \E p \in marked : o \in slices[s].bits[p]
  BY <1>5 DEF Marked
<1>10. /\ \A p \in marked : slices[s].bits[p] \subseteq objects[p]
       /\ Walking =>
              /\ slices[s].batch \subseteq slices[s].hits
              /\ slices[s].batch \subseteq frontier \cup seen
              /\ \A p \in marked : slices[s].bits[p] \subseteq frontier \cup seen
              /\ \A o \in slices[s].batch :
                    o \in Marked \cup Kept \/ \E p \in marked : o \in slices[s].bits[p]
  BY Zenon, <1>2 DEF GcInv, SliceWalk
<1>11. ChainShape' /\ Cohort' /\ NewPack'
  BY Zenon, <1>2, <1>3, <1>7 DEF GcInv, ChainShape, Cohort, NewPack
<1>12. Marks' /\ SurvivorsClosed'
  BY Zenon, <1>2, <1>3, <1>5, <1>7, <1>10 DEF GcInv, Marks, SurvivorsClosed
<1>13. Walk'
  <2> SUFFICES ASSUME Walking
               PROVE  /\ frontier' \cup seen' \subseteq LiveObjects
                      /\ RefTargets \subseteq frontier' \cup seen'
                      /\ \A o \in Kept : Links[o] # {} => o \in frontier' \cup seen'
                      /\ \A o \in seen' : o \in frontier' \/ Links[o] \subseteq frontier' \cup seen'
                      /\ seen' \subseteq Marked' \cup Kept
                      /\ Marked' \subseteq frontier' \cup seen'
    BY Zenon, <1>7 DEF Walk
  <2>1. /\ frontier \cup seen \subseteq LiveObjects
        /\ RefTargets \subseteq frontier \cup seen
        /\ \A o \in Kept : Links[o] # {} => o \in frontier \cup seen
        /\ seen \subseteq Marked \cup Kept
        /\ Marked \subseteq frontier \cup seen
    BY Zenon DEF GcInv, Walk
  <2>2. KidsOf(s, slices[s].batch) \subseteq LiveObjects
    <3>1. slices[s].batch \subseteq LiveObjects
      BY Zenon, <1>10, <2>1
    <3>2. LinksOf(LiveObjects) \subseteq LiveObjects
      BY Zenon DEF GcInv, StoreInv, LiveClosed
    <3> QED
      BY Zenon, <3>1, <3>2 DEF KidsOf, LinksOf
  <2>3. frontier' \cup seen' \subseteq LiveObjects
    BY Zenon, <1>10, <2>1, <2>2
  <2>4. seen' \subseteq Marked' \cup Kept
    BY Zenon, <1>8, <1>10, <2>1
  <2>5. Marked' \subseteq frontier' \cup seen'
    BY Zenon, <1>9, <1>10, <2>1
  <2> QED
    BY Zenon, <2>1, <2>3, <2>4, <2>5
<1> QED
  BY Zenon, <1>2, <1>6, <1>7, <1>8, <1>11, <1>12, <1>13 DEF ChainInv

\* The slices after such a write: the writer keeps a part of its batch, whose
\* marks are flushed, or it is gone.
LEMMA WalkSlices ==
    ASSUME GcInv, NEW s \in Slices, InBatch(s), MarkFence(s),
           UNCHANGED <<storeVars, gc, marked, lastChain>>,
           frontier \cup seen \subseteq frontier' \cup seen',
           Marked \subseteq Marked', Kept' = Kept, Walking' <=> Walking,
           \A p \in marked : slices[s].bits[p] \subseteq Marked',
           gc.new_pack = Null,
           \A t \in Slices : t # s => slices'[t] = slices[t],
           \/ slices'[s] = NoSlice
           \/ /\ slices'[s].pc \in {"loop", "read", "rest"}
              /\ slices'[s].job = slices[s].job /\ slices'[s].chain = slices[s].chain
              /\ slices'[s].hits = slices[s].hits /\ slices'[s].batch \subseteq slices[s].batch
              /\ slices'[s].bits = NoBits,
           \A j \in JobIds : jobs'[j].state = "running" => jobs'[j] = jobs[j]
    PROVE  SlicesInv' /\ \A t \in Slices : Building(t)' => Building(t) /\ slices'[t].job = slices[t].job
<1>1. marked \subseteq Packs /\ lastChain \in Nat
  BY Zenon, TypeParts DEF GcInv, ChainType, Counters
<1>2. UNCHANGED <<packState, packPush, objects>>
  BY Zenon DEF storeVars
<1>3. slices[s].pc # "none" /\ ~Building(s) /\ gc.phase = "unset" /\ gc.chain = slices[s].chain
  BY Zenon DEF InBatch, Building, MarkFence
<1>4. \A t \in Slices : Building(t)' => t # s /\ Building(t) /\ slices'[t] = slices[t]
  BY Zenon, NoSliceRow DEF Building
<1>5. ChainIds'
  BY SMTT(20), <1>1, <1>3, NoSliceRow DEF GcInv, ChainIds
<1>6. \A t \in Slices : Building(t)' /\ Held(t)' => Held(t)
  BY <1>4 DEF Held, GcInv, ChainIds, Building
<1>7. SliceBuild'
  <2>1. \A t \in Slices : Building(t) => slices[t].pack # Null
    BY Zenon, NullAssumption DEF GcInv, SliceBuild
  <2> QED
    BY ZenonT(30), <1>2, <1>4, <1>6, <2>1 DEF GcInv, SliceBuild
<1>8. SliceWalk'
  <2> SUFFICES ASSUME NEW t \in Slices, InBatch(t)', slices'[t].chain = gc.chain, gc.phase = "unset"
               PROVE  /\ \A p \in marked : slices'[t].bits[p] \subseteq objects[p]
                      /\ Walking =>
                            /\ slices'[t].batch \subseteq slices'[t].hits
                            /\ slices'[t].batch \subseteq frontier' \cup seen'
                            /\ \A p \in marked : slices'[t].bits[p] \subseteq frontier' \cup seen'
                            /\ \A o \in slices'[t].batch :
                                  o \in Marked' \cup Kept \/ \E p \in marked : o \in slices'[t].bits[p]
    BY Zenon, <1>2 DEF SliceWalk
  <2>1. InBatch(t) /\ slices[t].chain = gc.chain
    BY Zenon, <1>3 DEF InBatch
  <2>2. /\ \A p \in marked : slices[t].bits[p] \subseteq objects[p]
        /\ Walking =>
              /\ slices[t].batch \subseteq slices[t].hits
              /\ slices[t].batch \subseteq frontier \cup seen
              /\ \A p \in marked : slices[t].bits[p] \subseteq frontier \cup seen
              /\ \A o \in slices[t].batch :
                    o \in Marked \cup Kept \/ \E p \in marked : o \in slices[t].bits[p]
    BY Zenon, <2>1 DEF GcInv, SliceWalk
  <2>3. CASE t # s
    BY Zenon, <2>2, <2>3
  <2>4. CASE t = s
    <3>1. /\ slices'[t].hits = slices[t].hits /\ slices'[t].batch \subseteq slices[t].batch
          /\ slices'[t].bits = NoBits
      BY Zenon, <2>4, NoSliceRow DEF InBatch
    <3>2. \A p \in marked : slices'[t].bits[p] = {}
      BY Zenon, <1>1, <3>1 DEF NoBits
    <3> QED
      BY Zenon, <2>2, <2>4, <3>1, <3>2
  <2> QED
    BY Zenon, <2>3, <2>4
<1> QED
  BY Zenon, <1>4, <1>5, <1>7, <1>8 DEF SlicesInv

\* Both together.
LEMMA WalkInv ==
    ASSUME GcInv, NEW s \in Slices, InBatch(s), MarkFence(s), StoreSame, PacksSame,
           UNCHANGED <<gc, marked, resurrected, strikes, lastChain>>, bitmap' = FlushedBits(s),
           frontier' \subseteq Oid, seen' \subseteq Oid, faults' \in Nat,
           frontier \cup seen \subseteq frontier' \cup seen',
           seen' \subseteq seen \cup slices[s].batch,
           frontier' \subseteq frontier \cup KidsOf(s, slices[s].batch),
           Walking => \A o \in seen' : o \in frontier' \/ Links[o] \subseteq frontier' \cup seen',
           slices' \in SliceTable,
           \A t \in Slices : t # s => slices'[t] = slices[t],
           \/ slices'[s] = NoSlice
           \/ /\ slices'[s].pc \in {"loop", "read", "rest"}
              /\ slices'[s].job = slices[s].job /\ slices'[s].chain = slices[s].chain
              /\ slices'[s].hits = slices[s].hits /\ slices'[s].batch \subseteq slices[s].batch
              /\ slices'[s].bits = NoBits,
           jobs' \in JobTable, Tame(jobs')
    PROVE  Safe
<1>1. UNCHANGED storeVars
  BY Zenon, StoreSameVars
<1>2. /\ ChainType' /\ ChainInv'
      /\ Marked \subseteq Marked' /\ Kept' = Kept /\ (Walking' <=> Walking)
      /\ \A p \in marked : slices[s].bits[p] \subseteq Marked'
      /\ gc.new_pack = Null
  BY Zenon, <1>1, WalkWrites
<1>3. \A j \in JobIds : jobs'[j].state = "running" => jobs'[j] = jobs[j]
  BY Zenon DEF Tame, TameRow
<1>4. SlicesInv' /\ \A t \in Slices : Building(t)' => Building(t) /\ slices'[t].job = slices[t].job
  BY Zenon, <1>1, <1>2, <1>3, WalkSlices
<1>5. StoreInv'
  BY Zenon, <1>1, StoreStutter DEF GcInv
<1>6. jobs \in JobTable /\ Counters
  BY Zenon, TypeParts DEF GcInv
<1>7. GcTypeOK'
  BY Zenon, <1>2, <1>5, <1>6, TypePartsNext DEF StoreInv, Counters
<1>8. OneBuilder'
  <2>1. resurrected["gc_consolidate"] <= resurrected'["gc_consolidate"]
    BY <1>6 DEF Counters, GcKinds
  <2> QED
    BY Zenon, <1>4, <1>6, <2>1, TameOneBuilder DEF GcInv, Counters
<1>9. LiveObjects' = LiveObjects
  BY Zenon, <1>1 DEF storeVars, LiveObjects, ObjectsIn, LivePacks
<1> QED
  BY Zenon, <1>2, <1>4, <1>5, <1>7, <1>8, <1>9, GcInvParts DEF Safe, GcInv, ChainInv, SlicesInv

\* Facts of a slice that has popped a batch of the current chain.
LEMMA BatchFacts ==
    ASSUME GcInv, NEW s \in Slices, InBatch(s), MarkFence(s)
    PROVE  /\ slices[s].batch \subseteq Oid /\ slices[s].job \in JobIds
           /\ jobs[slices[s].job].state = "running"
           /\ \A done \in SUBSET slices[s].batch :
                 KidsOf(s, done) \subseteq Oid /\ KidsOf(s, done) \subseteq KidsOf(s, slices[s].batch)
           /\ Walking => /\ slices[s].batch \subseteq frontier \cup seen
                         /\ \A o \in slices[s].batch :
                               \A done \in SUBSET slices[s].batch :
                                  o \in done => Links[o] \subseteq KidsOf(s, done)
                         /\ \A o \in seen : o \in frontier \/ Links[o] \subseteq frontier \cup seen
<1>1. slices[s].batch \subseteq Oid /\ slices[s].hits \subseteq Oid
  BY Zenon, TypeParts DEF GcInv, SliceTable, SliceRow
<1>2. slices[s].job \in JobIds /\ jobs[slices[s].job].state = "running"
      /\ gc.chain = slices[s].chain /\ gc.phase = "unset"
  BY Zenon DEF InBatch, MarkFence, Held, GcInv, ChainIds
<1>3. \A done \in SUBSET slices[s].batch :
          KidsOf(s, done) \subseteq Oid /\ KidsOf(s, done) \subseteq KidsOf(s, slices[s].batch)
  BY Zenon, <1>1, LinksAssumption DEF KidsOf, LinksOf
<1>4. Walking => slices[s].batch \subseteq slices[s].hits /\ slices[s].batch \subseteq frontier \cup seen
  BY Zenon, <1>2 DEF GcInv, SliceWalk
<1>5. Walking => \A o \in slices[s].batch : \A done \in SUBSET slices[s].batch :
                    o \in done => Links[o] \subseteq KidsOf(s, done)
  BY Zenon, <1>4 DEF KidsOf, LinksOf
<1>6. Walking => \A o \in seen : o \in frontier \/ Links[o] \subseteq frontier \cup seen
  BY Zenon DEF GcInv, Walk
<1> QED
  BY Zenon, <1>1, <1>2, <1>3, <1>4, <1>5, <1>6

\* commit_ids of a prefix of the batch keeps the tricolour invariant.
LEMMA MarkCommitInv ==
    \A s \in Slices : \A done \in SUBSET slices[s].batch : GcInv /\ MarkCommit(s, done) => Safe
<1> SUFFICES ASSUME NEW s \in Slices, NEW done \in SUBSET slices[s].batch, GcInv, MarkCommit(s, done)
             PROVE  Safe
  OBVIOUS
<1>1. InBatch(s) /\ MarkFence(s)
  BY Zenon DEF MarkCommit
<1>2. /\ slices[s].batch \subseteq Oid
      /\ KidsOf(s, done) \subseteq Oid /\ KidsOf(s, done) \subseteq KidsOf(s, slices[s].batch)
      /\ Walking => /\ \A o \in done : Links[o] \subseteq KidsOf(s, done)
                    /\ \A o \in seen : o \in frontier \/ Links[o] \subseteq frontier \cup seen
  BY Zenon, <1>1, BatchFacts
<1>3. /\ StoreSame /\ PacksSame /\ UNCHANGED <<gc, marked, resurrected, strikes, lastChain, jobs, faults>>
      /\ bitmap' = FlushedBits(s)
      /\ seen' = seen \cup done
      /\ frontier' = (frontier \cup (KidsOf(s, done) \ seen')) \ done
  BY Zenon DEF MarkCommit
<1>4. jobs \in JobTable /\ slices \in SliceTable /\ ChainType /\ Counters
  BY Zenon, TypeParts DEF GcInv
<1>5. /\ frontier' \subseteq Oid /\ seen' \subseteq Oid
      /\ frontier \cup seen \subseteq frontier' \cup seen'
      /\ seen' \subseteq seen \cup slices[s].batch
      /\ frontier' \subseteq frontier \cup KidsOf(s, slices[s].batch)
  BY Zenon, <1>2, <1>3, <1>4 DEF ChainType
<1>6. Walking => \A o \in seen' : o \in frontier' \/ Links[o] \subseteq frontier' \cup seen'
  BY Zenon, <1>2, <1>3, <1>5
<1>7. /\ slices' \in SliceTable
      /\ \A t \in Slices : t # s => slices'[t] = slices[t]
      /\ slices'[s].pc \in {"loop", "read", "rest"}
      /\ slices'[s].job = slices[s].job /\ slices'[s].chain = slices[s].chain
      /\ slices'[s].hits = slices[s].hits /\ slices'[s].batch \subseteq slices[s].batch
      /\ slices'[s].bits = NoBits
  <2>1. slices' = [slices EXCEPT ![s].batch = @ \ done, ![s].bits = NoBits,
                      ![s].pc = IF slices[s].batch = done THEN "loop" ELSE "rest"]
    BY Zenon DEF MarkCommit
  <2>2. slices[s] \in SliceRow /\ NoBits \in [Packs -> SUBSET Oid]
    BY Zenon, <1>4 DEF SliceTable, NoBits
  <2>3. slices' \in SliceTable
    BY Zenon, <1>4, <2>1, <2>2 DEF SliceTable, SliceRow
  <2> QED
    BY Zenon, <1>4, <2>1, <2>2, <2>3 DEF SliceTable, SliceRow
<1>8. jobs' \in JobTable /\ Tame(jobs') /\ faults' \in Nat
  BY Zenon, <1>3, <1>4 DEF Tame, TameRow, JobTable, Row, Counters
<1> QED
  BY Zenon, <1>1, <1>3, <1>5, <1>6, <1>7, <1>8, WalkInv

\* The early flush of links to the frontier keeps the tricolour invariant.
LEMMA MarkFlushKidsInv ==
    \A s \in Slices : \A kids \in SUBSET KidsOf(s, slices[s].batch) :
        GcInv /\ MarkFlushKids(s, kids) => Safe
<1> SUFFICES ASSUME NEW s \in Slices, NEW kids \in SUBSET KidsOf(s, slices[s].batch),
                    GcInv, MarkFlushKids(s, kids)
             PROVE  Safe
  OBVIOUS
<1>1. InBatch(s) /\ MarkFence(s)
  BY Zenon DEF MarkFlushKids
<1>2. /\ KidsOf(s, slices[s].batch) \subseteq Oid
      /\ Walking => \A o \in seen : o \in frontier \/ Links[o] \subseteq frontier \cup seen
  BY Zenon, <1>1, BatchFacts
<1>3. /\ StoreSame /\ PacksSame
      /\ UNCHANGED <<gc, marked, resurrected, strikes, lastChain, jobs, faults, seen>>
      /\ bitmap' = FlushedBits(s) /\ frontier' = frontier \cup (kids \ seen)
  BY Zenon DEF MarkFlushKids
<1>4. jobs \in JobTable /\ slices \in SliceTable /\ ChainType /\ Counters
  BY Zenon, TypeParts DEF GcInv
<1>5. /\ frontier' \subseteq Oid /\ seen' \subseteq Oid
      /\ frontier \cup seen \subseteq frontier' \cup seen'
      /\ seen' \subseteq seen \cup slices[s].batch
      /\ frontier' \subseteq frontier \cup KidsOf(s, slices[s].batch)
  BY Zenon, <1>2, <1>3, <1>4 DEF ChainType
<1>6. Walking => \A o \in seen' : o \in frontier' \/ Links[o] \subseteq frontier' \cup seen'
  BY Zenon, <1>2, <1>3
<1>7. /\ slices' \in SliceTable
      /\ \A t \in Slices : t # s => slices'[t] = slices[t]
      /\ slices'[s].pc \in {"loop", "read", "rest"}
      /\ slices'[s].job = slices[s].job /\ slices'[s].chain = slices[s].chain
      /\ slices'[s].hits = slices[s].hits /\ slices'[s].batch \subseteq slices[s].batch
      /\ slices'[s].bits = NoBits
  <2>1. slices' = [slices EXCEPT ![s].bits = NoBits]
    BY Zenon DEF MarkFlushKids
  <2>2. slices[s] \in SliceRow /\ NoBits \in [Packs -> SUBSET Oid]
    BY Zenon, <1>4 DEF SliceTable, NoBits
  <2>3. slices' \in SliceTable
    BY Zenon, <1>4, <2>1, <2>2 DEF SliceTable, SliceRow
  <2> QED
    BY Zenon, <1>1, <1>4, <2>1, <2>2, <2>3 DEF SliceTable, SliceRow, InBatch
<1>8. jobs' \in JobTable /\ Tame(jobs') /\ faults' \in Nat
  BY Zenon, <1>3, <1>4 DEF Tame, TameRow, JobTable, Row, Counters
<1> QED
  BY Zenon, <1>1, <1>3, <1>5, <1>6, <1>7, <1>8, WalkInv

\* A commit that fails half-way: what it wrote keeps the walk's invariant, so
\* the retry may start from it.
LEMMA MarkCommitErrInv ==
    \A s \in Slices, upto \in 1..3 : \A done \in SUBSET slices[s].batch :
        GcInv /\ MarkCommitErr(s, done, upto) => Safe
<1> SUFFICES ASSUME NEW s \in Slices, NEW upto \in 1..3, NEW done \in SUBSET slices[s].batch,
                    GcInv, MarkCommitErr(s, done, upto)
             PROVE  Safe
  OBVIOUS
<1>1. InBatch(s) /\ MarkFence(s)
  BY Zenon DEF MarkCommitErr
<1>2. /\ slices[s].batch \subseteq Oid /\ slices[s].job \in JobIds
      /\ jobs[slices[s].job].state = "running"
      /\ KidsOf(s, done) \subseteq Oid /\ KidsOf(s, done) \subseteq KidsOf(s, slices[s].batch)
      /\ Walking => /\ slices[s].batch \subseteq frontier \cup seen
                    /\ \A o \in done : Links[o] \subseteq KidsOf(s, done)
                    /\ \A o \in seen : o \in frontier \/ Links[o] \subseteq frontier \cup seen
  BY Zenon, <1>1, BatchFacts
<1>3. /\ StoreSame /\ PacksSame /\ UNCHANGED <<gc, marked, resurrected, strikes, lastChain>>
      /\ bitmap' = FlushedBits(s)
      /\ slices' = [slices EXCEPT ![s] = NoSlice]
      /\ jobs' \in LandErr(jobs, slices[s].job)
  BY Zenon DEF MarkCommitErr
<1>4. \/ seen' = seen /\ frontier' = frontier
      \/ seen' = seen \cup done /\ frontier' = frontier
      \/ seen' = seen \cup done /\ frontier' = frontier \cup (KidsOf(s, done) \ seen')
  BY DEF MarkCommitErr
<1>5. jobs \in JobTable /\ slices \in SliceTable /\ ChainType /\ Counters
  BY Zenon, TypeParts DEF GcInv
<1>6. /\ frontier' \subseteq Oid /\ seen' \subseteq Oid
      /\ frontier \cup seen \subseteq frontier' \cup seen'
      /\ seen' \subseteq seen \cup slices[s].batch
      /\ frontier' \subseteq frontier \cup KidsOf(s, slices[s].batch)
  BY Zenon, <1>2, <1>4, <1>5 DEF ChainType
<1>7. Walking => \A o \in seen' : o \in frontier' \/ Links[o] \subseteq frontier' \cup seen'
  BY Zenon, <1>2, <1>4, <1>6
<1>8. slices' \in SliceTable /\ slices'[s] = NoSlice /\ \A t \in Slices : t # s => slices'[t] = slices[t]
  BY Zenon, <1>3, <1>5, NoSliceRow DEF SliceTable
<1>9. jobs' \in JobTable /\ Tame(jobs')
  BY Zenon, <1>2, <1>3, <1>5, TameLandErr
<1>10. faults' \in Nat
  BY <1>5 DEF MarkCommitErr, Counters
<1> QED
  BY Zenon, <1>1, <1>3, <1>6, <1>7, <1>8, <1>9, <1>10, WalkInv

\* The frontier is empty: everything a ref or a kept object needs is seen, and
\* so marked or kept.
LEMMA WalkDone ==
    ASSUME GcInv, Walking, frontier = {}
    PROVE  RefTargets \cup LinksOf(Marked \cup Kept) \subseteq Marked \cup Kept
<1>1. /\ RefTargets \subseteq seen
      /\ \A o \in Kept : Links[o] # {} => o \in seen
      /\ \A o \in seen : Links[o] \subseteq seen
      /\ seen \subseteq Marked \cup Kept
      /\ Marked \subseteq seen
  BY Zenon DEF GcInv, Walk
<1>2. \A o \in Marked \cup Kept : Links[o] \subseteq Marked \cup Kept
  BY Zenon, <1>1
<1> QED
  BY Zenon, <1>1, <1>2 DEF LinksOf

\* The end of the walk queues the builder: the frontier is empty, so the survivors are
\* closed.
LEMMA MarkHandoffInv == \A s \in Slices : GcInv /\ MarkHandoff(s) => Safe
<1> SUFFICES ASSUME NEW s \in Slices, GcInv, MarkHandoff(s) PROVE Safe
  OBVIOUS
<1> DEFINE j == slices[s].job
           js == Enqueue(jobs, "gc_consolidate", gc.chain)
<1>1. jobs \in JobTable /\ slices \in SliceTable /\ ChainType /\ Counters
  BY Zenon, TypeParts DEF GcInv
<1>2. /\ slices[s].pc # "none" /\ j \in JobIds /\ jobs[j].state = "running"
      /\ gc.chain = slices[s].chain /\ gc.chain # 0 /\ gc.phase = "unset" /\ gc.mode = "mark"
      /\ gc.new_pack = Null /\ gc.chain \in Nat
  BY Zenon, <1>1 DEF MarkHandoff, AtLoop, MarkFence, Held, GcInv, ChainIds, ChainShape, ChainType, GcRow
<1>3. Walking /\ frontier = {}
  BY Zenon, <1>2 DEF MarkHandoff, Walked, Walking
<1>4. UNCHANGED <<storeVars, marked, bitmap, frontier, resurrected, strikes, lastChain, faults>>
  BY Zenon, StoreSameVars DEF MarkHandoff
<1>5. /\ gc' \in GcRow /\ gc'.chain = gc.chain /\ gc'.mode = "mark" /\ gc'.phase = "build"
      /\ gc'.refs_version = gc.refs_version /\ gc'.new_pack = Null
  BY Zenon, <1>1, <1>2 DEF MarkHandoff, ChainType, GcRow
<1>6. UNCHANGED <<refs, refs_version, gc_epoch, packState, packPush, objects, r2>>
  BY Zenon, <1>4 DEF storeVars
<1>7. /\ LivePacks' = LivePacks /\ LiveObjects' = LiveObjects /\ RefTargets' = RefTargets
      /\ Marked' = Marked /\ ~Walking' /\ ObjectsIn(marked)' = ObjectsIn(marked)
  BY Zenon, <1>4, <1>5, <1>6 DEF LivePacks, LiveObjects, ObjectsIn, RefTargets, Marked, Walking
<1>8. StoreInv'
  BY Zenon, <1>4, StoreStutter DEF GcInv
<1>9. ChainType' /\ Counters'
  BY Zenon, <1>1, <1>4, <1>5 DEF MarkHandoff, ChainType, Counters
<1>10. slices' \in SliceTable /\ \A t \in Slices : slices'[t] \in {slices[t], NoSlice}
  BY Zenon, <1>1, SliceDropped DEF MarkHandoff
<1>11. /\ jobs' \in JobTable /\ jobs'[j] = NoRow
       /\ \A i \in JobIds : i # j => jobs'[i] = js[i]
       /\ js \in JobTable
  <2>1. js \in JobTable
    BY Zenon, <1>1, <1>2, EnqueueRows DEF GcKinds
  <2>2. jobs' = Delete(js, j)
    BY Zenon DEF MarkHandoff, HandoffJobs
  <2> QED
    BY Zenon, <1>2, <2>1, <2>2, DeleteRows
<1>12. \A i \in JobIds : js[i] = jobs[i] \/
          (~HasQueued(jobs, "gc_consolidate") /\ i = FreeRow(jobs) /\ js[i].state = "queued")
  BY Zenon, <1>1 DEF Enqueue, JobTable
<1> HIDE DEF js
<1>13. \A i \in JobIds : jobs'[i].state = "running" => jobs'[i] = jobs[i]
  BY <1>11, <1>12 DEF NoRow
<1>14. ChainInv'
  <2>1. ChainShape' /\ Cohort' /\ NewPack' /\ Marks' /\ Walk'
    BY Zenon, <1>2, <1>4, <1>5, <1>6, <1>7 DEF GcInv, ChainShape, Cohort, NewPack, Marks, Walk
  <2>2. Keepers' = LivePacks \ marked
    BY Zenon, <1>4, <1>5, <1>7, NullAssumption DEF Keepers, LivePacks
  <2>3. ObjectsIn(Keepers)' = Kept
    BY Zenon, <1>6, <2>2 DEF ObjectsIn, Kept
  <2>4. RefTargets \cup LinksOf(Marked \cup Kept) \subseteq Marked \cup Kept
    BY Zenon, <1>3, WalkDone
  <2>5. SurvivorsClosed'
    BY Zenon, <1>7, <2>3, <2>4 DEF SurvivorsClosed, LinksOf
  <2> QED
    BY Zenon, <2>1, <2>5 DEF ChainInv
<1>15. \A t \in Slices : slices'[t].pc # "none" => slices'[t] = slices[t]
  BY Zenon, <1>10, NoSliceRow
<1>16. \A t \in Slices : Building(t)' => Building(t) /\ slices'[t] = slices[t] /\ (Held(t)' => Held(t))
  BY Zenon, <1>13, <1>15 DEF Building, Held, GcInv, ChainIds
<1>17. SlicesInv'
  <2>1. ChainIds'
    BY <1>1, <1>4, <1>5, <1>10, NoSliceRow DEF GcInv, ChainIds, Counters
  <2>2. SliceWalk'
    BY Zenon, <1>5 DEF SliceWalk
  <2>3. SliceBuild'
    BY Zenon, <1>2, <1>5, <1>6, <1>16, NullAssumption DEF GcInv, SliceBuild
  <2> QED
    BY Zenon, <2>1, <2>2, <2>3 DEF SlicesInv
<1>18. OneBuilder'
  <2>1. \A t \in Slices : Building(t)' /\ Held(t)' => jobs'[slices'[t].job].kind = "gc_consolidate"
    <3> SUFFICES ASSUME NEW t \in Slices, Building(t)', Held(t)'
                 PROVE  jobs'[slices'[t].job].kind = "gc_consolidate"
      OBVIOUS
    <3>1. Building(t) /\ Held(t) /\ slices'[t] = slices[t] /\ slices[t].job \in JobIds
      BY Zenon, <1>16 DEF GcInv, ChainIds, Building
    <3>2. jobs'[slices[t].job] = jobs[slices[t].job]
      BY Zenon, <1>13, <3>1 DEF Held
    <3> QED
      BY Zenon, <3>1, <3>2 DEF GcInv, OneBuilder
  <2>2. \A i \in JobIds : ~IsBuilder(i, "running")
    BY Zenon, <1>2 DEF GcInv, OneBuilder
  <2>3. \A i \in JobIds : ~IsBuilder(i, "running")'
    BY Zenon, <1>13, <2>2 DEF IsBuilder
  <2>4. \A i, k \in JobIds : IsBuilder(i, "queued") /\ IsBuilder(k, "queued") => i = k
    BY Zenon, <1>2 DEF GcInv, OneBuilder
  <2>5. \A i, k \in JobIds : IsBuilder(i, "queued")' /\ IsBuilder(k, "queued")' => i = k
    <3>1. \A i \in JobIds : IsBuilder(i, "queued")' =>
             IsBuilder(i, "queued") \/ (~HasQueued(jobs, "gc_consolidate") /\ i = FreeRow(jobs))
      BY <1>11, <1>12 DEF IsBuilder, NoRow
    <3>2. \A i \in JobIds : IsBuilder(i, "queued") => HasQueued(jobs, "gc_consolidate")
      BY Zenon DEF IsBuilder, HasQueued
    <3> QED
      BY Zenon, <2>4, <3>1, <3>2
  <2> QED
    BY Zenon, <1>5, <2>1, <2>3, <2>5 DEF OneBuilder
<1>19. GcTypeOK'
  BY Zenon, <1>8, <1>9, <1>10, <1>11, TypePartsNext DEF StoreInv
<1> QED
  BY Zenon, <1>7, <1>8, <1>14, <1>17, <1>18, <1>19, GcInvParts DEF Safe, GcInv, ChainInv, SlicesInv

-----------------------------------------------------------------------------
(* repair. *)

\* The rows after repair: running rows only end, the dead rows of a revived
\* kind are gone, and at most one queued row takes their place.
LEMMA RepairRows ==
    ASSUME jobs \in JobTable, NEW lost \in SUBSET JobIds, NEW spent \in SUBSET lost,
           lost \subseteq {j \in JobIds : jobs[j].state = "running"},
           jobs' = Resurrect(Requeued(lost, spent))
    PROVE  LET js == Requeued(lost, spent) IN
           /\ js \in JobTable
           /\ jobs' \in JobTable
           /\ \A i \in JobIds :
                 /\ js[i].kind = jobs[i].kind
                 /\ js[i].state = "running" => js[i] = jobs[i]
                 /\ js[i].state # jobs[i].state =>
                       jobs[i].state = "running" /\ js[i].state \in {"queued", "dead"}
           /\ \A i \in JobIds :
                 \/ jobs'[i] = js[i] /\ ~(js[i].kind \in Revived(js) /\ js[i].state = "dead")
                 \/ jobs'[i] = NoRow
                 \/ /\ js[i].kind \in Revived(js) /\ js[i].state = "dead"
                    /\ ~HasQueued(js, js[i].kind)
                    /\ i = (CHOOSE k \in DeadOf(js, js[i].kind) : TRUE)
                    /\ jobs'[i].kind = js[i].kind /\ jobs'[i].state = "queued"
<1> DEFINE js == Requeued(lost, spent)
<1>1. \A i \in JobIds : /\ i \in spent => js[i] = Release(jobs, i, "dead")[i]
                        /\ i \in lost \ spent => js[i] = Release(jobs, i, "queued")[i]
                        /\ i \notin lost => js[i] = jobs[i]
  BY Zenon DEF Requeued
<1>0. jobs' = Resurrect(js) /\ js = [i \in JobIds |-> js[i]]
  BY Zenon DEF Requeued
<1> HIDE DEF js
<1>2. \A i \in JobIds, st \in {"queued", "dead"} :
         /\ Release(jobs, i, st)[i] \in Row
         /\ Release(jobs, i, st)[i].kind = jobs[i].kind
         /\ Release(jobs, i, st)[i].state = st
  BY ReleaseRows DEF JobTable
<1>3. \A i \in JobIds :
         /\ js[i] \in Row
         /\ js[i].kind = jobs[i].kind
         /\ js[i].state = "running" => js[i] = jobs[i]
         /\ js[i].state # jobs[i].state =>
               jobs[i].state = "running" /\ js[i].state \in {"queued", "dead"}
  <2> SUFFICES ASSUME NEW i \in JobIds
               PROVE  /\ js[i] \in Row
                      /\ js[i].kind = jobs[i].kind
                      /\ js[i].state = "running" => js[i] = jobs[i]
                      /\ js[i].state # jobs[i].state =>
                            jobs[i].state = "running" /\ js[i].state \in {"queued", "dead"}
    OBVIOUS
  <2>1. CASE i \in spent
    BY Zenon, <1>1, <1>2, <2>1
  <2>2. CASE i \in lost \ spent
    BY Zenon, <1>1, <1>2, <2>2
  <2>3. CASE i \notin lost
    BY Zenon, <1>1, <2>3 DEF JobTable
  <2> QED
    BY Zenon, <2>1, <2>2, <2>3
<1>4. js \in JobTable
  BY Zenon, <1>0, <1>3 DEF JobTable
<1>5. ASSUME NEW i \in JobIds
      PROVE  /\ jobs'[i] \in Row
             /\ \/ jobs'[i] = js[i] /\ ~(js[i].kind \in Revived(js) /\ js[i].state = "dead")
                \/ jobs'[i] = NoRow
                \/ /\ js[i].kind \in Revived(js) /\ js[i].state = "dead"
                   /\ ~HasQueued(js, js[i].kind)
                   /\ i = (CHOOSE k \in DeadOf(js, js[i].kind) : TRUE)
                   /\ jobs'[i].kind = js[i].kind /\ jobs'[i].state = "queued"
  <2>1. CASE ~(js[i].kind \in Revived(js) /\ js[i].state = "dead")
    BY Zenon, <1>0, <1>3, <2>1 DEF Resurrect
  <2>2. CASE js[i].kind \in Revived(js) /\ js[i].state = "dead"
    <3>1. js[i].kind \in GcKinds
      BY Zenon, <2>2 DEF Revived
    <3>2. CASE ~HasQueued(js, js[i].kind) /\ i = (CHOOSE k \in DeadOf(js, js[i].kind) : TRUE)
      <4>1. jobs'[i] = [kind |-> js[i].kind, chain |-> 0, state |-> "queued", lease |-> Null]
        BY Zenon, <1>0, <2>2, <3>2 DEF Resurrect
      <4> QED
        BY <2>2, <3>1, <3>2, <4>1 DEF Row
    <3>3. CASE ~(~HasQueued(js, js[i].kind) /\ i = (CHOOSE k \in DeadOf(js, js[i].kind) : TRUE))
      BY Zenon, <1>0, <2>2, <3>3, RowFacts DEF Resurrect
    <3> QED
      BY Zenon, <3>2, <3>3
  <2> QED
    BY Zenon, <2>1, <2>2
<1>6. jobs' \in JobTable
  BY Zenon, <1>0, <1>5 DEF JobTable, Resurrect
<1> QED
  BY Zenon, <1>3, <1>4, <1>5, <1>6 DEF js

\* repair revives no second builder for a mark chain: dead rows of a kind are replaced by
\* one queued row, and only while the kind has been revived less than MaxResurrect times.
LEMMA RepairBuilders ==
    ASSUME GcInv, NEW lost \in SUBSET JobIds, NEW spent \in SUBSET lost, Repair(lost, spent),
           gc.chain # 0, gc.mode = "mark", gc.phase # "sweep"
    PROVE  /\ \A i, j \in JobIds : /\ IsBuilder(i, "queued")' \/ IsBuilder(i, "running")'
                                   /\ IsBuilder(j, "queued")' \/ IsBuilder(j, "running")'
                                   => i = j
           /\ gc.phase = "unset" => ~\E j \in JobIds : IsBuilder(j, "running")'
           /\ (\E i, j \in JobIds : IsBuilder(i, "running")' /\ IsBuilder(j, "dead")') =>
                 resurrected["gc_consolidate"] >= MaxResurrect
<1> DEFINE js == Requeued(lost, spent)
           Active(i) == IsBuilder(i, "queued") \/ IsBuilder(i, "running")
<1>1. jobs \in JobTable /\ resurrected["gc_consolidate"] \in Nat /\ MaxResurrect \in Nat
  BY Zenon, TypeParts, GcAssumption DEF GcInv, Counters, GcKinds
<1>2. jobs' = Resurrect(js) /\ lost \subseteq {j \in JobIds : jobs[j].state = "running"}
  BY Zenon DEF Repair
<1> HIDE DEF js
<1>3. /\ \A i \in JobIds :
            /\ js[i].kind = jobs[i].kind
            /\ js[i].state = "running" => js[i] = jobs[i]
            /\ js[i].state # jobs[i].state =>
                  jobs[i].state = "running" /\ js[i].state \in {"queued", "dead"}
      /\ \A i \in JobIds :
            \/ jobs'[i] = js[i] /\ ~(js[i].kind \in Revived(js) /\ js[i].state = "dead")
            \/ jobs'[i] = NoRow
            \/ /\ js[i].kind \in Revived(js) /\ js[i].state = "dead"
               /\ ~HasQueued(js, js[i].kind)
               /\ i = (CHOOSE k \in DeadOf(js, js[i].kind) : TRUE)
               /\ jobs'[i].kind = js[i].kind /\ jobs'[i].state = "queued"
  BY ZenonT(40), <1>1, <1>2, RepairRows DEF js
<1>4. /\ \A i, j \in JobIds : Active(i) /\ Active(j) => i = j
      /\ gc.phase = "unset" => ~\E j \in JobIds : IsBuilder(j, "running")
      /\ \A i, j \in JobIds : IsBuilder(i, "running") /\ IsBuilder(j, "dead") =>
            resurrected["gc_consolidate"] >= MaxResurrect
  BY Zenon DEF GcInv, OneBuilder
<1>5. NoRow.kind = "none" /\ NoRow.state = "none"
  BY Zenon DEF NoRow
<1>6. \A i \in JobIds : IsBuilder(i, "running")' => IsBuilder(i, "running")
  BY Zenon, <1>3, <1>5 DEF IsBuilder
<1>7. CASE "gc_consolidate" \notin Revived(js)
  <2>1. \A i \in JobIds : /\ IsBuilder(i, "queued")' => Active(i)
                          /\ IsBuilder(i, "dead")' => Active(i) \/ IsBuilder(i, "dead")
    BY Zenon, <1>3, <1>5, <1>7 DEF IsBuilder
  <2>2. \A i \in JobIds : IsBuilder(i, "running")' /\ IsBuilder(i, "dead")' => FALSE
    BY Zenon DEF IsBuilder
  <2> QED
    BY Zenon, <1>4, <1>6, <2>1, <2>2
<1>8. CASE "gc_consolidate" \in Revived(js)
  <2>1. resurrected["gc_consolidate"] < MaxResurrect
    <3>1. Counter("gc_consolidate") = "gc_consolidate"
      BY Zenon DEF Counter
    <3> QED
      BY Zenon, <1>8, <3>1 DEF Revived
  <2>2. \A i \in JobIds : ~IsBuilder(i, "dead")'
    BY Zenon, <1>3, <1>5, <1>8 DEF IsBuilder
  <2>3. \A i, j \in JobIds : ~(IsBuilder(i, "running") /\ IsBuilder(j, "dead"))
    BY <1>1, <1>4, <2>1
  <2>4. \A i \in JobIds : IsBuilder(i, "queued")' =>
           \/ Active(i) /\ js[i].state = "queued" /\ js[i].kind = "gc_consolidate"
           \/ /\ js[i].state = "dead" /\ js[i].kind = "gc_consolidate"
              /\ ~HasQueued(js, "gc_consolidate")
              /\ i = (CHOOSE k \in DeadOf(js, "gc_consolidate") : TRUE)
    BY <1>3, <1>5 DEF IsBuilder
  <2>5. \A i \in JobIds : js[i].state = "queued" /\ js[i].kind = "gc_consolidate" =>
           HasQueued(js, "gc_consolidate")
    BY Zenon DEF HasQueued
  <2>6. \A i \in JobIds : js[i].state = "dead" /\ js[i].kind = "gc_consolidate" =>
           IsBuilder(i, "dead") \/ IsBuilder(i, "running")
    BY Zenon, <1>3 DEF IsBuilder
  <2>7. \A i \in JobIds : IsBuilder(i, "running")' => js[i].state = "running"
    BY Zenon, <1>3, <1>5 DEF IsBuilder
  <2>8. \A i, j \in JobIds : IsBuilder(i, "queued")' /\ IsBuilder(j, "queued")' => i = j
    BY Zenon, <1>4, <2>4, <2>5
  <2>9. \A i, j \in JobIds : IsBuilder(i, "running")' /\ IsBuilder(j, "queued")' => i = j
    <3> SUFFICES ASSUME NEW i \in JobIds, NEW j \in JobIds,
                        IsBuilder(i, "running")', IsBuilder(j, "queued")'
                 PROVE  i = j
      OBVIOUS
    <3>1. IsBuilder(i, "running") /\ js[i].state = "running"
      BY Zenon, <1>6, <2>7
    <3>2. CASE Active(j)
      BY Zenon, <1>4, <3>1, <3>2
    <3>3. CASE js[j].state = "dead" /\ js[j].kind = "gc_consolidate"
      <4>1. IsBuilder(j, "running")
        BY Zenon, <2>3, <2>6, <3>1, <3>3
      <4> QED
        BY Zenon, <1>4, <3>1, <4>1
    <3> QED
      BY Zenon, <2>4, <3>2, <3>3
  <2>10. \A i, j \in JobIds : IsBuilder(i, "running")' /\ IsBuilder(j, "running")' => i = j
    BY Zenon, <1>4, <1>6
  <2> QED
    BY Zenon, <1>4, <1>6, <2>2, <2>8, <2>9, <2>10
<1> QED
  BY Zenon, <1>7, <1>8

=============================================================================
