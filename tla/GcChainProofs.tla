--------------------------- MODULE GcChainProofs ----------------------------
(***************************************************************************)
(* The invariant through repair, compaction and the store's own steps, and *)
(* the theorems: for every repository, any number of pushes, packs, chains *)
(* and faults, the collector, its aborts and retries never lose an object  *)
(* that a ref or a live object needs, and leave nothing that nobody        *)
(* finishes.                                                               *)
(***************************************************************************)
EXTENDS GcMarkProofs, GcOwnerProofs, FiniteSetTheorems, WellFoundedInduction

-----------------------------------------------------------------------------
(* repair. *)

\* Numbers of kinds and of rows are natural numbers.
LEMMA SomeCardinality ==
    /\ \A S \in SUBSET GcKinds : Cardinality(S) \in Nat
    /\ \A S \in SUBSET JobIds : Cardinality(S) \in Nat
<1>1. IsFiniteSet(GcKinds)
  <2>1. IsFiniteSet({"gc_mark"}) /\ IsFiniteSet({"gc_consolidate"}) /\ IsFiniteSet({"gc_sweep"})
        /\ IsFiniteSet({"gc_compact"})
    BY Zenon, FS_Singleton
  <2>2. IsFiniteSet({"gc_mark"} \cup {"gc_consolidate"}) /\ IsFiniteSet({"gc_sweep"} \cup {"gc_compact"})
    BY Zenon, <2>1, FS_Union
  <2>3. IsFiniteSet(({"gc_mark"} \cup {"gc_consolidate"}) \cup ({"gc_sweep"} \cup {"gc_compact"}))
    BY Zenon, <2>2, FS_Union
  <2>4. GcKinds = ({"gc_mark"} \cup {"gc_consolidate"}) \cup ({"gc_sweep"} \cup {"gc_compact"})
    BY Zenon DEF GcKinds
  <2> QED
    BY Zenon, <2>3, <2>4
<1>2. IsFiniteSet(JobIds)
  BY Zenon, GcAssumption
<1> QED
  BY Zenon, <1>1, <1>2, FS_Subset, FS_CardinalityType

\* repair keeps the invariant, whichever of the running rows it takes for lost.
LEMMA RepairInv ==
    \A lost \in SUBSET JobIds : \A spent \in SUBSET lost : GcInv /\ Repair(lost, spent) => Safe
<1> SUFFICES ASSUME NEW lost \in SUBSET JobIds, NEW spent \in SUBSET lost,
                    GcInv, Repair(lost, spent)
             PROVE  Safe
  OBVIOUS
<1> DEFINE js == Requeued(lost, spent)
<1>1. jobs \in JobTable /\ slices \in SliceTable /\ ChainType /\ Counters
  BY Zenon, TypeParts DEF GcInv
<1>2. /\ jobs' = Resurrect(js) /\ lost \subseteq {j \in JobIds : jobs[j].state = "running"}
      /\ UNCHANGED <<storeVars, chainVars, strikes, slices, lastChain>>
  BY Zenon, StoreSameVars DEF Repair
<1>3. UNCHANGED <<gc, marked, bitmap, frontier, seen>>
  BY Zenon, <1>2 DEF chainVars
<1>4. /\ jobs' \in JobTable
      /\ \A i \in JobIds : jobs'[i].state = "running" => jobs'[i] = jobs[i]
  <2>1. /\ jobs' \in JobTable
        /\ \A i \in JobIds : js[i].state = "running" => js[i] = jobs[i]
        /\ \A i \in JobIds :
              \/ jobs'[i] = js[i] /\ ~(js[i].kind \in Revived(js) /\ js[i].state = "dead")
              \/ jobs'[i] = NoRow
              \/ /\ js[i].kind \in Revived(js) /\ js[i].state = "dead"
                 /\ ~HasQueued(js, js[i].kind)
                 /\ i = (CHOOSE k \in DeadOf(js, js[i].kind) : TRUE)
                 /\ jobs'[i].kind = js[i].kind /\ jobs'[i].state = "queued"
    BY Zenon, <1>1, <1>2, RepairRows
  <2> HIDE DEF js
  <2>2. NoRow.state = "none"
    BY Zenon DEF NoRow
  <2> QED
    BY Zenon, <2>1, <2>2
<1>5. /\ faults' \in Nat
      /\ resurrected' \in [GcKinds -> Nat]
  <2>1. {j \in lost : \E s \in Slices : slices[s].job = j /\ Held(s)} \in SUBSET JobIds
    OBVIOUS
  <2>2. faults' \in Nat
    BY <1>1, <2>1, SomeCardinality DEF Repair, Counters
  <2>3. \A k \in GcKinds : {r \in Revived(js) : Counter(r) = k} \in SUBSET GcKinds
    BY Zenon DEF Revived
  <2>4. resurrected' = [k \in GcKinds |->
                          resurrected[k] + Cardinality({r \in Revived(js) : Counter(r) = k})]
    BY Zenon DEF Repair
  <2> HIDE DEF js
  <2>5. resurrected' \in [GcKinds -> Nat]
    BY SMTT(20), <1>1, <2>3, <2>4, SomeCardinality DEF Counters
  <2> QED
    BY Zenon, <2>2, <2>5
<1>6. resurrected'["gc_consolidate"] >= resurrected["gc_consolidate"]
  <2>1. {r \in Revived(js) : Counter(r) = "gc_consolidate"} \in SUBSET GcKinds
    BY Zenon DEF Revived
  <2>2. resurrected'["gc_consolidate"] = resurrected["gc_consolidate"] +
           Cardinality({r \in Revived(js) : Counter(r) = "gc_consolidate"})
    BY Zenon DEF Repair, GcKinds
  <2> HIDE DEF js
  <2> QED
    BY SMTT(20), <1>1, <2>1, <2>2, SomeCardinality DEF Counters, GcKinds
<1>7. StoreInv' /\ ChainInv' /\ SlicesInv'
  BY Zenon, <1>1, <1>2, <1>4, StoreStutter, ChainQuiet, SlicesQuiet, GcInvParts DEF Counters
<1>8. GcTypeOK'
  BY Zenon, <1>1, <1>2, <1>3, <1>4, <1>5, <1>7, TypePartsNext DEF StoreInv, ChainType, Counters
<1>9. OneBuilder'
  <2>1. \A s \in Slices : Building(s)' /\ Held(s)' => jobs'[slices'[s].job].kind = "gc_consolidate"
    <3> SUFFICES ASSUME NEW s \in Slices, Building(s)', Held(s)'
                 PROVE  jobs'[slices'[s].job].kind = "gc_consolidate"
      OBVIOUS
    <3>1. Building(s) /\ slices[s].job \in JobIds
      BY Zenon, <1>2 DEF Building, GcInv, ChainIds
    <3>2. jobs'[slices[s].job] = jobs[slices[s].job]
      BY Zenon, <1>2, <1>4, <3>1 DEF Held
    <3>3. Held(s)
      BY Zenon, <1>2, <3>2 DEF Held
    <3> QED
      BY Zenon, <1>2, <3>1, <3>2, <3>3 DEF GcInv, OneBuilder
  <2>2. gc.chain # 0 /\ gc.mode = "mark" /\ gc.phase # "sweep" =>
          /\ \A i, j \in JobIds : /\ IsBuilder(i, "queued")' \/ IsBuilder(i, "running")'
                                  /\ IsBuilder(j, "queued")' \/ IsBuilder(j, "running")'
                                  => i = j
          /\ gc.phase = "unset" => ~\E j \in JobIds : IsBuilder(j, "running")'
          /\ (\E i, j \in JobIds : IsBuilder(i, "running")' /\ IsBuilder(j, "dead")') =>
                 resurrected["gc_consolidate"] >= MaxResurrect
    BY Zenon, RepairBuilders
  <2>3. MaxResurrect \in Nat /\ resurrected["gc_consolidate"] \in Nat
        /\ resurrected'["gc_consolidate"] \in Nat
    BY Zenon, <1>1, <1>5, GcAssumption DEF Counters, GcKinds
  <2> QED
    BY SMTT(20), <1>3, <1>6, <2>1, <2>2, <2>3 DEF OneBuilder
<1>10. LiveObjects' = LiveObjects
  BY Zenon, <1>2 DEF storeVars, LiveObjects, ObjectsIn, LivePacks
<1> QED
  BY Zenon, <1>7, <1>8, <1>9, <1>10, GcInvParts DEF Safe, GcInv, ChainInv, SlicesInv

-----------------------------------------------------------------------------
(* Compaction. *)

\* A set of pack ids has a smallest one.
LEMMA FirstPack ==
    ASSUME NEW S \in SUBSET Packs, S # {}
    PROVE  \E p \in S : \A q \in S : ~(q < p)
<1>1. S \subseteq Nat
  BY Zenon, PacksAssumption
<1>2. \E p \in S : \A q \in S : ~(<<q, p>> \in OpToRel(<, Nat))
  BY <1>1, NatLessThanWellFounded, WFMin, Zenon
<1> QED
  BY Zenon, <1>1, <1>2 DEF OpToRel

\* dedup_bitmaps gives every object of the cohort a bit in one of its packs.
LEMMA DedupAll ==
    ASSUME NEW cohort \in SUBSET Packs, WipedObjects \in [Packs -> SUBSET Oid]
    PROVE  /\ DedupBits(cohort) \in [Packs -> SUBSET Oid]
           /\ \A p \in cohort : DedupBits(cohort)[p] \subseteq WipedObjects[p]
           /\ \A p \in cohort : \A o \in WipedObjects[p] : \E q \in cohort : o \in DedupBits(cohort)[q]
<1>1. \A p \in cohort : DedupBits(cohort)[p] =
         {o \in WipedObjects[p] : \A q \in cohort : q < p => o \notin WipedObjects[q]}
  BY Zenon DEF DedupBits
<1>2. DedupBits(cohort) \in [Packs -> SUBSET Oid]
  BY Zenon DEF DedupBits
<1>3. ASSUME NEW p \in cohort, NEW o \in WipedObjects[p]
      PROVE  \E q \in cohort : o \in DedupBits(cohort)[q]
  <2> DEFINE S == {q \in cohort : o \in WipedObjects[q]}
  <2>1. S \in SUBSET Packs /\ S # {}
    BY Zenon, <1>3
  <2>2. PICK q \in S : \A r \in S : ~(r < q)
    BY Zenon, <2>1, FirstPack
  <2>3. \A r \in cohort : r < q => o \notin WipedObjects[r]
    BY Zenon, <2>2
  <2> QED
    BY Zenon, <1>1, <2>2, <2>3
<1> QED
  BY Zenon, <1>1, <1>2, <1>3

\* The rows gc_compact leaves: running rows only end.
LEMMA CompactRows ==
    ASSUME NEW j \in JobIds, jobs \in JobTable, NEW chain \in Nat,
           CanEnqueue(WithoutDeadRows(jobs), "gc_consolidate"), IsQueued(j, "gc_compact"),
           NEW js, \/ js = Delete(Enqueue(WithoutDeadRows(Running(jobs, j)), "gc_consolidate", chain), j)
                   \/ js \in LandErr(Enqueue(WithoutDeadRows(Running(jobs, j)), "gc_consolidate", chain), j)
    PROVE  js \in JobTable /\ \A i \in JobIds : js[i].state = "running" => js[i] = jobs[i]
<1> DEFINE a == Running(jobs, j)
           b == WithoutDeadRows(a)
           c == Enqueue(b, "gc_consolidate", chain)
<1>1. a \in JobTable /\ \A i \in JobIds : i # j => a[i] = jobs[i]
  BY Zenon, RunningRows
<1> HIDE DEF a
<1>2. b \in JobTable /\ \A i \in JobIds : b[i] \in {a[i], NoRow}
  BY Zenon, <1>1, WithoutDeadRowsRows
<1>3. CanEnqueue(b, "gc_consolidate")
  <2>1. \A i \in JobIds : i # j => b[i] = WithoutDeadRows(jobs)[i]
    BY Zenon, <1>1 DEF WithoutDeadRows
  <2>2. WithoutDeadRows(jobs)[j] = jobs[j] /\ jobs[j].state = "queued" /\ jobs[j].kind = "gc_compact"
    BY Zenon DEF WithoutDeadRows, IsQueued, JobTable
  <2> HIDE DEF b
  <2> QED
    BY <2>1, <2>2 DEF CanEnqueue, HasQueued, NoRow
<1> HIDE DEF b
<1>4. /\ c \in JobTable
      /\ \A i \in JobIds :
            \/ c[i] = b[i]
            \/ /\ b[i] = NoRow
               /\ c[i] = [kind |-> "gc_consolidate", chain |-> chain, state |-> "queued", lease |-> Null]
  BY Zenon, <1>2, <1>3, EnqueueRows DEF GcKinds
<1>5. \A i \in JobIds : i # j /\ c[i].state = "running" => c[i] = jobs[i]
  BY <1>1, <1>2, <1>4 DEF NoRow
<1> HIDE DEF c
<1>6. CASE js = Delete(c, j)
  BY SMTT(20), <1>4, <1>5, <1>6, DeleteRows DEF NoRow
<1>7. CASE js \in LandErr(c, j)
  <2>1. PICK state \in {"queued", "dead"} : js = Release(c, j, state)
    BY Zenon, <1>7 DEF LandErr
  <2>2. js \in JobTable /\ js[j].state = state /\ \A i \in JobIds : i # j => js[i] = c[i]
    <3>1. c \in JobTable
      BY Zenon, <1>4
    <3>2. /\ Release(c, j, state) \in JobTable
          /\ Release(c, j, state)[j].state = state
          /\ \A i \in JobIds : i # j => Release(c, j, state)[i] = c[i]
      BY SMTT(30), <2>1, <3>1 DEF Release, JobTable, Row
    <3> QED
      BY Zenon, <2>1, <3>2
  <2> QED
    BY Zenon, <1>5, <2>2
<1> QED
  BY Zenon, <1>6, <1>7 DEF a, b, c

\* gc_compact stakes a compact chain over a live cohort.
LEMMA GcCompactInv ==
    \A j \in JobIds, cohort \in SUBSET Packs, failed \in BOOLEAN :
        GcInv /\ GcCompact(j, cohort, failed) => Safe
<1> SUFFICES ASSUME NEW j \in JobIds, NEW cohort \in SUBSET Packs, NEW failed \in BOOLEAN, GcInv,
                    GcCompact(j, cohort, failed)
             PROVE  Safe
  OBVIOUS
<1> DEFINE c == lastChain + 1
           queue == Enqueue(WithoutDeadRows(Running(jobs, j)), "gc_consolidate", c)
<1>1. jobs \in JobTable /\ slices \in SliceTable /\ Counters /\ ChainType /\ StoreTypeOK
  BY Zenon, TypeParts DEF GcInv
<1>2. /\ IsQueued(j, "gc_compact") /\ cohort \subseteq LiveIn(WipedState) /\ Cardinality(cohort) >= 2
      /\ CanEnqueue(WithoutDeadRows(jobs), "gc_consolidate")
      /\ lastChain' = c /\ marked' = cohort /\ bitmap' = DedupBits(cohort)
      /\ frontier' = {} /\ seen' = {} /\ packState' = WipedState /\ objects' = WipedObjects
      /\ strikes' = PrunedStrikes /\ StoreSame /\ UNCHANGED <<resurrected, slices>>
  BY Zenon DEF GcCompact, Dispatched
<1>3. gc' = [NoGc EXCEPT !.chain = c, !.mode = "compact", !.phase = "build"]
  BY Zenon DEF GcCompact
<1>4. (jobs' = Delete(queue, j) \/ jobs' \in LandErr(queue, j)) /\ faults' \in Nat
  BY <1>1 DEF GcCompact, Counters
<1>5. c \in Nat /\ c > lastChain /\ c # 0 /\ lastChain \in Nat /\ refs_version \in Nat
  BY <1>1 DEF Counters, StoreTypeOK
<1>6. /\ gc' \in GcRow /\ gc'.chain = c /\ gc'.mode = "compact" /\ gc'.phase = "build"
      /\ gc'.refs_version = 0 /\ gc'.new_pack = Null
  BY Zenon, <1>3, <1>5 DEF NoGc, GcRow
<1>7. UNCHANGED <<refs, refs_version, gc_epoch, packPush, r2, pushState, pushEpoch, edge, doomed>>
  BY Zenon, <1>2 DEF StoreSame, refVars, pushVars
<1>8. /\ StoreInv' /\ LiveObjects' = LiveObjects /\ LivePacks' = LiveIn(WipedState)
      /\ \A p \in Packs : packState[p] # "none" => packState'[p] # "none"
  BY Zenon, <1>2, WipedInv
<1>9. jobs' \in JobTable /\ \A i \in JobIds : jobs'[i].state = "running" => jobs'[i] = jobs[i]
  BY Zenon, <1>1, <1>2, <1>4, <1>5, CompactRows
<1> HIDE DEF c, queue
<1>10. /\ bitmap' \in [Packs -> SUBSET Oid]
       /\ \A p \in cohort : bitmap'[p] \subseteq objects'[p]
       /\ \A p \in cohort : \A o \in objects'[p] : \E q \in cohort : o \in bitmap'[q]
  <2>1. WipedObjects \in [Packs -> SUBSET Oid]
    BY Zenon, <1>2, <1>8 DEF StoreInv, StoreTypeOK
  <2> QED
    BY Zenon, <1>2, <2>1, DedupAll
<1>11. cohort # {}
  <2>1. Cardinality({}) = 0
    BY Zenon, FS_EmptySet
  <2> QED
    BY <1>2, <2>1
<1>12. ChainType' /\ Counters'
  BY Zenon, <1>1, <1>2, <1>4, <1>5, <1>6, <1>10, StruckType DEF ChainType, Counters
<1>13. ChainInv'
  <2>1. ChainShape' /\ NewPack' /\ Walk' /\ SurvivorsClosed'
    BY SMTT(20), <1>5, <1>6, <1>7 DEF ChainShape, NewPack, Walk, Walking, SurvivorsClosed
  <2>2. Cohort'
    BY Zenon, <1>2, <1>6, <1>8, <1>11 DEF Cohort, LivePacks
  <2>3. ObjectsIn(marked)' \subseteq Marked'
    BY <1>2, <1>10 DEF ObjectsIn, Marked
  <2>4. Marks'
    BY Zenon, <1>2, <1>10, <2>3 DEF Marks
  <2> QED
    BY Zenon, <2>1, <2>2, <2>4 DEF ChainInv
<1>14. \A t \in Slices : Building(t)' => Building(t) /\ (Held(t)' => Held(t))
  BY Zenon, <1>2, <1>9 DEF Building, Held, GcInv, ChainIds
<1>15. SlicesInv'
  <2>1. \A t \in Slices : slices[t].chain \in Nat
    BY Zenon, <1>1 DEF SliceTable, SliceRow
  <2>2. ChainIds' /\ SliceWalk'
    <3>1. \A t \in Slices : slices[t].chain <= lastChain
      BY Zenon DEF GcInv, ChainIds
    <3>2. c <= c /\ \A t \in Slices : slices[t].chain <= c
      BY SMTT(20), <1>5, <2>1, <3>1
    <3>3. ChainIds'
      BY Zenon, <1>2, <1>6, <3>2 DEF GcInv, ChainIds
    <3>4. SliceWalk'
      BY Zenon, <1>6 DEF SliceWalk
    <3> QED
      BY Zenon, <3>3, <3>4
  <2>3. SliceBuild'
    BY Zenon, <1>2, <1>6, <1>7, <1>8, <1>14, NullAssumption DEF GcInv, SliceBuild
  <2> QED
    BY Zenon, <2>2, <2>3 DEF SlicesInv
<1>16. OneBuilder'
  <2>1. \A t \in Slices : Building(t)' /\ Held(t)' => jobs'[slices'[t].job].kind = "gc_consolidate"
    <3> SUFFICES ASSUME NEW t \in Slices, Building(t)', Held(t)'
                 PROVE  jobs'[slices[t].job].kind = "gc_consolidate"
      BY Zenon, <1>2
    <3>1. Building(t) /\ Held(t) /\ slices[t].job \in JobIds
      BY Zenon, <1>14 DEF GcInv, ChainIds, Building
    <3>2. jobs'[slices[t].job] = jobs[slices[t].job]
      BY Zenon, <1>2, <1>9, <3>1 DEF Held
    <3> QED
      BY Zenon, <3>1, <3>2 DEF GcInv, OneBuilder
  <2> QED
    BY Zenon, <1>6, <2>1 DEF OneBuilder
<1>17. GcTypeOK'
  BY Zenon, <1>1, <1>2, <1>8, <1>9, <1>12, TypePartsNext DEF StoreInv
<1> QED
  BY Zenon, <1>8, <1>13, <1>15, <1>16, <1>17, GcInvParts DEF Safe, GcInv, ChainInv, SlicesInv

-----------------------------------------------------------------------------
(* The steps of the store. *)

\* What a push or the janitor may do to the packs behind the collector's back:
\* live packs keep their rows, build packs are not touched, dead packs stay
\* dead, and the live set and the refs change only with refs_version.
StoreTame ==
    /\ \A p \in Packs :
          /\ packState[p] # "none" => packState'[p] # "none" /\ packPush'[p] = packPush[p]
          /\ packState[p] = "live" => packState'[p] = "live" /\ objects'[p] = objects[p]
          /\ packState[p] \in {"dead", "gone"} => packState'[p] \in {"dead", "gone"}
          /\ packPush[p] = Null /\ packState[p] = "ingesting" =>
                packState'[p] = "ingesting" /\ objects'[p] = objects[p]
          /\ packPush[p] = Null /\ packState[p] \in {"ingesting", "live"} =>
                (p \in r2' <=> p \in r2)
    /\ refs_version <= refs_version'
    /\ refs_version' = refs_version => refs' = refs /\ LivePacks' = LivePacks

\* A tame step of the store keeps what the collector relies on.
LEMMA StoreFrame ==
    ASSUME GcInv, StoreInv', StoreTame,
           UNCHANGED <<chainVars, slices, lastChain, resurrected, strikes, faults>>,
           jobs' \in JobTable, Tame(jobs')
    PROVE  Safe
<1>1. /\ jobs \in JobTable /\ slices \in SliceTable /\ Counters /\ ChainType /\ StoreTypeOK
      /\ UNCHANGED <<gc, marked, bitmap, frontier, seen>>
  BY Zenon, TypeParts DEF GcInv, chainVars
<1>2. GcTypeOK'
  BY Zenon, <1>1, TypePartsNext DEF StoreInv, ChainType, Counters
<1>3. /\ marked \subseteq Packs /\ gc.new_pack \in Packs \cup {Null} /\ Marked' = Marked
      /\ refs_version \in Nat /\ refs_version' \in Nat /\ gc.refs_version \in Nat
  BY Zenon, <1>1 DEF ChainType, GcRow, Marked, StoreInv, StoreTypeOK
<1>4. /\ LivePacks \subseteq LivePacks'
      /\ \A p \in LivePacks : objects'[p] = objects[p]
      /\ LiveObjects \subseteq LiveObjects'
  BY Zenon DEF StoreTame, LivePacks, LiveObjects, ObjectsIn
<1>5. \A p \in marked : p \in LivePacks' <=> p \in LivePacks
  BY Zenon, <1>3, <1>4 DEF GcInv, Cohort, LivePacks, StoreTame
<1>6. /\ marked \subseteq LivePacks' <=> marked \subseteq LivePacks
      /\ marked \cap LivePacks' = {} <=> marked \cap LivePacks = {}
      /\ CohortLive' <=> CohortLive
  BY Zenon, <1>1, <1>5 DEF CohortLive
<1>7. refs_version' = gc.refs_version =>
         refs_version = gc.refs_version /\ refs' = refs /\ LivePacks' = LivePacks
  <2>1. gc.refs_version <= refs_version
    BY Zenon DEF GcInv, ChainShape
  <2> QED
    BY <1>3, <2>1 DEF StoreTame
<1>8. ChainShape'
  BY SMTT(20), <1>1, <1>3 DEF GcInv, ChainShape, StoreTame
<1>9. Cohort'
  <2>1. \A p \in marked : packState'[p] \in {"live", "dead", "gone"}
    BY Zenon, <1>3 DEF GcInv, Cohort, StoreTame
  <2> QED
    BY Zenon, <1>1, <1>6, <2>1 DEF GcInv, Cohort
<1>10. gc.new_pack # Null => /\ packState'[gc.new_pack] = packState[gc.new_pack]
                             /\ packPush'[gc.new_pack] = Null
                             /\ objects'[gc.new_pack] = objects[gc.new_pack]
                             /\ gc.new_pack \in r2' <=> gc.new_pack \in r2
  BY Zenon, <1>3 DEF GcInv, NewPack, StoreTame
<1>11. NewPack'
  BY Zenon, <1>1, <1>3, <1>6, <1>10 DEF GcInv, NewPack
<1>12. Marks'
  <2>1. \A p \in marked : p \in LivePacks' => bitmap[p] \subseteq objects'[p]
    BY Zenon, <1>4, <1>5 DEF GcInv, Marks
  <2>2. marked \subseteq LivePacks => ObjectsIn(marked)' = ObjectsIn(marked)
    BY Zenon, <1>1, <1>4 DEF ObjectsIn
  <2> QED
    BY Zenon, <1>1, <1>3, <1>6, <2>1, <2>2 DEF GcInv, Marks
<1>13. refs_version' = gc.refs_version =>
          /\ RefTargets' = RefTargets /\ LiveObjects' = LiveObjects /\ Kept' = Kept
          /\ Keepers' = Keepers /\ ObjectsIn(Keepers)' = ObjectsIn(Keepers)
  BY SMTT(20), <1>1, <1>4, <1>7 DEF RefTargets, LiveObjects, Kept, Keepers, ObjectsIn
<1>14. Walking' => Walking
  BY Zenon, <1>1, <1>7 DEF Walking
<1>15. Walk'
  BY Zenon, <1>1, <1>3, <1>13, <1>14 DEF GcInv, Walk, Walking
<1>16. SurvivorsClosed'
  <2>1. refs_version' = gc.refs_version =>
           LinksOf(Marked \cup ObjectsIn(Keepers))' = LinksOf(Marked \cup ObjectsIn(Keepers))
    BY Zenon, <1>3, <1>13 DEF LinksOf
  <2> QED
    BY Zenon, <1>1, <1>3, <1>6, <1>7, <1>13, <2>1 DEF GcInv, SurvivorsClosed
<1>17. ChainIds'
  BY Zenon, <1>1 DEF GcInv, ChainIds
<1>18. \A s \in Slices : (InBatch(s)' <=> InBatch(s)) /\ (Building(s)' <=> Building(s))
  BY Zenon DEF InBatch, Building
<1>19. SliceWalk'
  <2> SUFFICES ASSUME NEW s \in Slices, InBatch(s), slices[s].chain = gc.chain, gc.phase = "unset"
               PROVE  /\ \A p \in marked : slices[s].bits[p] \subseteq objects'[p]
                      /\ Walking' =>
                            /\ slices[s].batch \subseteq slices[s].hits
                            /\ slices[s].batch \subseteq frontier \cup seen
                            /\ \A p \in marked : slices[s].bits[p] \subseteq frontier \cup seen
                            /\ \A o \in slices[s].batch :
                                  o \in Marked \cup Kept' \/ \E p \in marked : o \in slices[s].bits[p]
    BY Zenon, <1>1, <1>3, <1>18 DEF SliceWalk
  <2>1. marked \subseteq LivePacks
    BY Zenon, <1>1 DEF GcInv, Cohort, ChainShape, ChainType, GcRow
  <2>2. \A p \in marked : slices[s].bits[p] \subseteq objects'[p]
    BY Zenon, <1>4, <2>1 DEF GcInv, SliceWalk
  <2>3. Walking' => Kept' = Kept
    BY Zenon, <1>1, <1>13 DEF Walking
  <2> QED
    BY Zenon, <1>14, <2>2, <2>3 DEF GcInv, SliceWalk
<1>20. \A s \in Slices : Building(s) /\ Held(s)' => Held(s)
  BY Zenon DEF Held, Tame, TameRow, GcInv, ChainIds
<1>21. SliceBuild'
  <2> SUFFICES ASSUME NEW s \in Slices, Building(s)
               PROVE  /\ slices[s].pack \in Packs
                      /\ packPush'[slices[s].pack] = Null
                      /\ packState'[slices[s].pack] # "none"
                      /\ Held(s)' /\ slices[s].chain = gc.chain /\ gc.mode = "mark" =>
                            gc.phase = "build" /\ slices[s].pack = gc.new_pack
                      /\ slices[s].pc = "upload" /\ slices[s].pack = gc.new_pack =>
                            objects'[gc.new_pack] = Marked
    BY Zenon, <1>1, <1>3, <1>18 DEF SliceBuild
  <2>1. /\ slices[s].pack \in Packs
        /\ packPush'[slices[s].pack] = Null
        /\ packState'[slices[s].pack] # "none"
    BY Zenon DEF GcInv, SliceBuild, StoreTame
  <2>2. Held(s)' /\ slices[s].chain = gc.chain /\ gc.mode = "mark" =>
            gc.phase = "build" /\ slices[s].pack = gc.new_pack
    BY Zenon, <1>20 DEF GcInv, SliceBuild
  <2>3. slices[s].pc = "upload" /\ slices[s].pack = gc.new_pack => objects'[gc.new_pack] = Marked
    BY Zenon, <1>10, <2>1, NullAssumption DEF GcInv, SliceBuild
  <2> QED
    BY Zenon, <2>1, <2>2, <2>3
<1>22. OneBuilder'
  <2>1. resurrected["gc_consolidate"] <= resurrected'["gc_consolidate"]
    BY <1>1 DEF Counters, GcKinds
  <2> QED
    BY Zenon, <1>1, <1>18, <2>1, TameOneBuilder DEF GcInv, Counters
<1> QED
  BY Zenon, <1>2, <1>4, <1>8, <1>9, <1>11, <1>12, <1>15, <1>16, <1>17, <1>19, <1>21, <1>22 DEF Safe, GcInv

\* A push uploads into its own pack only.
LEMMA EdgeTame ==
    ASSUME StoreInv, EdgeStep PROVE StoreTame
<1>0. /\ refs_version \in Nat /\ packState \in [Packs -> PackStates] /\ r2 \subseteq Packs
      /\ packPush \in [Packs -> Pushes \cup {Null}] /\ objects \in [Packs -> SUBSET Oid]
  BY Zenon DEF StoreInv, StoreTypeOK
<1>1. /\ UNCHANGED <<refs, refs_version>>
      /\ \A p \in Packs :
            \/ /\ packState[p] = "none" /\ packState'[p] # "live"
            \/ /\ packState'[p] = packState[p] /\ packPush'[p] = packPush[p]
               /\ objects'[p] = objects[p] \/ (packPush[p] # Null /\ packState[p] = "ingesting")
               /\ (p \in r2' <=> p \in r2) \/ packPush[p] # Null
  <2>1. CASE \E u \in Pushes : \/ PushBegin(u) \/ PushNoPack(u) \/ EdgeFail(u) \/ EdgeCrash(u)
                               \/ \E chunk \in SUBSET edge[u].todo : PushLookup(u, chunk)
    BY Zenon, <2>1 DEF PushBegin, PushNoPack, EdgeFail, EdgeCrash, PushLookup, refVars, packVars
  <2>2. ASSUME NEW u \in Pushes, NEW p \in Packs, NEW c \in PackContents, PushIndexFirst(u, p, c)
        PROVE  <1>1!1 /\ <1>1!2
    BY Zenon, <1>0, <2>2 DEF PushIndexFirst, refVars
  <2>3. ASSUME NEW u \in Pushes, NEW rows \in SUBSET edge[u].content, PushIndexRows(u, rows)
        PROVE  <1>1!1 /\ <1>1!2
    BY Zenon, <1>0, <2>3, NullAssumption DEF PushIndexRows, IndexAccepts, refVars
  <2>4. ASSUME NEW u \in Pushes, PackFinish(u)
        PROVE  <1>1!1 /\ <1>1!2
    <3>1. edge[u].pack # Null /\ packPush[edge[u].pack] = u
      BY Zenon, <2>4 DEF PackFinish, StoreInv, Uploading
    <3> QED
      BY Zenon, <1>0, <2>4, <3>1, NullAssumption DEF PackFinish, refVars, packVars
  <2>5. ASSUME NEW u \in Pushes, PushIndexTail(u)
        PROVE  <1>1!1 /\ <1>1!2
    BY Zenon, <1>0, <2>5, NullAssumption DEF PushIndexTail, IndexAccepts, refVars
  <2> QED
    BY Zenon, <2>1, <2>2, <2>3, <2>4, <2>5 DEF EdgeStep
<1>2. LivePacks' = LivePacks
  BY Zenon, <1>1 DEF LivePacks
<1> QED
  BY SMTT(20), <1>0, <1>1, <1>2 DEF StoreTame

\* The janitor marks the packs of closed pushes, and deletes dead ones.
LEMMA JanitorTame ==
    ASSUME StoreInv, JanitorStep PROVE StoreTame
<1>0. /\ refs_version \in Nat /\ packState \in [Packs -> PackStates] /\ r2 \subseteq Packs
      /\ packPush \in [Packs -> Pushes \cup {Null}] /\ objects \in [Packs -> SUBSET Oid]
      /\ \A p \in doomed : p \in Packs /\ packState[p] = "dead"
  BY Zenon DEF StoreInv, StoreTypeOK, DoomedDead
<1>1. /\ UNCHANGED <<refs, refs_version, packPush>>
      /\ \A p \in Packs :
            \/ /\ packState'[p] = packState[p] /\ objects'[p] = objects[p]
               /\ (p \in r2' <=> p \in r2)
            \/ packState[p] = "dead" /\ packState'[p] \in {"dead", "gone"}
            \/ packState[p] = "ingesting" /\ packState'[p] = "dead" /\ packPush[p] # Null
  <2>1. ASSUME NEW expired \in SUBSET Pushes, NEW killed \in SUBSET Packs,
               JanitorMark(expired, killed)
        PROVE  <1>1!1 /\ <1>1!2
    BY Zenon, <1>0, <2>1 DEF JanitorMark, Abandoned, refVars
  <2>2. ASSUME \E chosen \in SUBSET Packs : JanitorSelect(chosen)
        PROVE  <1>1!1 /\ <1>1!2
    BY Zenon, <2>2 DEF JanitorSelect, refVars, packVars
  <2>3. ASSUME NEW p \in Packs, JanitorDeleteBytes(p) \/ JanitorDeleteRow(p)
        PROVE  <1>1!1 /\ <1>1!2
    BY Zenon, <1>0, <2>3 DEF JanitorDeleteBytes, JanitorDeleteRow, refVars, packVars
  <2>4. ASSUME JanitorStop PROVE <1>1!1 /\ <1>1!2
    BY Zenon, <2>4 DEF JanitorStop, refVars, packVars
  <2> QED
    BY Zenon, <2>1, <2>2, <2>3, <2>4 DEF JanitorStep
<1>2. LivePacks' = LivePacks
  BY Zenon, <1>1 DEF LivePacks
<1> QED
  BY SMTT(20), <1>0, <1>1, <1>2 DEF StoreTame

\* A landed push makes its own pack live and moves refs_version.
LEMMA CommitTame ==
    ASSUME NEW u \in Pushes, NEW cmds \in CommandSets, NEW refused \in SUBSET DOMAIN cmds,
           StoreInv, CommitPush(u, cmds, refused)
    PROVE  StoreTame
<1> DEFINE pack == edge[u].pack
<1>1. /\ \A p \in Packs : packState'[p] = IF p = pack THEN "live" ELSE packState[p]
      /\ pack # Null => packState[pack] = "ingesting"
  BY Zenon, CommitPushLive
<1>2. /\ UNCHANGED <<packPush, objects, r2>> /\ refs_version \in Nat
      /\ refs \in [Refs -> Target] /\ pack \in Packs \cup {Null}
      /\ pack # Null => packPush[pack] = u
  BY Zenon DEF CommitPush, CommitAccepts, StoreInv, StoreTypeOK
<1>3. refs_version' = refs_version \/ refs_version' = refs_version + 1
  BY Zenon DEF CommitPush
<1>4. ASSUME refs_version' = refs_version PROVE refs' = refs /\ pack = Null
  <2>1. pack = Null /\ Landed(u, cmds, refused) = {}
    BY SMTT(20), <1>2, <1>4 DEF CommitPush
  <2> QED
    BY Zenon, <1>2, <2>1 DEF CommitPush
<1>5. refs_version' = refs_version => LivePacks' = LivePacks
  BY Zenon, <1>1, <1>4, NullAssumption DEF LivePacks
<1>6. \A p \in Packs : p = pack => packState[p] = "ingesting" /\ packPush[p] # Null
  BY Zenon, <1>1, <1>2, NullAssumption
<1> HIDE DEF pack
<1> QED
  BY SMTT(20), <1>1, <1>2, <1>3, <1>4, <1>5, <1>6 DEF StoreTame

\* An unchanged jobs table is tame.
LEMMA TameSame ==
    ASSUME jobs \in JobTable PROVE Tame(jobs)
  BY Zenon DEF Tame, TameRow, JobTable, Row

\* What a commit queues starts no builder.
LEMMA TameMaybeCompact ==
    ASSUME jobs \in JobTable, CanEnqueue(jobs, "gc_compact"), NEW pack,
           NEW js \in MaybeCompact(jobs, pack)
    PROVE  js \in JobTable /\ Tame(js)
<1>1. js = jobs \/ js = Enqueue(jobs, "gc_compact", 0)
  BY Zenon DEF MaybeCompact
<1>2. Enqueue(jobs, "gc_compact", 0) \in JobTable /\ Tame(Enqueue(jobs, "gc_compact", 0))
  BY Zenon, TameEnqueue, TameSame DEF Tame, GcKinds
<1> QED
  BY Zenon, <1>1, <1>2, TameSame

\* A step of an edge worker or of the janitor keeps the invariant.
LEMMA StoreStepsInv ==
    GcInv /\ (EdgeStep \/ JanitorStep) /\ UNCHANGED gcVars => Safe
<1> SUFFICES ASSUME GcInv, EdgeStep \/ JanitorStep, UNCHANGED gcVars PROVE Safe
  OBVIOUS
<1>1. StoreInv' /\ StoreTame
  BY Zenon, EdgeStepInv, JanitorStepInv, EdgeTame, JanitorTame DEF GcInv
<1>2. jobs' \in JobTable /\ Tame(jobs')
  BY Zenon, TypeParts, TameSame DEF GcInv, gcVars
<1>3. UNCHANGED <<chainVars, slices, lastChain, resurrected, strikes, faults>>
  BY Zenon DEF gcVars, chainVars
<1> QED
  BY Zenon, <1>1, <1>2, <1>3, StoreFrame

\* Closing a push changes no table the collector reads.
LEMMA ClosedTame ==
    ASSUME StoreInv, UNCHANGED <<refs, refs_version, packState, packPush, objects, r2>>
    PROVE  StoreTame
<1>1. LivePacks' = LivePacks /\ refs_version \in Nat
  BY Zenon DEF LivePacks, StoreInv, StoreTypeOK
<1> QED
  BY <1>1 DEF StoreTame

\* Every outcome of commit_push keeps the invariant.
LEMMA CommitStepGcInv == GcInv /\ CommitStepGc => Safe
<1> SUFFICES ASSUME GcInv, CommitStepGc PROVE Safe
  OBVIOUS
<1>0. StoreInv /\ jobs \in JobTable
  BY Zenon, TypeParts DEF GcInv
<1>1. ASSUME NEW u \in Pushes, CommitRejected(u), UNCHANGED gcVars PROVE Safe
  <2>1. StoreInv' /\ StoreTame
    <3>1. StoreInv'
      BY Zenon, <1>0, <1>1, CommitRejectedInv
    <3>2. UNCHANGED <<refs, refs_version, packState, packPush, objects, r2>>
      BY Zenon, <1>1 DEF CommitRejected, refVars, packVars
    <3> QED
      BY Zenon, <1>0, <3>1, <3>2, ClosedTame
  <2>2. jobs' \in JobTable /\ Tame(jobs')
    BY Zenon, <1>0, <1>1, TameSame DEF gcVars
  <2>3. UNCHANGED <<chainVars, slices, lastChain, resurrected, strikes, faults>>
    BY Zenon, <1>1 DEF gcVars, chainVars
  <2> QED
    BY Zenon, <2>1, <2>2, <2>3, StoreFrame
<1>2. ASSUME NEW u \in Pushes, NEW cmds \in CommandSets, NEW refused \in SUBSET DOMAIN cmds,
             AtomicFailedAndEnqueue(u, cmds, refused)
      PROVE  Safe
  <2>1. CommitAtomicFailed(u, cmds, refused)
    BY Zenon, <1>2 DEF AtomicFailedAndEnqueue
  <2>2. StoreInv' /\ StoreTame
    <3>1. StoreInv'
      BY Zenon, <1>0, <2>1, CommitAtomicFailedInv
    <3>2. UNCHANGED <<refs, refs_version, packState, packPush, objects, r2>>
      BY Zenon, <2>1 DEF CommitAtomicFailed, refVars, packVars
    <3> QED
      BY Zenon, <1>0, <3>1, <3>2, ClosedTame
  <2>3. jobs' \in JobTable /\ Tame(jobs')
    BY Zenon, <1>0, <1>2, TameMaybeCompact DEF AtomicFailedAndEnqueue
  <2>4. UNCHANGED <<chainVars, slices, lastChain, resurrected, strikes, faults>>
    BY Zenon, <1>2 DEF AtomicFailedAndEnqueue, chainVars
  <2> QED
    BY Zenon, <2>2, <2>3, <2>4, StoreFrame
<1>3. ASSUME NEW u \in Pushes, NEW cmds \in CommandSets, NEW refused \in SUBSET DOMAIN cmds,
             CommitAndEnqueue(u, cmds, refused)
      PROVE  Safe
  <2>1. CommitPush(u, cmds, refused)
    BY Zenon, <1>3 DEF CommitAndEnqueue
  <2>2. StoreInv' /\ StoreTame
    BY Zenon, <1>0, <2>1, CommitPushInv, CommitTame
  <2>3. jobs' \in JobTable /\ Tame(jobs')
    <3>1. PICK js \in MaybeCompact(jobs, edge[u].pack) :
             /\ CanEnqueue(js, "gc_mark")
             /\ jobs' = js \/ jobs' = Enqueue(js, "gc_mark", 0)
      BY Zenon, <1>3 DEF CommitAndEnqueue
    <3>2. js \in JobTable /\ Tame(js)
      BY Zenon, <1>0, <1>3, TameMaybeCompact DEF CommitAndEnqueue
    <3>3. Enqueue(js, "gc_mark", 0) \in JobTable /\ Tame(Enqueue(js, "gc_mark", 0))
      BY Zenon, <3>1, <3>2, TameEnqueue DEF Tame, GcKinds
    <3> QED
      BY Zenon, <3>1, <3>2, <3>3
  <2>4. UNCHANGED <<chainVars, slices, lastChain, resurrected, strikes, faults>>
    BY Zenon, <1>3 DEF CommitAndEnqueue, chainVars
  <2> QED
    BY Zenon, <2>2, <2>3, <2>4, StoreFrame
<1> QED
  BY Zenon, <1>1, <1>2, <1>3 DEF CommitStepGc

-----------------------------------------------------------------------------
(* The theorems. *)

\* A fresh repository satisfies the invariant.
LEMMA GcInitInv == GcInit => GcInv
<1> SUFFICES ASSUME GcInit PROVE GcInv
  OBVIOUS
<1>1. StoreInv
  BY Zenon, StoreInitInv DEF GcInit
<1>2. /\ gc = NoGc /\ marked = {} /\ bitmap = NoBits /\ frontier = {} /\ seen = {}
      /\ jobs = [j \in JobIds |-> NoRow] /\ slices = [s \in Slices |-> NoSlice]
      /\ resurrected = [k \in GcKinds |-> 0] /\ strikes = [p \in Packs |-> 0]
      /\ lastChain = 0 /\ faults = 0
  BY Zenon DEF GcInit
<1>3. \A s \in Slices : slices[s].pc = "none" /\ slices[s].chain = 0
  BY Zenon, <1>2, NoSliceRow
<1>4. GcTypeOK
  <2>1. ChainType /\ Counters
    BY Zenon, <1>2 DEF ChainType, Counters, GcRow, NoGc, NoBits
  <2>2. jobs \in JobTable /\ slices \in SliceTable
    BY Zenon, <1>2, RowFacts, NoSliceRow DEF JobTable, SliceTable
  <2> QED
    BY Zenon, <1>1, <2>1, <2>2, TypeParts DEF StoreInv
<1>5. ChainIds
  BY SMTT(20), <1>2, <1>3 DEF ChainIds, NoGc
<1>6. ChainShape /\ Cohort /\ NewPack /\ Marks
  <2>1. refs_version \in Nat
    BY Zenon, <1>1 DEF StoreInv, StoreTypeOK
  <2> QED
    BY SMTT(20), <1>2, <2>1 DEF ChainShape, Cohort, NewPack, Marks, NoGc
<1>7. Walk /\ SurvivorsClosed
  BY Zenon, <1>2 DEF Walk, Walking, SurvivorsClosed, NoGc
<1>8. SliceWalk /\ SliceBuild
  BY Zenon, <1>3 DEF SliceWalk, SliceBuild, InBatch, Building
<1>9. OneBuilder
  BY Zenon, <1>2, <1>3 DEF OneBuilder, Building, NoGc
<1> QED
  BY Zenon, <1>1, <1>4, <1>5, <1>6, <1>7, <1>8, <1>9 DEF GcInv

\* Every step keeps the invariant, and forgets a live object only with the epoch.
LEMMA GcNextInv == GcInv /\ [GcNext]_vars => Safe
<1> SUFFICES ASSUME GcInv, [GcNext]_vars PROVE Safe
  OBVIOUS
<1>1. CASE EdgeStep /\ UNCHANGED gcVars
  BY Zenon, <1>1, StoreStepsInv
<1>2. CASE JanitorStep /\ UNCHANGED gcVars
  BY Zenon, <1>2, StoreStepsInv
<1>3. CASE CommitStepGc
  BY Zenon, <1>3, CommitStepGcInv
<1>4. CASE MarkStep
  BY Zenon, <1>4, GcMarkInitInv, GcMarkNothingInv, GcMarkLateInv, GcMarkResumeInv, MarkPopInv,
     MarkCommitInv, MarkFlushKidsInv, MarkCommitErrInv, MarkAbortInv, MarkHandoffInv
  DEF MarkStep
<1>5. CASE BuildStep
  BY Zenon, <1>5, GcDropRowInv, GcConsolidateNothingInv, GcConsolidateAbortInv, GcConsolidateEmptyInv,
     GcConsolidateBeginInv, GcConsolidateResumeInv, BuildRowsInv, BuildCompleteInv,
     BuildUploadInv, FinishBuildInv, BuildRetryInv, BuildRestartInv
  DEF BuildStep
<1>6. CASE RetireStep
  BY Zenon, <1>6, SwapInv, GcCompactInv, GcCompactNothingInv, GcSweepAbortInv, GcSweepInv DEF RetireStep
<1>7. CASE SliceStep
  BY Zenon, <1>7, SliceEndsInv, RepairInv, JanitorEnqueueInv DEF SliceStep
<1>8. CASE UNCHANGED vars
  <2>1. UNCHANGED <<storeVars, chainVars, lastChain, resurrected>> /\ UNCHANGED <<jobs, slices>>
    BY Zenon, <1>8 DEF vars, gcVars, chainVars
  <2>2. jobs \in JobTable /\ slices \in SliceTable /\ Counters
    BY Zenon, TypeParts DEF GcInv
  <2>3. Counters'
    BY Zenon, <1>8, <2>2 DEF vars, gcVars, Counters
  <2>4. jobs' \in JobTable /\ Tame(jobs') /\ slices' \in SliceTable
    BY Zenon, <2>1, <2>2, TameSame
  <2> QED
    BY Zenon, <2>1, <2>3, <2>4, QuietInv
<1> QED
  BY Zenon, <1>1, <1>2, <1>3, <1>4, <1>5, <1>6, <1>7, <1>8 DEF GcNext

\* The inductive invariant of the store, its pushes, the janitor and the
\* collector with any number of slices, kills, errors and repairs.
THEOREM GcInvariant == GcSpec => []GcInv
<1>1. GcInv /\ [GcNext]_vars => GcInv'
  BY Zenon, GcNextInv DEF Safe
<1> QED
  BY <1>1, GcInitInv, PTL DEF GcSpec

\* Every table keeps its type.
THEOREM GcTypeCorrect == GcSpec => []GcTypeOK
<1>1. GcInv => GcTypeOK
  BY Zenon DEF GcInv
<1> QED
  BY <1>1, GcInvariant, PTL

\* With the collector running, every ref still resolves and every live object
\* still finds what it links to: no interleaving of pushes, the mark, the
\* rebuild, the sweep, the compaction swap and their aborts loses an object.
THEOREM GcLiveClosed == GcSpec => []LiveClosed
<1>1. GcInv => LiveClosed
  BY Zenon DEF GcInv, StoreInv
<1> QED
  BY <1>1, GcInvariant, PTL

\* A live pack has its bytes in R2, build packs of the collector included.
THEOREM GcLiveBytes == GcSpec => []LiveBytes
<1>1. GcInv => LiveBytes
  BY Zenon DEF GcInv, StoreInv
<1> QED
  BY <1>1, GcInvariant, PTL

\* A finished mark that still describes the refs covers everything the refs
\* and the untouched packs need, until its cohort is retired.
THEOREM GcSurvivors == GcSpec => []SurvivorsClosed
<1>1. GcInv => SurvivorsClosed
  BY Zenon DEF GcInv
<1> QED
  BY <1>1, GcInvariant, PTL

\* Only the sweep, which bumps gc_epoch, takes objects out of the live set.
THEOREM GcOnlySweepForgets == GcSpec => OnlySweepForgets
<1>1. GcInv /\ [GcNext]_vars => [LiveObjects \subseteq LiveObjects' \/ gc_epoch' > gc_epoch]_vars
  BY Zenon, GcNextInv DEF Safe
<1> QED
  BY <1>1, GcInvariant, PTL DEF GcSpec, OnlySweepForgets

\* Every unfinished build pack is the current chain's, however builds are
\* aborted, restarted and retried: none is left that nobody would ever reap.
THEOREM GcNoStrayBuild == GcSpec => []NoStrayBuild
<1>1. GcInit => NoStrayBuild
  BY Zenon, OwnerInit
<1>2. GcInv /\ NoStrayBuild /\ [GcNext]_vars => NoStrayBuild'
  BY Zenon, NoStrayBuildStep
<1> QED
  BY <1>1, <1>2, GcInvariant, PTL DEF GcSpec

\* A published phase always has a row that serves it: stale slices, repairs and
\* orphaned chains never take the last one away.
THEOREM GcOwnedPhase == GcSpec => []OwnedPhase
<1>1. GcInit => OwnerInv
  BY Zenon, OwnerInit
<1>2. GcInv /\ OwnerInv /\ [GcNext]_vars => OwnerInv'
  BY Zenon, OwnerStep
<1>3. OwnerInv => OwnedPhase
  BY Zenon DEF OwnerInv, Owned, OwnerRow, OwnedPhase
<1> QED
  BY <1>1, <1>2, <1>3, GcInvariant, PTL DEF GcSpec

=============================================================================
