----------------------------- MODULE GcChainInv -----------------------------
(***************************************************************************)
(* Two inductive invariants.  The store's, with its proof and theorems:    *)
(* for every repository, client and number of pushes, the object store     *)
(* keeps its types, every ref and every link of a live object resolves,    *)
(* and live packs have their bytes.  And the collector's, which builds on  *)
(* it: its walk, its builds, its job rows and its slices; with what a step *)
(* has to show when it leaves most of them alone, and its proof through    *)
(* the build, its retries and restarts, the swap and the sweep.            *)
(***************************************************************************)
EXTENDS GcChain, TLAPS

-----------------------------------------------------------------------------
(* The inductive invariant of the store. *)

\* A pack id that has no row yet is unused everywhere.
FreshPacks == \A p \in Packs : packState[p] = "none" =>
    objects[p] = {} /\ packPush[p] = Null /\ p \notin r2

\* An edge worker that holds a pack created it; what is indexed is part of
\* what it sends.
Uploading == \A u \in Pushes :
    /\ edge[u].pc \in {"ingest", "durable"} => edge[u].pack # Null
    /\ edge[u].pack # Null =>
          /\ packPush[edge[u].pack] = u
          /\ packState[edge[u].pack] # "none"
          /\ objects[edge[u].pack] \subseteq edge[u].content
          /\ edge[u].content # {}

\* A worker that has not indexed anything, or is done, has no pack.
BegunHasNoPack == \A u \in Pushes :
    /\ pushState[u] = "none" => edge[u].pc = "idle"
    /\ edge[u].pc \in {"idle", "begun", "closed"} => edge[u].pack = Null

\* As long as the pack is not taken away, it is durable after PackWriter's
\* finish and fully indexed after the last index call.
Durable == \A u \in Pushes :
    edge[u].pack # Null /\ packState[edge[u].pack] = "ingesting" =>
        /\ edge[u].pc \in {"durable", "check"} => edge[u].pack \in r2
        /\ edge[u].pc = "check" => objects[edge[u].pack] = edge[u].content

\* While the collector has not moved the epoch, every link of the pack is
\* live, in the pack itself, or still to be looked up.
LinksChecked == \A u \in Pushes :
    /\ edge[u].pc = "check"
    /\ edge[u].pack # Null
    /\ packState[edge[u].pack] = "ingesting"
    /\ pushEpoch[u] = gc_epoch
    => LinksOf(edge[u].content) \subseteq LiveObjects \cup edge[u].content \cup edge[u].todo

\* The epoch a push has read is never ahead of the store's.
EpochOrder == \A u \in Pushes : pushEpoch[u] <= gc_epoch

\* The janitor only deletes dead packs.
DoomedDead == \A p \in doomed : packState[p] = "dead"

StoreInv ==
    /\ StoreTypeOK
    /\ FreshPacks
    /\ Uploading
    /\ BegunHasNoPack
    /\ Durable
    /\ LinksChecked
    /\ EpochOrder
    /\ DoomedDead
    /\ LiveClosed
    /\ LiveBytes

-----------------------------------------------------------------------------
(* Frames. *)

\* What a step that writes no live pack and no ref has to show: the tables it
\* may touch, and the rest of the invariant follows.
LEMMA LiveUnchanged ==
    ASSUME StoreInv, refs' = refs, gc_epoch' = gc_epoch,
           LivePacks' = LivePacks, LivePacks \subseteq r2',
           \A p \in LivePacks : objects'[p] = objects[p]
    PROVE  /\ LiveObjects' = LiveObjects
           /\ LiveClosed'
           /\ LiveBytes'
<1>1. LiveObjects' = LiveObjects
  BY Zenon DEF LiveObjects, ObjectsIn
<1>2. LiveClosed'
  BY Zenon, <1>1 DEF LiveClosed, RefTargets, LinksOf, StoreInv
<1>3. LiveBytes'
  BY Zenon DEF LiveBytes, StoreInv
<1> QED
  BY Zenon, <1>1, <1>2, <1>3

\* A step of the edge that leaves the packs alone: it only moves its own
\* program counter, its own push row and the links it has checked.
LEMMA EdgeOnly ==
    ASSUME StoreInv, StoreTypeOK',
           UNCHANGED <<refs, refs_version, gc_epoch, packState, packPush, objects, r2, doomed>>,
           EpochOrder', Uploading', BegunHasNoPack', Durable', LinksChecked'
    PROVE  StoreInv'
<1>1. LivePacks' = LivePacks /\ LivePacks \subseteq r2'
  BY Zenon DEF LivePacks, StoreInv, LiveBytes
<1>2. LiveClosed' /\ LiveBytes'
  BY Zenon, <1>1, LiveUnchanged
<1> QED
  BY Zenon, <1>2 DEF StoreInv, FreshPacks, DoomedDead

\* A step that leaves the tables, R2 and the edge workers alone keeps the invariant.
LEMMA StoreStutter == StoreInv /\ UNCHANGED storeVars => StoreInv'
<1> SUFFICES ASSUME StoreInv, UNCHANGED storeVars PROVE StoreInv'
  OBVIOUS
<1>1. UNCHANGED <<refs, refs_version, gc_epoch, packState, packPush, objects, r2,
                  pushState, pushEpoch, edge, doomed>>
  BY Zenon DEF storeVars
<1>2. StoreTypeOK'
  BY Zenon, <1>1 DEF StoreInv, StoreTypeOK
<1>3. EpochOrder' /\ Uploading' /\ BegunHasNoPack' /\ Durable'
  BY Zenon, <1>1 DEF StoreInv, EpochOrder, Uploading, BegunHasNoPack, Durable
<1>4. LinksChecked'
  BY <1>1 DEF StoreInv, LinksChecked, LiveObjects, LivePacks, ObjectsIn
<1> QED
  BY Zenon, <1>1, <1>2, <1>3, <1>4, EdgeOnly

-----------------------------------------------------------------------------
(* The initial state. *)

\* StoreInit establishes the invariant: the seed packs are live, closed under
\* links and hold every ref target.
LEMMA StoreInitInv == StoreInit => StoreInv
<1> SUFFICES ASSUME StoreInit PROVE StoreInv
  OBVIOUS
<1> USE DEF StoreInit
<1>1. StoreTypeOK
  BY Zenon, SeedAssumption, NullAssumption
  DEF StoreTypeOK, PackStates, PushStates, Stages, IdleEdge, SeedPacks, Target
<1>2. LiveObjects = SeedObjects
  BY Zenon, SeedAssumption DEF LiveObjects, LivePacks, ObjectsIn, SeedPacks, SeedObjects
<1>3. LiveClosed
  BY Zenon, <1>2, SeedAssumption DEF LiveClosed, RefTargets
<1>4. LiveBytes
  BY Zenon, SeedAssumption DEF LiveBytes, LivePacks, SeedPacks
<1>5. FreshPacks
  BY Zenon, SeedAssumption DEF FreshPacks, SeedPacks
<1>6. Uploading /\ BegunHasNoPack /\ Durable /\ LinksChecked
  BY Zenon DEF Uploading, BegunHasNoPack, Durable, LinksChecked, IdleEdge
<1>7. EpochOrder /\ DoomedDead
  BY DEF EpochOrder, DoomedDead
<1> QED
  BY Zenon, <1>1, <1>3, <1>4, <1>5, <1>6, <1>7 DEF StoreInv

-----------------------------------------------------------------------------
(* The edge's steps. *)

\* push_begin keeps it: the new push has the current epoch and no pack.
LEMMA PushBeginInv == \A u \in Pushes : StoreInv /\ PushBegin(u) => StoreInv'
<1> SUFFICES ASSUME NEW u \in Pushes, StoreInv, PushBegin(u) PROVE StoreInv'
  OBVIOUS
<1> USE DEF PushBegin, refVars, packVars
<1>1. StoreTypeOK'
  BY ZenonT(30) DEF StoreInv, StoreTypeOK, PushStates, Stages
<1>2. EpochOrder'
  BY DEF StoreInv, StoreTypeOK, EpochOrder
<1>3. \A v \in Pushes : /\ edge'[v].pack = edge[v].pack /\ edge'[v].content = edge[v].content
                        /\ edge'[v].todo = edge[v].todo
                        /\ v # u => edge'[v].pc = edge[v].pc /\ pushEpoch'[v] = pushEpoch[v]
                        /\ edge'[u].pc = "begun"
  BY Zenon DEF StoreInv, StoreTypeOK
<1>4. edge[u].pack = Null
  BY Zenon DEF StoreInv, BegunHasNoPack
<1>5. Uploading' /\ Durable' /\ BegunHasNoPack'
  BY <1>3, <1>4 DEF StoreInv, StoreTypeOK, Uploading, Durable, BegunHasNoPack
<1>6. LinksChecked'
  BY <1>3 DEF StoreInv, LinksChecked, LiveObjects, LivePacks, ObjectsIn
<1> QED
  BY Zenon, <1>1, <1>2, <1>5, <1>6, EdgeOnly

\* A push without a pack (deletions only) goes straight to its commit.
LEMMA PushNoPackInv == \A u \in Pushes : StoreInv /\ PushNoPack(u) => StoreInv'
<1> SUFFICES ASSUME NEW u \in Pushes, StoreInv, PushNoPack(u) PROVE StoreInv'
  OBVIOUS
<1> USE DEF PushNoPack, refVars, packVars
<1>1. StoreTypeOK' /\ EpochOrder'
  BY Zenon DEF StoreInv, StoreTypeOK, Stages, EpochOrder
<1>2. \A v \in Pushes : /\ edge'[v].pack = edge[v].pack /\ edge'[v].content = edge[v].content
                        /\ edge'[v].todo = edge[v].todo
                        /\ v # u => edge'[v].pc = edge[v].pc
                        /\ edge'[u].pc = "check"
  BY Zenon DEF StoreInv, StoreTypeOK
<1>3. edge[u].pack = Null
  BY Zenon DEF StoreInv, BegunHasNoPack
<1>4. Uploading' /\ Durable' /\ BegunHasNoPack'
  BY <1>2, <1>3 DEF StoreInv, Uploading, Durable, BegunHasNoPack
<1>5. LinksChecked'
  BY <1>2, <1>3 DEF StoreInv, LinksChecked, LiveObjects, LivePacks, ObjectsIn
<1> QED
  BY Zenon, <1>1, <1>4, <1>5, EdgeOnly

\* The first push_index call keeps it: the pack id it inserts is unused.
LEMMA PushIndexFirstInv ==
    \A u \in Pushes, p \in Packs, c \in PackContents :
        StoreInv /\ PushIndexFirst(u, p, c) => StoreInv'
<1> SUFFICES ASSUME NEW u \in Pushes, NEW p \in Packs, NEW c \in PackContents,
                    StoreInv, PushIndexFirst(u, p, c)
             PROVE  StoreInv'
  OBVIOUS
<1> USE DEF PushIndexFirst, refVars
<1>1. StoreTypeOK' /\ EpochOrder'
  BY Zenon, ClientAssumption DEF StoreInv, StoreTypeOK, Stages, PackStates, EpochOrder
<1>2. LivePacks' = LivePacks /\ LivePacks \subseteq r2'
  BY Zenon DEF StoreInv, StoreTypeOK, LivePacks, LiveBytes
<1>3. LiveObjects' = LiveObjects /\ LiveClosed' /\ LiveBytes'
  BY Zenon, <1>2, LiveUnchanged
<1>4. \A v \in Pushes : v # u => edge'[v] = edge[v] /\ edge[v].pack # p
  BY NullAssumption DEF StoreInv, StoreTypeOK, Uploading
<1>5. /\ edge'[u].pack = p /\ edge'[u].content = c /\ edge'[u].pc = "ingest"
      /\ c # {} /\ objects[p] = {} /\ packState'[p] = "ingesting" /\ packPush'[p] = u
  BY Zenon, ClientAssumption DEF StoreInv, StoreTypeOK, FreshPacks
<1>6. \A q \in Packs : q # p => packState'[q] = packState[q] /\ packPush'[q] = packPush[q]
  BY Zenon DEF StoreInv, StoreTypeOK
<1>7. \A v \in Pushes : edge[v].pack \in Packs \cup {Null}
  BY Zenon DEF StoreInv, StoreTypeOK
<1>8. Uploading'
  BY <1>4, <1>5, <1>6, <1>7, NullAssumption DEF StoreInv, Uploading
<1>9. Durable' /\ LinksChecked' /\ BegunHasNoPack'
  BY <1>3, <1>4, <1>5, <1>6, <1>7 DEF StoreInv, Durable, LinksChecked, BegunHasNoPack
<1>10. FreshPacks' /\ DoomedDead'
  BY Zenon, <1>5, <1>6 DEF StoreInv, StoreTypeOK, FreshPacks, DoomedDead
<1> QED
  BY Zenon, <1>1, <1>3, <1>8, <1>9, <1>10 DEF StoreInv

\* An index call adds rows to the push's own pack, which is not live.
LEMMA IndexedInv ==
    ASSUME NEW u \in Pushes, StoreInv, IndexAccepts(u), edge[u].pack # Null,
           NEW rows \in SUBSET edge[u].content,
           objects' = [objects EXCEPT ![edge[u].pack] = @ \cup rows],
           UNCHANGED <<refs, refs_version, gc_epoch, packState, packPush, r2,
                       pushState, pushEpoch, doomed>>
    PROVE  /\ objects' \in [Packs -> SUBSET Oid]
           /\ LiveObjects' = LiveObjects /\ LiveClosed' /\ LiveBytes'
           /\ FreshPacks' /\ DoomedDead' /\ EpochOrder'
           /\ \A v \in Pushes : v # u /\ edge[v].pack # Null
                  => objects'[edge[v].pack] = objects[edge[v].pack]
           /\ objects'[edge[u].pack] = objects[edge[u].pack] \cup rows
<1> DEFINE p == edge[u].pack
<1>1. p \in Packs /\ edge[u].content \subseteq Oid /\ packState[p] = "ingesting" /\ packPush[p] = u
  BY Zenon DEF StoreInv, StoreTypeOK, IndexAccepts
<1>2. \A q \in Packs : q # p => objects'[q] = objects[q]
  BY Zenon, <1>1 DEF StoreInv, StoreTypeOK
<1>3. objects' \in [Packs -> SUBSET Oid] /\ objects'[p] = objects[p] \cup rows
  BY Zenon, <1>1 DEF StoreInv, StoreTypeOK
<1>4. LivePacks' = LivePacks /\ LivePacks \subseteq r2'
  BY Zenon DEF StoreInv, LivePacks, LiveBytes
<1>5. \A q \in LivePacks : objects'[q] = objects[q]
  BY Zenon, <1>1, <1>2 DEF LivePacks
<1>6. LiveObjects' = LiveObjects /\ LiveClosed' /\ LiveBytes'
  BY Zenon, <1>4, <1>5, LiveUnchanged
<1>7. FreshPacks' /\ DoomedDead' /\ EpochOrder'
  BY Zenon, <1>1, <1>2 DEF StoreInv, FreshPacks, DoomedDead, EpochOrder
<1>8. \A v \in Pushes : v # u /\ edge[v].pack # Null
                  => objects'[edge[v].pack] = objects[edge[v].pack]
  BY <1>1, <1>2 DEF StoreInv, StoreTypeOK, Uploading
<1> QED
  BY Zenon, <1>3, <1>6, <1>7, <1>8

\* A push_index call in the middle keeps it: it adds rows to the push's own pack.
LEMMA PushIndexRowsInv ==
    \A u \in Pushes : \A rows \in SUBSET edge[u].content :
        StoreInv /\ PushIndexRows(u, rows) => StoreInv'
<1> SUFFICES ASSUME NEW u \in Pushes, NEW rows \in SUBSET edge[u].content,
                    StoreInv, PushIndexRows(u, rows)
             PROVE  StoreInv'
  OBVIOUS
<1> USE DEF PushIndexRows, refVars, pushVars
<1>1. edge[u].pack # Null
  BY Zenon DEF StoreInv, Uploading
<1>2. /\ objects' \in [Packs -> SUBSET Oid]
      /\ LiveObjects' = LiveObjects /\ LiveClosed' /\ LiveBytes'
      /\ FreshPacks' /\ DoomedDead' /\ EpochOrder'
      /\ \A v \in Pushes : v # u /\ edge[v].pack # Null
            => objects'[edge[v].pack] = objects[edge[v].pack]
      /\ objects'[edge[u].pack] = objects[edge[u].pack] \cup rows
  BY Zenon, <1>1, IndexedInv
<1>3. StoreTypeOK'
  BY Zenon, <1>2 DEF StoreInv, StoreTypeOK
<1>4. Uploading' /\ Durable' /\ BegunHasNoPack'
  BY <1>2 DEF StoreInv, Uploading, Durable, BegunHasNoPack
<1>5. LinksChecked'
  BY Zenon, <1>2 DEF StoreInv, LinksChecked
<1> QED
  BY Zenon, <1>2, <1>3, <1>4, <1>5 DEF StoreInv

\* PackWriter::finish keeps it: the bytes it stores are those of an ingesting pack.
LEMMA PackFinishInv == \A u \in Pushes : StoreInv /\ PackFinish(u) => StoreInv'
<1> SUFFICES ASSUME NEW u \in Pushes, StoreInv, PackFinish(u) PROVE StoreInv'
  OBVIOUS
<1> USE DEF PackFinish, refVars, packVars
<1>1. edge[u].pack \in Packs /\ packState[edge[u].pack] # "none"
  BY Zenon DEF StoreInv, StoreTypeOK, Uploading
<1>2. StoreTypeOK' /\ EpochOrder'
  BY ZenonT(30), <1>1 DEF StoreInv, StoreTypeOK, Stages, EpochOrder
<1>3. LivePacks' = LivePacks /\ LivePacks \subseteq r2'
  BY Zenon DEF StoreInv, LivePacks, LiveBytes
<1>4. LiveObjects' = LiveObjects /\ LiveClosed' /\ LiveBytes'
  BY Zenon, <1>3, LiveUnchanged
<1>5. \A v \in Pushes : /\ edge'[v].pack = edge[v].pack /\ edge'[v].content = edge[v].content
                        /\ edge'[v].todo = edge[v].todo
                        /\ v # u => edge'[v].pc = edge[v].pc
                        /\ edge'[u].pc = "durable"
  BY Zenon DEF StoreInv, StoreTypeOK
<1>6. Uploading' /\ Durable' /\ BegunHasNoPack'
  BY <1>1, <1>5, NullAssumption DEF StoreInv, Uploading, Durable, BegunHasNoPack
<1>7. LinksChecked'
  BY Zenon, <1>4, <1>5 DEF StoreInv, LinksChecked
<1>8. FreshPacks' /\ DoomedDead'
  BY Zenon, <1>1 DEF StoreInv, FreshPacks, DoomedDead
<1> QED
  BY Zenon, <1>2, <1>4, <1>6, <1>7, <1>8 DEF StoreInv

\* The last push_index call keeps it: all rows are in, all links are to be checked.
LEMMA PushIndexTailInv == \A u \in Pushes : StoreInv /\ PushIndexTail(u) => StoreInv'
<1> SUFFICES ASSUME NEW u \in Pushes, StoreInv, PushIndexTail(u) PROVE StoreInv'
  OBVIOUS
<1>1. edge[u].pack # Null /\ edge[u].content \in SUBSET Oid /\ edge[u].pc = "durable"
  BY Zenon DEF PushIndexTail, StoreInv, StoreTypeOK, Uploading
<1>2. UNCHANGED <<refs, refs_version, gc_epoch, packState, packPush, r2,
                  pushState, pushEpoch, doomed>>
  BY Zenon DEF PushIndexTail, refVars
<1>3. /\ objects' \in [Packs -> SUBSET Oid]
      /\ LiveObjects' = LiveObjects /\ LiveClosed' /\ LiveBytes'
      /\ FreshPacks' /\ DoomedDead' /\ EpochOrder'
      /\ \A v \in Pushes : v # u /\ edge[v].pack # Null
            => objects'[edge[v].pack] = objects[edge[v].pack]
      /\ objects'[edge[u].pack] = objects[edge[u].pack] \cup edge[u].content
  <2>1. IndexAccepts(u) /\ objects' = [objects EXCEPT ![edge[u].pack] = @ \cup edge[u].content]
    BY Zenon DEF PushIndexTail
  <2> QED
    BY Zenon, <1>1, <1>2, <2>1, IndexedInv
<1>4. LinksOf(edge[u].content) \subseteq Oid
  BY Zenon, <1>1, LinksAssumption DEF LinksOf
<1>5. edge' \in [Pushes -> [pc : Stages, pack : Packs \cup {Null},
                            content : SUBSET Oid, todo : SUBSET Oid]]
  <2>1. edge \in [Pushes -> [pc : Stages, pack : Packs \cup {Null},
                             content : SUBSET Oid, todo : SUBSET Oid]]
    BY Zenon DEF StoreInv, StoreTypeOK
  <2>2. edge' = [edge EXCEPT ![u].pc = "check", ![u].todo = LinksOf(edge[u].content)]
    BY Zenon DEF PushIndexTail
  <2>3. "check" \in Stages
    BY Zenon DEF Stages
  <2> QED
    BY Zenon, <1>4, <2>1, <2>2, <2>3
<1>6. StoreTypeOK'
  BY Zenon, <1>2, <1>3, <1>5 DEF StoreInv, StoreTypeOK
<1>7. \A v \in Pushes : /\ edge'[v].pack = edge[v].pack /\ edge'[v].content = edge[v].content
                        /\ v # u => edge'[v] = edge[v]
                        /\ edge'[u].pc = "check"
                        /\ edge'[u].todo = LinksOf(edge[u].content)
  BY Zenon DEF PushIndexTail, StoreInv, StoreTypeOK
<1>8. Uploading' /\ BegunHasNoPack'
  BY <1>1, <1>2, <1>3, <1>7 DEF StoreInv, Uploading, BegunHasNoPack
<1>9. Durable'
  <2>1. objects'[edge[u].pack] = edge[u].content
    BY Zenon, <1>1, <1>3 DEF StoreInv, Uploading
  <2> QED
    BY <1>1, <1>2, <1>3, <1>7, <2>1 DEF StoreInv, Durable
<1>10. LinksChecked'
  BY <1>2, <1>3, <1>7 DEF StoreInv, LinksChecked
<1> QED
  BY Zenon, <1>3, <1>6, <1>8, <1>9, <1>10 DEF StoreInv

\* A lookup chunk keeps it: what it ticks off is live or in the pack.
LEMMA PushLookupInv ==
    \A u \in Pushes : \A chunk \in SUBSET edge[u].todo :
        StoreInv /\ PushLookup(u, chunk) => StoreInv'
<1> SUFFICES ASSUME NEW u \in Pushes, NEW chunk \in SUBSET edge[u].todo,
                    StoreInv, PushLookup(u, chunk)
             PROVE  StoreInv'
  OBVIOUS
<1> USE DEF PushLookup, refVars, packVars
<1>1. StoreTypeOK' /\ EpochOrder'
  BY Zenon DEF StoreInv, StoreTypeOK, EpochOrder
<1>2. \A v \in Pushes : /\ edge'[v].pack = edge[v].pack /\ edge'[v].content = edge[v].content
                        /\ edge'[v].pc = edge[v].pc
                        /\ v # u => edge'[v].todo = edge[v].todo
                        /\ edge'[u].todo = edge[u].todo \ chunk
  BY Zenon DEF StoreInv, StoreTypeOK
<1>3. Uploading' /\ Durable' /\ BegunHasNoPack'
  BY <1>2 DEF StoreInv, Uploading, Durable, BegunHasNoPack
<1>4. edge[u].pack # Null => chunk \subseteq LiveObjects \cup edge[u].content
  BY Zenon DEF StoreInv, Uploading
<1>5. LiveObjects' = LiveObjects
  BY Zenon DEF LiveObjects, LivePacks, ObjectsIn
<1>6. LinksChecked'
  BY ZenonT(30), <1>2, <1>4, <1>5 DEF StoreInv, LinksChecked
<1> QED
  BY Zenon, <1>1, <1>3, <1>6, EdgeOnly

\* The edge worker is done with a push: whatever its row becomes, it holds no
\* pack any more.
LEMMA EdgeClosed ==
    ASSUME NEW u \in Pushes, StoreInv, edge[u].pc # "idle",
           NEW state \in PushStates \ {"none"},
           pushState' = [pushState EXCEPT ![u] = state],
           edge' = [edge EXCEPT ![u] = [IdleEdge EXCEPT !.pc = "closed"]],
           UNCHANGED pushEpoch
    PROVE  /\ pushState' \in [Pushes -> PushStates]
           /\ edge' \in [Pushes -> [pc : Stages, pack : Packs \cup {Null},
                                    content : SUBSET Oid, todo : SUBSET Oid]]
           /\ \A v \in Pushes : v # u => edge'[v] = edge[v]
           /\ edge'[u].pc = "closed" /\ edge'[u].pack = Null
           /\ BegunHasNoPack'
<1>1. /\ edge' \in [Pushes -> [pc : Stages, pack : Packs \cup {Null},
                               content : SUBSET Oid, todo : SUBSET Oid]]
      /\ pushState' \in [Pushes -> PushStates]
  BY Zenon DEF StoreInv, StoreTypeOK, IdleEdge, Stages
<1>2. /\ \A v \in Pushes : v # u => edge'[v] = edge[v]
      /\ edge'[u].pc = "closed" /\ edge'[u].pack = Null
  BY Zenon DEF StoreInv, StoreTypeOK, IdleEdge
<1>3. BegunHasNoPack'
  BY Zenon, <1>2 DEF StoreInv, StoreTypeOK, BegunHasNoPack
<1> QED
  BY Zenon, <1>1, <1>2, <1>3

\* Closing a push and changing nothing else keeps the invariant.
LEMMA ClosedInv ==
    ASSUME NEW u \in Pushes, StoreInv, edge[u].pc # "idle",
           NEW state \in PushStates \ {"none"},
           pushState' = [pushState EXCEPT ![u] = state],
           edge' = [edge EXCEPT ![u] = [IdleEdge EXCEPT !.pc = "closed"]],
           UNCHANGED <<refs, refs_version, gc_epoch, packState, packPush, objects, r2,
                       pushEpoch, doomed>>
    PROVE  StoreInv'
<1>1. /\ pushState' \in [Pushes -> PushStates]
      /\ edge' \in [Pushes -> [pc : Stages, pack : Packs \cup {Null},
                               content : SUBSET Oid, todo : SUBSET Oid]]
      /\ \A v \in Pushes : v # u => edge'[v] = edge[v]
      /\ edge'[u].pc = "closed" /\ edge'[u].pack = Null
      /\ BegunHasNoPack'
  BY Zenon, EdgeClosed
<1>2. StoreTypeOK' /\ EpochOrder'
  BY Zenon, <1>1 DEF StoreInv, StoreTypeOK, EpochOrder
<1>3. Uploading' /\ Durable'
  BY ZenonT(30), <1>1 DEF StoreInv, Uploading, Durable
<1>4. LiveObjects' = LiveObjects
  BY Zenon DEF LiveObjects, LivePacks, ObjectsIn
<1>5. LinksChecked'
  BY Zenon, <1>1, <1>4 DEF StoreInv, LinksChecked
<1> QED
  BY Zenon, <1>1, <1>2, <1>3, <1>5, EdgeOnly

\* The edge's error path, with its push abort, keeps it.
LEMMA EdgeFailInv == \A u \in Pushes : StoreInv /\ EdgeFail(u) => StoreInv'
<1> SUFFICES ASSUME NEW u \in Pushes, StoreInv, EdgeFail(u) PROVE StoreInv'
  OBVIOUS
<1> DEFINE state == IF pushState[u] = "open" THEN "dead" ELSE pushState[u]
<1>1. state \in PushStates \ {"none"} /\ pushState' = [pushState EXCEPT ![u] = state]
  BY Zenon DEF EdgeFail, StoreInv, StoreTypeOK, PushStates, BegunHasNoPack
<1>2. /\ edge[u].pc # "idle"
      /\ edge' = [edge EXCEPT ![u] = [IdleEdge EXCEPT !.pc = "closed"]]
      /\ UNCHANGED <<refs, refs_version, gc_epoch, packState, packPush, objects, r2,
                     pushEpoch, doomed>>
  BY Zenon DEF EdgeFail, refVars, packVars
<1> HIDE DEF state
<1> QED
  BY Zenon, <1>1, <1>2, ClosedInv

\* The loss of an edge worker keeps it: nothing of it was written by others.
LEMMA EdgeCrashInv == \A u \in Pushes : StoreInv /\ EdgeCrash(u) => StoreInv'
<1> SUFFICES ASSUME NEW u \in Pushes, StoreInv, EdgeCrash(u) PROVE StoreInv'
  OBVIOUS
<1> DEFINE state == pushState[u]
<1>1. state \in PushStates \ {"none"} /\ pushState' = [pushState EXCEPT ![u] = state]
  BY Zenon DEF EdgeCrash, StoreInv, StoreTypeOK, PushStates, BegunHasNoPack
<1>2. /\ edge[u].pc # "idle"
      /\ edge' = [edge EXCEPT ![u] = [IdleEdge EXCEPT !.pc = "closed"]]
      /\ UNCHANGED <<refs, refs_version, gc_epoch, packState, packPush, objects, r2,
                     pushEpoch, doomed>>
  BY Zenon DEF EdgeCrash, refVars, packVars
<1> HIDE DEF state
<1> QED
  BY Zenon, <1>1, <1>2, ClosedInv

\* Every step of an edge worker keeps the invariant.
LEMMA EdgeStepInv == StoreInv /\ EdgeStep => StoreInv'
  BY Zenon, PushBeginInv, PushNoPackInv, PushIndexFirstInv, PushIndexRowsInv, PackFinishInv,
     PushIndexTailInv, PushLookupInv, EdgeFailInv, EdgeCrashInv
  DEF EdgeStep

-----------------------------------------------------------------------------
(* The janitor's steps. *)

\* The janitor's first span keeps it: it kills packs of closed pushes only, none live.
LEMMA JanitorMarkInv ==
    \A expired \in SUBSET Pushes, killed \in SUBSET Packs :
        StoreInv /\ JanitorMark(expired, killed) => StoreInv'
<1> SUFFICES ASSUME NEW expired \in SUBSET Pushes, NEW killed \in SUBSET Packs,
                    StoreInv, JanitorMark(expired, killed)
             PROVE  StoreInv'
  OBVIOUS
<1>1. UNCHANGED <<refs, refs_version, gc_epoch, packPush, r2, pushEpoch, edge, doomed>>
  BY Zenon DEF JanitorMark, refVars
<1>2. \A p \in Packs : /\ p \in killed => /\ packState[p] = "ingesting"
                                          /\ packState'[p] = "dead" /\ objects'[p] = {}
                       /\ p \notin killed => /\ packState'[p] = packState[p]
                                             /\ objects'[p] = objects[p]
  BY Zenon DEF JanitorMark, Abandoned
<1>3. \A u \in Pushes : pushState'[u] = "none" <=> pushState[u] = "none"
  BY Zenon DEF JanitorMark, OpenPushes
<1>4. StoreTypeOK'
  BY Zenon, <1>1 DEF JanitorMark, StoreInv, StoreTypeOK, PackStates, PushStates
<1>5. LivePacks' = LivePacks /\ LivePacks \subseteq r2'
  BY Zenon, <1>1, <1>2 DEF StoreInv, LivePacks, LiveBytes
<1>6. LiveObjects' = LiveObjects /\ LiveClosed' /\ LiveBytes'
  BY Zenon, <1>1, <1>2, <1>5, LiveUnchanged DEF LivePacks
<1>7. \A u \in Pushes : edge[u].pack \in Packs \cup {Null}
  BY Zenon DEF StoreInv, StoreTypeOK
<1>8. Uploading' /\ BegunHasNoPack'
  BY <1>1, <1>2, <1>3, <1>7 DEF StoreInv, Uploading, BegunHasNoPack
<1>9. Durable' /\ LinksChecked'
  BY <1>1, <1>2, <1>6, <1>7 DEF StoreInv, Durable, LinksChecked
<1>10. FreshPacks' /\ DoomedDead' /\ EpochOrder'
  BY Zenon, <1>1, <1>2 DEF StoreInv, StoreTypeOK, FreshPacks, DoomedDead, EpochOrder
<1> QED
  BY Zenon, <1>4, <1>6, <1>8, <1>9, <1>10 DEF StoreInv

\* The janitor's deletions touch dead packs only.
LEMMA JanitorDeletesInv ==
    ASSUME StoreInv,
           \/ \E chosen \in SUBSET Packs : JanitorSelect(chosen)
           \/ \E p \in Packs : JanitorDeleteBytes(p)
           \/ \E p \in Packs : JanitorDeleteRow(p)
           \/ JanitorStop
    PROVE  StoreInv'
<1> USE DEF JanitorSelect, JanitorDeleteBytes, JanitorDeleteRow, JanitorStop, Deletable
<1>1. UNCHANGED <<refs, refs_version, gc_epoch, packPush, objects, pushState, pushEpoch, edge>>
  BY Zenon DEF refVars, packVars, pushVars
<1>2. \A p \in Packs : /\ packState[p] # "dead" =>
                             packState'[p] = packState[p] /\ (p \in r2' <=> p \in r2)
                       /\ packState[p] = "dead" => packState'[p] \in {"dead", "gone"}
  BY Zenon DEF StoreInv, StoreTypeOK, DoomedDead, packVars
<1>3. StoreTypeOK'
  BY Zenon, <1>1 DEF StoreInv, StoreTypeOK, PackStates, packVars
<1>4. DoomedDead'
  BY Zenon DEF StoreInv, StoreTypeOK, DoomedDead, packVars
<1> HIDE DEF JanitorSelect, JanitorDeleteBytes, JanitorDeleteRow, JanitorStop, Deletable
<1>5. LivePacks' = LivePacks /\ LivePacks \subseteq r2'
  BY Zenon, <1>2 DEF StoreInv, LivePacks, LiveBytes
<1>6. LiveObjects' = LiveObjects /\ LiveClosed' /\ LiveBytes'
  BY Zenon, <1>1, <1>5, LiveUnchanged
<1>7. \A u \in Pushes : edge[u].pack \in Packs \cup {Null}
  BY Zenon DEF StoreInv, StoreTypeOK
<1>8. Uploading' /\ BegunHasNoPack' /\ EpochOrder'
  BY Zenon, <1>1, <1>2, <1>7 DEF StoreInv, Uploading, BegunHasNoPack, EpochOrder
<1>9. Durable' /\ LinksChecked'
  BY Zenon, <1>1, <1>2, <1>6, <1>7 DEF StoreInv, Durable, LinksChecked
<1>10. FreshPacks'
  BY Zenon, <1>1, <1>2, <1>3 DEF StoreInv, StoreTypeOK, FreshPacks
<1> QED
  BY Zenon, <1>3, <1>4, <1>6, <1>8, <1>9, <1>10 DEF StoreInv

\* Every step of the janitor keeps the invariant.
LEMMA JanitorStepInv == StoreInv /\ JanitorStep => StoreInv'
  BY Zenon, JanitorMarkInv, JanitorDeletesInv DEF JanitorStep

-----------------------------------------------------------------------------
(* The commit. *)

\* A refused commit (wrong state or epoch) keeps it.
LEMMA CommitRejectedInv == \A u \in Pushes : StoreInv /\ CommitRejected(u) => StoreInv'
<1> SUFFICES ASSUME NEW u \in Pushes, StoreInv, CommitRejected(u) PROVE StoreInv'
  OBVIOUS
<1>1. edge[u].pc # "idle" /\ "rejected" \in PushStates \ {"none"}
  BY Zenon DEF CommitRejected, Ready, PushStates
<1>2. /\ pushState' = [pushState EXCEPT ![u] = "rejected"]
      /\ edge' = [edge EXCEPT ![u] = [IdleEdge EXCEPT !.pc = "closed"]]
      /\ UNCHANGED <<refs, refs_version, gc_epoch, packState, packPush, objects, r2,
                     pushEpoch, doomed>>
  BY Zenon DEF CommitRejected, FinishPush, refVars, packVars
<1> QED
  BY Zenon, <1>1, <1>2, ClosedInv

\* An atomic push that fails its dry run keeps it: no ref and no pack changes.
LEMMA CommitAtomicFailedInv ==
    \A u \in Pushes, cmds \in CommandSets : \A refused \in SUBSET DOMAIN cmds :
        StoreInv /\ CommitAtomicFailed(u, cmds, refused) => StoreInv'
<1> SUFFICES ASSUME NEW u \in Pushes, NEW cmds \in CommandSets,
                    NEW refused \in SUBSET DOMAIN cmds,
                    StoreInv, CommitAtomicFailed(u, cmds, refused)
             PROVE  StoreInv'
  OBVIOUS
<1>1. edge[u].pc # "idle" /\ "rejected" \in PushStates \ {"none"}
  BY Zenon DEF CommitAtomicFailed, CommitAccepts, Ready, PushStates
<1>2. /\ pushState' = [pushState EXCEPT ![u] = "rejected"]
      /\ edge' = [edge EXCEPT ![u] = [IdleEdge EXCEPT !.pc = "closed"]]
      /\ UNCHANGED <<refs, refs_version, gc_epoch, packState, packPush, objects, r2,
                     pushEpoch, doomed>>
  BY Zenon DEF CommitAtomicFailed, FinishPush, refVars, packVars
<1> QED
  BY Zenon, <1>1, <1>2, ClosedInv

\* A commit makes the push's pack live, if it has one, and adds its objects to
\* the live ones.
LEMMA CommitPushLive ==
    ASSUME NEW u \in Pushes, NEW cmds \in CommandSets, NEW refused \in SUBSET DOMAIN cmds,
           StoreInv, CommitPush(u, cmds, refused)
    PROVE  /\ LiveObjects' = LiveWith(edge[u].pack)
           /\ \A p \in Packs : packState'[p] = IF p = edge[u].pack THEN "live" ELSE packState[p]
           /\ edge[u].pack # Null => packState[edge[u].pack] = "ingesting"
<1>1. edge[u].pack \in Packs \cup {Null} /\ packState \in [Packs -> PackStates] /\ objects' = objects
  BY Zenon DEF CommitPush, StoreInv, StoreTypeOK
<1>2. \A p \in Packs : packState'[p] = IF p = edge[u].pack THEN "live" ELSE packState[p]
  BY Zenon, <1>1, NullAssumption DEF CommitPush
<1>3. edge[u].pack # Null => packState[edge[u].pack] = "ingesting"
  BY Zenon DEF CommitPush, CommitAccepts
<1>4. LivePacks' = IF edge[u].pack = Null THEN LivePacks ELSE LivePacks \cup {edge[u].pack}
  BY Zenon, <1>1, <1>2, NullAssumption DEF LivePacks
<1>5. LiveObjects' = LiveWith(edge[u].pack)
  BY Zenon, <1>1, <1>4 DEF LiveObjects, ObjectsIn, LiveWith
<1> QED
  BY Zenon, <1>2, <1>3, <1>5

\* commit_push keeps it: the epoch has not moved since the links were looked up, so
\* the pack that goes live links to live objects, and refs move to live objects only.
LEMMA CommitPushInv ==
    \A u \in Pushes, cmds \in CommandSets : \A refused \in SUBSET DOMAIN cmds :
        StoreInv /\ CommitPush(u, cmds, refused) => StoreInv'
<1> SUFFICES ASSUME NEW u \in Pushes, NEW cmds \in CommandSets,
                    NEW refused \in SUBSET DOMAIN cmds,
                    StoreInv, CommitPush(u, cmds, refused)
             PROVE  StoreInv'
  OBVIOUS
<1> DEFINE pack == edge[u].pack
           landed == Landed(u, cmds, refused)
<1>1. /\ LiveObjects' = LiveWith(pack)
      /\ \A p \in Packs : packState'[p] = IF p = pack THEN "live" ELSE packState[p]
      /\ pack # Null => packState[pack] = "ingesting"
  BY Zenon, CommitPushLive
<1>2. /\ edge[u].pc = "check" /\ edge[u].todo = {} /\ pushEpoch[u] = gc_epoch
      /\ pack \in Packs \cup {Null}
      /\ UNCHANGED <<gc_epoch, packPush, objects, r2, doomed, pushEpoch>>
  BY Zenon DEF CommitPush, CommitAccepts, Ready, FinishPush, StoreInv, StoreTypeOK
<1>3. /\ pushState' \in [Pushes -> PushStates]
      /\ edge' \in [Pushes -> [pc : Stages, pack : Packs \cup {Null},
                               content : SUBSET Oid, todo : SUBSET Oid]]
      /\ \A v \in Pushes : v # u => edge'[v] = edge[v]
      /\ edge'[u].pc = "closed" /\ edge'[u].pack = Null
      /\ BegunHasNoPack'
  <2>1. "committed" \in PushStates \ {"none"}
    BY Zenon DEF PushStates
  <2>2. /\ pushState' = [pushState EXCEPT ![u] = "committed"]
        /\ edge' = [edge EXCEPT ![u] = [IdleEdge EXCEPT !.pc = "closed"]]
        /\ UNCHANGED pushEpoch
    BY Zenon DEF CommitPush, FinishPush
  <2> QED
    BY Zenon, <1>2, <2>1, <2>2, EdgeClosed
<1>4. /\ \A r \in landed : r \in DOMAIN cmds /\ (cmds[r].new # Null => cmds[r].new \in LiveWith(pack))
      /\ refs' = [r \in Refs |-> IF r \in landed THEN cmds[r].new ELSE refs[r]]
  BY Zenon DEF CommitPush, Landed, CommandLands
<1>5. StoreTypeOK'
  <2>1. \A r \in landed : cmds[r].new \in Target
    <3>1. cmds \in Commands
      BY Zenon, ClientAssumption
    <3>2. PICK D \in SUBSET Refs : cmds \in [D -> [old : Target, new : Target]]
      BY Zenon, <3>1 DEF Commands
    <3> QED
      BY Zenon, <1>4, <3>2
  <2>2. refs' \in [Refs -> Target]
    BY Zenon, <1>4, <2>1 DEF StoreInv, StoreTypeOK
  <2>3. packState' \in [Packs -> PackStates]
    BY Zenon, <1>2 DEF CommitPush, StoreInv, StoreTypeOK, PackStates
  <2>4. refs_version' \in Nat
    BY DEF CommitPush, StoreInv, StoreTypeOK
  <2> QED
    BY Zenon, <1>2, <1>3, <2>2, <2>3, <2>4 DEF StoreInv, StoreTypeOK
<1>6. pack # Null => /\ objects[pack] = edge[u].content /\ edge[u].content # {} /\ pack \in r2
                     /\ LinksOf(edge[u].content) \subseteq LiveObjects \cup edge[u].content
  BY Zenon, <1>1, <1>2 DEF StoreInv, Uploading, Durable, LinksChecked
<1>7. LiveClosed'
  <2>1. LiveObjects \subseteq LiveObjects'
    BY Zenon, <1>1 DEF LiveWith
  <2>2. RefTargets' \subseteq LiveObjects'
    <3> SUFFICES ASSUME NEW r \in Refs, refs'[r] # Null PROVE refs'[r] \in LiveObjects'
      BY Zenon DEF RefTargets
    <3>1. CASE r \in landed
      BY Zenon, <1>1, <1>4, <3>1
    <3>2. CASE r \notin landed
      BY Zenon, <1>4, <2>1, <3>2 DEF StoreInv, LiveClosed, RefTargets
    <3> QED
      BY Zenon, <3>1, <3>2
  <2>3. LinksOf(LiveObjects') \subseteq LiveObjects'
    <3>1. CASE pack = Null
      BY Zenon, <1>1, <3>1 DEF LiveWith, StoreInv, LiveClosed
    <3>2. CASE pack # Null
      <4>1. LiveObjects' = LiveObjects \cup edge[u].content
        BY Zenon, <1>1, <1>6, <3>2 DEF LiveWith
      <4>2. LinksOf(LiveObjects') = LinksOf(LiveObjects) \cup LinksOf(edge[u].content)
        BY Zenon, <4>1 DEF LinksOf
      <4> QED
        BY Zenon, <1>6, <3>2, <4>1, <4>2 DEF StoreInv, LiveClosed
    <3> QED
      BY Zenon, <3>1, <3>2
  <2> QED
    BY Zenon, <2>2, <2>3 DEF LiveClosed
<1>8. LiveBytes'
  <2> SUFFICES ASSUME NEW p \in Packs, packState'[p] = "live" PROVE p \in r2 /\ objects[p] # {}
    BY Zenon, <1>2 DEF LiveBytes, LivePacks
  <2>1. p = pack \/ packState[p] = "live"
    BY Zenon, <1>1
  <2> QED
    BY Zenon, <1>6, <2>1, NullAssumption DEF StoreInv, LiveBytes, LivePacks
<1>9. FreshPacks' /\ DoomedDead' /\ EpochOrder'
  <2>1. FreshPacks'
    BY Zenon, <1>1, <1>2 DEF StoreInv, FreshPacks
  <2>2. DoomedDead'
    BY Zenon, <1>1, <1>2, NullAssumption DEF StoreInv, StoreTypeOK, DoomedDead
  <2> QED
    BY Zenon, <1>2, <2>1, <2>2 DEF StoreInv, EpochOrder
<1>10. \A v \in Pushes : v # u => edge[v].pack # pack \/ pack = Null
  BY ZenonT(30) DEF StoreInv, Uploading
<1>11. \A v \in Pushes : edge[v].pack \in Packs \cup {Null}
  BY Zenon DEF StoreInv, StoreTypeOK
<1>12. Uploading' /\ Durable'
  BY <1>1, <1>2, <1>3, <1>10, <1>11 DEF StoreInv, Uploading, Durable
<1>13. LinksChecked'
  <2>1. LiveObjects \subseteq LiveObjects'
    BY Zenon, <1>1 DEF LiveWith
  <2> SUFFICES ASSUME NEW v \in Pushes, v # u, edge[v].pc = "check", edge[v].pack # Null,
                      packState'[edge[v].pack] = "ingesting", pushEpoch[v] = gc_epoch
               PROVE  LinksOf(edge[v].content) \subseteq LiveObjects' \cup edge[v].content \cup edge[v].todo
    BY Zenon, <1>2, <1>3 DEF LinksChecked
  <2>2. packState[edge[v].pack] = "ingesting"
    BY Zenon, <1>1, <1>11
  <2> QED
    BY Zenon, <2>1, <2>2 DEF StoreInv, LinksChecked
<1> QED
  BY Zenon, <1>3, <1>5, <1>7, <1>8, <1>9, <1>12, <1>13 DEF StoreInv

\* Every commit keeps the invariant.
LEMMA CommitStepInv == StoreInv /\ CommitStep => StoreInv'
  BY Zenon, CommitRejectedInv, CommitAtomicFailedInv, CommitPushInv DEF CommitStep

-----------------------------------------------------------------------------
(* The theorems. *)

\* The store invariant holds throughout, for any clients, packs and crashes of
\* edge workers, with the janitor running at any time.
THEOREM StoreInvariant == StoreSpec => []StoreInv
<1>1. StoreInit => StoreInv
  BY Zenon, StoreInitInv
<1>2. StoreInv /\ [StoreNext]_storeVars => StoreInv'
  <2>1. StoreInv /\ StoreNext => StoreInv'
    BY Zenon, EdgeStepInv, JanitorStepInv, CommitStepInv DEF StoreNext
  <2>2. StoreInv /\ UNCHANGED storeVars => StoreInv'
    BY Zenon, StoreStutter
  <2> QED
    BY Zenon, <2>1, <2>2
<1> QED
  BY <1>1, <1>2, PTL DEF StoreSpec

\* The store's variables keep their types.
THEOREM StoreTypeCorrect == StoreSpec => []StoreTypeOK
<1>1. StoreInv => StoreTypeOK
  BY Zenon DEF StoreInv
<1> QED
  BY <1>1, StoreInvariant, PTL

\* Two-phase pushes and the janitor never leave a ref or a live object with
\* something missing.
THEOREM StoreLiveClosed == StoreSpec => []LiveClosed
<1>1. StoreInv => LiveClosed
  BY Zenon DEF StoreInv
<1> QED
  BY <1>1, StoreInvariant, PTL

\* A live pack is durable and indexed: it went live after PackWriter::finish
\* and the last index call, and the janitor deletes only dead packs.
THEOREM StoreLiveBytes == StoreSpec => []LiveBytes
<1>1. StoreInv => LiveBytes
  BY Zenon DEF StoreInv
<1> QED
  BY <1>1, StoreInvariant, PTL

-----------------------------------------------------------------------------
(* The inductive invariant of the collector. *)

\* Chain ids in use are not ahead of the generator: a new chain's id is fresh.
ChainIds ==
    /\ gc.chain <= lastChain
    /\ \A s \in Slices : slices[s].chain <= lastChain
    /\ \A s \in Slices : slices[s].pc # "none" => slices[s].chain # 0 /\ slices[s].job \in JobIds

\* The shape of the gc.* rows.
ChainShape ==
    /\ gc.chain = 0 => gc.mode = "mark" /\ gc.phase = "unset" /\ marked = {}
    /\ gc.mode = "compact" => gc.phase = "build"
    /\ gc.phase = "unset" => gc.new_pack = Null
    /\ gc.refs_version <= refs_version

\* The cohort is live until it is retired, and it is retired as a whole: by the
\* sweep, or by the swap that makes the build pack live.
Cohort ==
    /\ \A p \in marked : packState[p] \in {"live", "dead", "gone"}
    /\ marked \subseteq LivePacks \/ marked \cap LivePacks = {}
    /\ gc.mode = "mark" /\ gc.phase # "sweep" => marked \subseteq LivePacks
    /\ gc.mode = "compact" /\ ~(marked \subseteq LivePacks) => gc.new_pack # Null
    /\ gc.chain # 0 => marked # {}

\* The build pack holds marked objects only, and all of them once uploaded.
NewPack ==
    /\ gc.phase = "sweep" /\ gc.new_pack = Null => Marked = {}
    /\ gc.new_pack # Null =>
          /\ gc.new_pack \notin marked
          /\ packPush[gc.new_pack] = Null
          /\ packState[gc.new_pack] =
                IF gc.phase = "sweep" \/ ~(marked \subseteq LivePacks) THEN "live" ELSE "ingesting"
          /\ objects[gc.new_pack] \subseteq Marked
          /\ gc.new_pack \in r2 => objects[gc.new_pack] = Marked
          /\ Marked # {}

\* A mark stands for a row of its pack; compaction marks everything.
Marks ==
    /\ \A p \in marked : p \in LivePacks => bitmap[p] \subseteq objects[p]
    /\ gc.mode = "compact" /\ marked \subseteq LivePacks => ObjectsIn(marked) \subseteq Marked

Kept == ObjectsIn(LivePacks \ marked)

Walking == gc.chain # 0 /\ gc.phase = "unset" /\ refs_version = gc.refs_version

\* The tricolour invariant of the walk: what is seen is marked or kept, and
\* its links are seen or in the frontier.
Walk == Walking =>
    /\ frontier \cup seen \subseteq LiveObjects
    /\ RefTargets \subseteq frontier \cup seen
    /\ \A o \in Kept : Links[o] # {} => o \in frontier \cup seen
    /\ \A o \in seen : o \in frontier \/ Links[o] \subseteq frontier \cup seen
    /\ seen \subseteq Marked \cup Kept
    /\ Marked \subseteq frontier \cup seen

\* What a slice has popped but not committed.
SliceWalk == \A s \in Slices :
    InBatch(s) /\ slices[s].chain = gc.chain /\ gc.phase = "unset" =>
        /\ \A p \in marked : slices[s].bits[p] \subseteq objects[p]
        /\ Walking =>
              /\ slices[s].batch \subseteq slices[s].hits
              /\ slices[s].batch \subseteq frontier \cup seen
              /\ \A p \in marked : slices[s].bits[p] \subseteq frontier \cup seen
              /\ \A o \in slices[s].batch :
                    o \in Marked \cup Kept \/ \E p \in marked : o \in slices[s].bits[p]

Building(s) == slices[s].pc \in {"build", "upload"}

\* A build slice that may still write for a mark chain works on its build pack.
SliceBuild == \A s \in Slices : Building(s) =>
    /\ slices[s].pack \in Packs
    /\ packPush[slices[s].pack] = Null
    /\ packState[slices[s].pack] # "none"
    /\ Held(s) /\ slices[s].chain = gc.chain /\ gc.mode = "mark" =>
          gc.phase = "build" /\ slices[s].pack = gc.new_pack
    /\ slices[s].pc = "upload" /\ slices[s].pack = gc.new_pack =>
          objects[gc.new_pack] = Marked

IsBuilder(j, state) == jobs[j].kind = "gc_consolidate" /\ jobs[j].state = state

\* A mark chain has one builder: rows of older chains are dead, and stay dead
\* while it runs.
OneBuilder ==
    /\ \A s \in Slices : Building(s) /\ Held(s) => jobs[slices[s].job].kind = "gc_consolidate"
    /\ gc.chain # 0 /\ gc.mode = "mark" /\ gc.phase # "sweep" =>
          /\ \A i, j \in JobIds : /\ IsBuilder(i, "queued") \/ IsBuilder(i, "running")
                                  /\ IsBuilder(j, "queued") \/ IsBuilder(j, "running")
                                  => i = j
          /\ gc.phase = "unset" => ~\E j \in JobIds : IsBuilder(j, "running")
          /\ (\E i, j \in JobIds : IsBuilder(i, "running") /\ IsBuilder(j, "dead")) =>
                resurrected["gc_consolidate"] >= MaxResurrect

GcInv ==
    /\ GcTypeOK
    /\ StoreInv
    /\ ChainIds
    /\ ChainShape
    /\ Cohort
    /\ NewPack
    /\ Marks
    /\ Walk
    /\ SliceWalk
    /\ SliceBuild
    /\ OneBuilder
    /\ SurvivorsClosed

\* The part of the invariant that speaks of the store and the chain only.
ChainInv == ChainShape /\ Cohort /\ NewPack /\ Marks /\ Walk /\ SurvivorsClosed

\* The part that speaks of the slices in flight.
SlicesInv == ChainIds /\ SliceWalk /\ SliceBuild

\* What the steps below are shown to do: keep the invariant and forget objects
\* only with the epoch.
Safe == GcInv' /\ (LiveObjects \subseteq LiveObjects' \/ gc_epoch' > gc_epoch)

-----------------------------------------------------------------------------
(* The jobs table. *)

Row == [kind : GcKinds \cup {"none"}, chain : Nat,
        state : {"none", "queued", "running", "dead"}, lease : Slices \cup {Null}]

JobTable == [JobIds -> Row]

\* The rows that enqueue inserts and that a deleted row leaves are rows.
LEMMA RowFacts ==
    /\ NoRow \in Row
    /\ \A kind \in GcKinds, chain \in Nat :
          [kind |-> kind, chain |-> chain, state |-> "queued", lease |-> Null] \in Row
  BY Zenon DEF Row, NoRow

\* enqueue leaves the table alone or fills one free row.
LEMMA EnqueueRows ==
    ASSUME NEW js \in JobTable, NEW kind \in GcKinds, NEW chain \in Nat
    PROVE  /\ Enqueue(js, kind, chain) \in JobTable
           /\ CanEnqueue(js, kind) => \A j \in JobIds :
                 \/ Enqueue(js, kind, chain)[j] = js[j]
                 \/ /\ js[j] = NoRow
                    /\ Enqueue(js, kind, chain)[j] =
                          [kind |-> kind, chain |-> chain, state |-> "queued", lease |-> Null]
<1> DEFINE row == [kind |-> kind, chain |-> chain, state |-> "queued", lease |-> Null]
<1>1. row \in Row
  BY Zenon, RowFacts
<1>2. CASE HasQueued(js, kind)
  BY Zenon, <1>2 DEF Enqueue
<1>3. CASE ~HasQueued(js, kind)
  <2>1. Enqueue(js, kind, chain) = [js EXCEPT ![FreeRow(js)] = row]
    BY Zenon, <1>3 DEF Enqueue
  <2>2. Enqueue(js, kind, chain) \in JobTable
    BY Zenon, <1>1, <2>1 DEF JobTable
  <2>3. CanEnqueue(js, kind) => FreeRow(js) \in JobIds /\ js[FreeRow(js)] = NoRow
    BY Zenon, <1>3 DEF CanEnqueue, FreeRow
  <2> QED
    BY Zenon, <2>1, <2>2, <2>3 DEF JobTable
<1> QED
  BY Zenon, <1>2, <1>3

\* Deleting a job row touches no other row.
LEMMA DeleteRows ==
    ASSUME NEW js \in JobTable, NEW j \in JobIds
    PROVE  /\ Delete(js, j) \in JobTable
           /\ Delete(js, j)[j] = NoRow
           /\ \A i \in JobIds : i # j => Delete(js, j)[i] = js[i]
  BY Zenon, RowFacts DEF Delete, JobTable

\* dispatch marks one row running and keeps its kind.
LEMMA RunningRows ==
    ASSUME NEW js \in JobTable, NEW j \in JobIds
    PROVE  /\ Running(js, j) \in JobTable
           /\ Running(js, j)[j].kind = js[j].kind
           /\ Running(js, j)[j].state = "running"
           /\ \A i \in JobIds : i # j => Running(js, j)[i] = js[i]
  BY Zenon DEF Running, JobTable, Row

\* A claimed row runs under the lease of its slice; no other row changes.
LEMMA ClaimRows ==
    ASSUME NEW js \in JobTable, NEW j \in JobIds, NEW s \in Slices
    PROVE  /\ Claim(js, j, s) \in JobTable
           /\ Claim(js, j, s)[j].kind = js[j].kind
           /\ Claim(js, j, s)[j].state = "running"
           /\ Claim(js, j, s)[j].lease = s
           /\ \A i \in JobIds : i # j => Claim(js, j, s)[i] = js[i]
  BY Zenon DEF Claim, JobTable, Row

\* land_outcome and repair put one row back to queued, or to dead.
LEMMA ReleaseRows ==
    ASSUME NEW js \in JobTable, NEW j \in JobIds, NEW state \in {"queued", "dead"}
    PROVE  /\ Release(js, j, state) \in JobTable
           /\ Release(js, j, state)[j].kind = js[j].kind
           /\ Release(js, j, state)[j].state = state
           /\ \A i \in JobIds : i # j => Release(js, j, state)[i] = js[i]
  BY Zenon DEF Release, JobTable, Row

\* orphan_abort removes dead rows and changes no other.
LEMMA WithoutDeadRowsRows ==
    ASSUME NEW js \in JobTable
    PROVE  /\ WithoutDeadRows(js) \in JobTable
           /\ \A i \in JobIds : WithoutDeadRows(js)[i] \in {js[i], NoRow}
  BY Zenon, RowFacts DEF WithoutDeadRows, JobTable

\* A change of the jobs table that starts no builder and touches no running
\* row except to end it.
TameRow(js, i) ==
    /\ js[i].state = "running" => js[i] = jobs[i]
    /\ js[i].kind = "gc_consolidate" =>
          /\ jobs[i].kind = "gc_consolidate"
          /\ js[i].state = "queued" => jobs[i].state \in {"queued", "running"}
          /\ js[i].state = "dead" => jobs[i].state \in {"queued", "running", "dead"}

Tame(js) == \A i \in JobIds : TameRow(js, i)

\* enqueue of another kind than gc_consolidate starts no builder.
LEMMA TameEnqueue ==
    ASSUME NEW js \in JobTable, NEW kind \in GcKinds \ {"gc_consolidate"}, NEW chain \in Nat,
           CanEnqueue(js, kind)
    PROVE  /\ Enqueue(js, kind, chain) \in JobTable
           /\ \A i \in JobIds : TameRow(js, i) => TameRow(Enqueue(js, kind, chain), i)
           /\ \A i \in JobIds : js[i] # NoRow => Enqueue(js, kind, chain)[i] = js[i]
<1> DEFINE b == Enqueue(js, kind, chain)
<1>1. b \in JobTable
  BY Zenon, EnqueueRows
<1>2. ASSUME NEW i \in JobIds
      PROVE  b[i] = js[i] \/ (js[i] = NoRow /\ b[i].kind = kind /\ b[i].state = "queued")
  <2>1. \/ b[i] = js[i]
        \/ /\ js[i] = NoRow
           /\ b[i] = [kind |-> kind, chain |-> chain, state |-> "queued", lease |-> Null]
    BY Zenon, EnqueueRows
  <2> QED
    BY <2>1
<1>3. \A i \in JobIds : TameRow(js, i) => TameRow(b, i)
  BY Zenon, <1>2 DEF TameRow
<1> QED
  BY Zenon, <1>1, <1>2, <1>3

\* The row of a running or queued job still has room after it is taken.
LEMMA CanStillEnqueue ==
    ASSUME NEW j \in JobIds, jobs \in JobTable, NEW kind \in GcKinds,
           CanEnqueue(jobs, kind),
           jobs[j].state \in {"queued", "running"},
           jobs[j].kind # kind \/ jobs[j].state = "running"
    PROVE  CanEnqueue(Running(jobs, j), kind)
<1>1. jobs[j] # NoRow
  BY DEF NoRow
<1>2. \A i \in JobIds : i # j => Running(jobs, j)[i] = jobs[i]
  BY Zenon, RunningRows
<1> QED
  BY Zenon, <1>1, <1>2 DEF CanEnqueue, HasQueued

\* The rows of an abort (the row ends, a gc_mark is queued) start no builder.
LEMMA TameAbort ==
    ASSUME NEW j \in JobIds, jobs \in JobTable, CanEnqueue(Running(jobs, j), "gc_mark")
    PROVE  AbortJobs(j) \in JobTable /\ Tame(AbortJobs(j))
<1> DEFINE a == Running(jobs, j)
           b == Enqueue(a, "gc_mark", 0)
<1>1. a \in JobTable /\ \A i \in JobIds : i # j => a[i] = jobs[i]
  BY Zenon, RunningRows
<1>2. b \in JobTable /\ \A i \in JobIds : TameRow(a, i) => TameRow(b, i)
  BY Zenon, <1>1, TameEnqueue DEF GcKinds
<1>3. \A i \in JobIds : i # j => TameRow(a, i)
  BY Zenon, <1>1 DEF TameRow, JobTable, Row
<1>4. /\ Delete(b, j) \in JobTable /\ Delete(b, j)[j] = NoRow
      /\ \A i \in JobIds : i # j => Delete(b, j)[i] = b[i]
  BY Zenon, <1>2, DeleteRows
<1>5. TameRow(Delete(b, j), j)
  BY <1>4 DEF TameRow, NoRow
<1>6. \A i \in JobIds : i # j => TameRow(Delete(b, j), i)
  BY Zenon, <1>2, <1>3, <1>4 DEF TameRow
<1> QED
  BY Zenon, <1>4, <1>5, <1>6 DEF AbortJobs, Tame

\* A finished row starts no builder.
LEMMA TameDelete ==
    ASSUME NEW j \in JobIds, jobs \in JobTable
    PROVE  Delete(jobs, j) \in JobTable /\ Tame(Delete(jobs, j))
<1>1. /\ Delete(jobs, j) \in JobTable /\ Delete(jobs, j)[j] = NoRow
      /\ \A i \in JobIds : i # j => Delete(jobs, j)[i] = jobs[i]
  BY Zenon, DeleteRows
<1> QED
  BY <1>1 DEF Tame, TameRow, NoRow, JobTable, Row

\* Nor does a row that queues its successor, whether or not it ends itself.
LEMMA TameEnqueueDelete ==
    ASSUME NEW j \in JobIds, jobs \in JobTable, NEW kind \in GcKinds \ {"gc_consolidate"},
           NEW chain \in Nat, CanEnqueue(jobs, kind)
    PROVE  /\ Enqueue(jobs, kind, chain) \in JobTable
           /\ Tame(Enqueue(jobs, kind, chain))
           /\ Delete(Enqueue(jobs, kind, chain), j) \in JobTable
           /\ Tame(Delete(Enqueue(jobs, kind, chain), j))
<1> DEFINE b == Enqueue(jobs, kind, chain)
<1>1. \A i \in JobIds : TameRow(jobs, i)
  BY Zenon DEF TameRow, JobTable, Row
<1>2. b \in JobTable /\ Tame(b)
  BY Zenon, <1>1, TameEnqueue DEF Tame
<1>3. /\ Delete(b, j) \in JobTable /\ Delete(b, j)[j] = NoRow
      /\ \A i \in JobIds : i # j => Delete(b, j)[i] = b[i]
  BY Zenon, <1>2, DeleteRows
<1> QED
  BY <1>2, <1>3 DEF Tame, TameRow, NoRow

\* Nor does a row that goes back to the queue, or dies.
LEMMA TameRelease ==
    ASSUME NEW j \in JobIds, jobs \in JobTable, NEW state \in {"queued", "dead"},
           jobs[j].state \in {"queued", "running"}
    PROVE  Release(jobs, j, state) \in JobTable /\ Tame(Release(jobs, j, state))
<1>1. /\ Release(jobs, j, state) \in JobTable
      /\ Release(jobs, j, state)[j].kind = jobs[j].kind
      /\ Release(jobs, j, state)[j].state = state
      /\ \A i \in JobIds : i # j => Release(jobs, j, state)[i] = jobs[i]
  BY Zenon, ReleaseRows
<1> QED
  BY Zenon, <1>1 DEF Tame, TameRow, JobTable, Row

\* Nor does the row of a slice that failed.
LEMMA TameLandErr ==
    ASSUME NEW j \in JobIds, jobs \in JobTable, jobs[j].state \in {"queued", "running"},
           NEW js \in LandErr(jobs, j)
    PROVE  js \in JobTable /\ Tame(js)
  BY Zenon, TameRelease DEF LandErr

\* Nor does the removal of dead rows.
LEMMA TameWithoutDead ==
    ASSUME jobs \in JobTable
    PROVE  WithoutDeadRows(jobs) \in JobTable /\ Tame(WithoutDeadRows(jobs))
<1>1. /\ WithoutDeadRows(jobs) \in JobTable
      /\ \A i \in JobIds : WithoutDeadRows(jobs)[i] \in {jobs[i], NoRow}
  BY Zenon, WithoutDeadRowsRows
<1> QED
  BY <1>1 DEF Tame, TameRow, NoRow, JobTable, Row

\* Nor does the removal of dead rows and of the row that ran.
LEMMA TameWithoutDeadDelete ==
    ASSUME NEW j \in JobIds, jobs \in JobTable
    PROVE  /\ Delete(WithoutDeadRows(jobs), j) \in JobTable
           /\ Tame(Delete(WithoutDeadRows(jobs), j))
<1> DEFINE b == WithoutDeadRows(jobs)
<1>1. b \in JobTable /\ Tame(b)
  BY Zenon, TameWithoutDead
<1>2. /\ Delete(b, j) \in JobTable /\ Delete(b, j)[j] = NoRow
      /\ \A i \in JobIds : i # j => Delete(b, j)[i] = b[i]
  BY Zenon, <1>1, DeleteRows
<1> QED
  BY <1>1, <1>2 DEF Tame, TameRow, NoRow

-----------------------------------------------------------------------------
(* Types, one table at a time. *)

GcRow == [chain : Nat, mode : {"mark", "compact"}, phase : {"unset", "build", "sweep"},
          refs_version : Nat, new_pack : Packs \cup {Null}, fails : Nat]

ChainType ==
    /\ gc \in GcRow /\ marked \subseteq Packs /\ bitmap \in [Packs -> SUBSET Oid]
    /\ frontier \subseteq Oid /\ seen \subseteq Oid

SliceRow == [pc : {"none", "start", "loop", "read", "rest", "build", "upload"},
             job : JobIds \cup {Null}, chain : Nat, pack : Packs \cup {Null},
             batch : SUBSET Oid, hits : SUBSET Oid, bits : [Packs -> SUBSET Oid]]

SliceTable == [Slices -> SliceRow]

Counters ==
    /\ resurrected \in [GcKinds -> Nat] /\ strikes \in [Packs -> Nat]
    /\ lastChain \in Nat /\ faults \in Nat

\* The type invariant, one table at a time.
LEMMA TypeParts ==
    GcTypeOK <=> StoreTypeOK /\ ChainType /\ jobs \in JobTable /\ slices \in SliceTable /\ Counters
  BY Zenon DEF GcTypeOK, ChainType, GcRow, JobTable, Row, SliceTable, SliceRow, Counters

\* The same of the next state.
LEMMA TypePartsNext ==
    GcTypeOK' <=> /\ StoreTypeOK' /\ ChainType' /\ jobs' \in JobTable /\ slices' \in SliceTable
                  /\ Counters'
  BY Zenon DEF GcTypeOK, ChainType, GcRow, JobTable, Row, SliceTable, SliceRow, Counters

\* The invariant in the groups the frames below speak of.
LEMMA GcInvParts ==
    GcInv <=> GcTypeOK /\ StoreInv /\ ChainInv /\ SlicesInv /\ OneBuilder
  BY Zenon DEF GcInv, ChainInv, SlicesInv

\* A lease that is not in use is a well-typed, idle slice.
LEMMA NoSliceRow == NoSlice \in SliceRow /\ NoSlice.pc = "none" /\ NoSlice.chain = 0
  BY Zenon DEF NoSlice, SliceRow, NoBits

\* A slice that ends.
LEMMA SliceDropped ==
    ASSUME slices \in SliceTable, NEW s \in Slices, slices' = [slices EXCEPT ![s] = NoSlice]
    PROVE  slices' \in SliceTable /\ \A t \in Slices : slices'[t] \in {slices[t], NoSlice}
  BY Zenon, NoSliceRow DEF SliceTable

\* strike and its pruning keep the counts of strikes natural.
LEMMA StruckType ==
    ASSUME strikes \in [Packs -> Nat] PROVE Struck \in [Packs -> Nat] /\ PrunedStrikes \in [Packs -> Nat]
<1>1. Struck \in [Packs -> Nat]
  BY DEF Struck
<1> QED
  BY Zenon, <1>1 DEF PrunedStrikes

-----------------------------------------------------------------------------
(* Frames. *)

\* The collector may retire and create packs of its own, as long as it leaves
\* the packs of open pushes alone and forgets objects only with the epoch.
LEMMA StoreKept ==
    ASSUME StoreInv, StoreTypeOK', LiveClosed', LiveBytes',
           UNCHANGED <<refs, refs_version, packPush, pushState, pushEpoch, edge, doomed>>,
           gc_epoch <= gc_epoch',
           LiveObjects \subseteq LiveObjects' \/ gc_epoch < gc_epoch',
           \A p \in Packs :
              /\ packState'[p] = "none" => packState[p] = "none" /\ objects'[p] = {} /\ p \notin r2'
              /\ packState[p] = "dead" => packState'[p] = "dead"
              /\ packPush[p] # Null =>
                    /\ objects'[p] \subseteq objects[p]
                    /\ packState'[p] = "ingesting" <=> packState[p] = "ingesting"
                    /\ packState[p] = "ingesting" =>
                          objects'[p] = objects[p] /\ (p \in r2 => p \in r2')
    PROVE  StoreInv'
<1>1. \A u \in Pushes : edge[u].pack \in Packs \cup {Null} /\ pushEpoch[u] \in Nat
  BY Zenon DEF StoreInv, StoreTypeOK
<1>2. \A u \in Pushes : edge[u].pack # Null => packPush[edge[u].pack] # Null
  BY Zenon, NullAssumption DEF StoreInv, Uploading
<1>3. FreshPacks'
  BY Zenon DEF StoreInv, FreshPacks
<1>4. Uploading' /\ BegunHasNoPack'
  BY Zenon, <1>1, <1>2 DEF StoreInv, Uploading, BegunHasNoPack
<1>5. Durable'
  BY <1>1, <1>2 DEF StoreInv, Durable
<1>6. EpochOrder'
  BY <1>1 DEF StoreInv, StoreTypeOK, EpochOrder
<1>7. DoomedDead'
  BY Zenon DEF StoreInv, StoreTypeOK, DoomedDead
<1>8. LinksChecked'
  <2> SUFFICES ASSUME NEW u \in Pushes, edge[u].pc = "check", edge[u].pack # Null,
                      packState'[edge[u].pack] = "ingesting", pushEpoch[u] = gc_epoch'
               PROVE  LinksOf(edge[u].content) \subseteq LiveObjects' \cup edge[u].content \cup edge[u].todo
    BY Zenon DEF LinksChecked
  <2>1. packState[edge[u].pack] = "ingesting"
    BY Zenon, <1>1, <1>2
  <2>2. pushEpoch[u] <= gc_epoch /\ gc_epoch \in Nat /\ gc_epoch' \in Nat
    BY Zenon DEF StoreInv, EpochOrder, StoreTypeOK
  <2>3. pushEpoch[u] = gc_epoch /\ LiveObjects \subseteq LiveObjects'
    BY <1>1, <2>2
  <2> QED
    BY Zenon, <2>1, <2>3 DEF StoreInv, LinksChecked
<1> QED
  BY Zenon, <1>3, <1>4, <1>5, <1>6, <1>7, <1>8 DEF StoreInv

\* A step that leaves the store and the chain's tables alone keeps what is said of both.
LEMMA ChainQuiet ==
    ASSUME ChainInv, UNCHANGED <<storeVars, chainVars>>
    PROVE  ChainInv'
<1>1. UNCHANGED <<refs, refs_version, gc_epoch, packState, packPush, objects, r2>>
  BY Zenon DEF storeVars
<1>2. UNCHANGED <<gc, marked, bitmap, frontier, seen>>
  BY Zenon DEF chainVars
<1>3. LivePacks' = LivePacks /\ LiveObjects' = LiveObjects /\ Marked' = Marked /\ Kept' = Kept
      /\ RefTargets' = RefTargets /\ (CohortLive' <=> CohortLive) /\ Keepers' = Keepers
      /\ (Walking' <=> Walking)
  BY Zenon, <1>1, <1>2 DEF LivePacks, LiveObjects, ObjectsIn, Marked, Kept, RefTargets, CohortLive,
                    Keepers, Walking
<1>4. ObjectsIn(marked)' = ObjectsIn(marked) /\ ObjectsIn(Keepers)' = ObjectsIn(Keepers)
  BY Zenon, <1>1, <1>2, <1>3 DEF ObjectsIn
<1>5. ChainShape' /\ Cohort' /\ NewPack' /\ Marks'
  BY Zenon, <1>1, <1>2, <1>3, <1>4 DEF ChainInv, ChainShape, Cohort, NewPack, Marks
<1>6. Walk'
  BY Zenon, <1>1, <1>2, <1>3 DEF ChainInv, Walk
<1>7. SurvivorsClosed'
  BY Zenon, <1>1, <1>2, <1>3, <1>4 DEF ChainInv, SurvivorsClosed, LinksOf
<1> QED
  BY Zenon, <1>5, <1>6, <1>7 DEF ChainInv

\* The store and the chain stand still, and slices only end.
LEMMA SlicesQuiet ==
    ASSUME SlicesInv,
           UNCHANGED <<storeVars, chainVars, lastChain>>, lastChain \in Nat,
           \A s \in Slices : slices'[s] \in {slices[s], NoSlice},
           \A j \in JobIds : jobs'[j].state = "running" => jobs'[j] = jobs[j]
    PROVE  SlicesInv'
<1>1. UNCHANGED <<refs, refs_version, gc_epoch, packState, packPush, objects, r2, doomed>>
  BY Zenon DEF storeVars
<1>2. UNCHANGED <<gc, marked, bitmap, frontier, seen>>
  BY Zenon DEF chainVars
<1>3. LivePacks' = LivePacks /\ Marked' = Marked /\ Kept' = Kept /\ (Walking' <=> Walking)
  BY Zenon, <1>1, <1>2 DEF LivePacks, ObjectsIn, Marked, Kept, Walking
<1>4. NoSlice.pc = "none" /\ NoSlice.chain = 0
  BY Zenon DEF NoSlice
<1>5. \A s \in Slices : /\ Building(s)' => Building(s) /\ slices'[s] = slices[s]
                        /\ InBatch(s)' => InBatch(s) /\ slices'[s] = slices[s]
                        /\ slices'[s].pc # "none" => slices'[s] = slices[s]
  BY Zenon, <1>4 DEF Building, InBatch
<1>6. \A s \in Slices : Held(s)' => Held(s)
  BY Zenon, <1>5 DEF Held, SlicesInv, ChainIds
<1>7. ChainIds'
  BY <1>2, <1>4, <1>5 DEF SlicesInv, ChainIds
<1>8. SliceWalk'
  BY <1>1, <1>2, <1>3, <1>5 DEF SlicesInv, SliceWalk
<1>9. SliceBuild'
  BY <1>1, <1>2, <1>3, <1>5, <1>6 DEF SlicesInv, SliceBuild
<1> QED
  BY Zenon, <1>7, <1>8, <1>9 DEF SlicesInv

\* A tame change of the jobs table keeps the builder unique.
LEMMA TameOneBuilder ==
    ASSUME OneBuilder, jobs \in JobTable, jobs' \in JobTable, Tame(jobs'), ChainIds,
           resurrected \in [GcKinds -> Nat], resurrected' \in [GcKinds -> Nat],
           \A s \in Slices : Building(s)' => Building(s) /\ slices'[s].job = slices[s].job,
           gc'.chain # 0 /\ gc'.mode = "mark" /\ gc'.phase # "sweep" =>
              /\ gc.chain # 0 /\ gc.mode = "mark" /\ gc.phase # "sweep"
              /\ gc'.phase = "unset" => gc.phase = "unset"
              /\ resurrected["gc_consolidate"] <= resurrected'["gc_consolidate"]
    PROVE  OneBuilder'
<1>1. \A s \in Slices : Building(s)' /\ Held(s)' => jobs'[slices'[s].job].kind = "gc_consolidate"
  <2> SUFFICES ASSUME NEW s \in Slices, Building(s)', Held(s)'
               PROVE  jobs'[slices'[s].job].kind = "gc_consolidate"
    OBVIOUS
  <2>1. Building(s) /\ slices'[s].job = slices[s].job /\ slices[s].job \in JobIds
    BY Zenon DEF ChainIds, Building
  <2>2. jobs'[slices[s].job] = jobs[slices[s].job]
    BY Zenon, <2>1 DEF Held, Tame, TameRow
  <2>3. Held(s)
    BY Zenon, <2>1, <2>2 DEF Held, Building
  <2> QED
    BY Zenon, <2>1, <2>2, <2>3 DEF OneBuilder
<1>2. ASSUME gc'.chain # 0, gc'.mode = "mark", gc'.phase # "sweep"
      PROVE  /\ \A i, j \in JobIds : /\ IsBuilder(i, "queued")' \/ IsBuilder(i, "running")'
                                     /\ IsBuilder(j, "queued")' \/ IsBuilder(j, "running")'
                                     => i = j
             /\ gc'.phase = "unset" => ~\E j \in JobIds : IsBuilder(j, "running")'
             /\ (\E i, j \in JobIds : IsBuilder(i, "running")' /\ IsBuilder(j, "dead")') =>
                   resurrected'["gc_consolidate"] >= MaxResurrect
  <2>1. \A i \in JobIds : /\ IsBuilder(i, "queued")' => IsBuilder(i, "queued") \/ IsBuilder(i, "running")
                          /\ IsBuilder(i, "running")' => IsBuilder(i, "running")
                          /\ IsBuilder(i, "dead")' =>
                                IsBuilder(i, "queued") \/ IsBuilder(i, "running") \/ IsBuilder(i, "dead")
    BY Zenon DEF IsBuilder, Tame, TameRow
  <2>2. \A i \in JobIds : IsBuilder(i, "running")' /\ IsBuilder(i, "dead")' => FALSE
    BY Zenon DEF IsBuilder
  <2>3. MaxResurrect \in Nat /\ resurrected["gc_consolidate"] \in Nat
        /\ resurrected'["gc_consolidate"] \in Nat
    BY Zenon, GcAssumption DEF GcKinds
  <2> QED
    BY <1>2, <2>1, <2>2, <2>3 DEF OneBuilder
<1> QED
  BY Zenon, <1>1, <1>2 DEF OneBuilder

\* Slices only end, and the jobs table changes tamely.
LEMMA QuietInv ==
    ASSUME GcInv, UNCHANGED <<storeVars, chainVars, lastChain, resurrected>>,
           Counters', jobs' \in JobTable, Tame(jobs'), slices' \in SliceTable,
           \A s \in Slices : slices'[s] \in {slices[s], NoSlice}
    PROVE  Safe
<1>1. jobs \in JobTable /\ slices \in SliceTable /\ Counters /\ ChainType
  BY Zenon, TypeParts DEF GcInv
<1>2. StoreInv'
  BY Zenon, StoreStutter DEF GcInv
<1>3. UNCHANGED <<gc, marked, bitmap, frontier, seen>>
  BY Zenon DEF chainVars
<1>4. GcTypeOK'
  BY Zenon, <1>1, <1>2, <1>3, TypePartsNext DEF StoreInv, ChainType
<1>5. ChainInv' /\ SlicesInv'
  <2>1. \A j \in JobIds : jobs'[j].state = "running" => jobs'[j] = jobs[j]
    BY Zenon DEF Tame, TameRow
  <2> QED
    BY Zenon, <1>1, <2>1, ChainQuiet, SlicesQuiet, GcInvParts DEF Counters
<1>6. OneBuilder'
  <2>1. \A s \in Slices : Building(s)' => Building(s) /\ slices'[s].job = slices[s].job
    BY Zenon, NoSliceRow DEF Building
  <2>2. resurrected["gc_consolidate"] <= resurrected'["gc_consolidate"]
    BY <1>1 DEF Counters, GcKinds
  <2> QED
    BY Zenon, <1>1, <1>3, <2>1, <2>2, TameOneBuilder DEF GcInv, Counters
<1>7. LiveObjects' = LiveObjects
  BY Zenon DEF storeVars, LiveObjects, ObjectsIn, LivePacks
<1> QED
  BY Zenon, <1>2, <1>4, <1>5, <1>6, <1>7, GcInvParts DEF Safe, GcInv, ChainInv, SlicesInv

\* The two groups of unchanged variables are all of the store.
LEMMA StoreSameVars == StoreSame /\ PacksSame => UNCHANGED storeVars
  BY Zenon DEF StoreSame, PacksSame, storeVars, refVars, pushVars

-----------------------------------------------------------------------------
(* Ending a chain. *)

\* wipe_all loses no live object: the build pack is either not live yet, or a
\* copy of what its live cohort holds, or kept.
LEMMA WipedInv ==
    ASSUME GcInv, packState' = WipedState, objects' = WipedObjects, StoreSame
    PROVE  /\ StoreInv'
           /\ LiveObjects' = LiveObjects
           /\ LivePacks' = LiveIn(WipedState)
           /\ \A p \in Packs : packState[p] # "none" => packState'[p] # "none"
           /\ \A p \in Packs : packState'[p] # packState[p] => p = gc.new_pack
           /\ \A p \in LivePacks' : p \in LivePacks /\ objects'[p] = objects[p]
<1> DEFINE n == gc.new_pack
<1>0. /\ packState \in [Packs -> PackStates] /\ objects \in [Packs -> SUBSET Oid]
      /\ n \in Packs \cup {Null} /\ marked \subseteq Packs
  BY Zenon DEF GcInv, GcTypeOK, StoreTypeOK
<1>1. UNCHANGED <<refs, refs_version, gc_epoch, packPush, r2, pushState, pushEpoch, edge, doomed>>
  BY Zenon DEF StoreSame, refVars, pushVars
<1>2. n # Null => /\ n \in Packs /\ n \notin marked /\ packPush[n] = Null
                  /\ packState[n] \in {"ingesting", "live"}
                  /\ objects[n] \subseteq Marked
                  /\ packState[n] = "live" /\ marked \subseteq LivePacks => CohortLive
  <2>1. n # Null => marked # {}
    BY Zenon DEF GcInv, ChainShape, Cohort
  <2> QED
    BY Zenon, <1>0, <2>1, NullAssumption DEF GcInv, NewPack, CohortLive
<1>3. CASE n = Null
  <2>1. packState' = packState /\ objects' = objects
    BY Zenon, <1>3 DEF WipedState, WipedObjects
  <2>2. storeVars' = storeVars
    BY Zenon, <1>1, <2>1 DEF storeVars
  <2>3. StoreInv'
    BY Zenon, <2>2, StoreStutter DEF GcInv
  <2>4. LiveObjects' = LiveObjects /\ LivePacks' = LivePacks
    BY Zenon, <2>1 DEF LiveObjects, LivePacks, ObjectsIn
  <2> QED
    BY Zenon, <1>3, <2>1, <2>3, <2>4 DEF LiveIn, WipedState, LivePacks
<1>4. CASE n # Null /\ KeepNewPack
  <2>1. packState' = packState
        /\ objects' = [p \in Packs |-> IF p \in marked \ LivePacks THEN {} ELSE objects[p]]
    BY Zenon, <1>4 DEF WipedState, WipedObjects
  <2>2. LivePacks' = LivePacks /\ LivePacks \subseteq r2'
    BY Zenon, <1>1, <2>1 DEF LivePacks, GcInv, StoreInv, LiveBytes
  <2>3. \A p \in LivePacks : objects'[p] = objects[p]
    BY Zenon, <2>1 DEF LivePacks
  <2>4. LiveObjects' = LiveObjects /\ LiveClosed' /\ LiveBytes'
    BY Zenon, <1>1, <2>2, <2>3, LiveUnchanged DEF GcInv
  <2>5. StoreTypeOK'
    BY Zenon, <1>0, <1>1, <2>1 DEF GcInv, StoreInv, StoreTypeOK
  <2>6. \A p \in marked : packState[p] \in {"live", "dead", "gone"}
    BY Zenon DEF GcInv, Cohort
  <2>7. \A p \in Packs : /\ packState[p] = "none" => objects'[p] = {} /\ p \notin r2'
                         /\ objects'[p] \subseteq objects[p]
                         /\ packState[p] = "ingesting" => objects'[p] = objects[p]
    BY Zenon, <1>1, <2>1, <2>6 DEF GcInv, StoreInv, FreshPacks, LivePacks
  <2>8. gc_epoch <= gc_epoch'
    BY <1>1 DEF GcInv, StoreInv, StoreTypeOK
  <2>9. StoreInv'
    BY Zenon, <1>1, <2>1, <2>4, <2>5, <2>7, <2>8, StoreKept DEF GcInv
  <2> QED
    BY Zenon, <2>1, <2>2, <2>3, <2>4, <2>9, <1>4 DEF LiveIn, WipedState, LivePacks
<1>5. CASE n # Null /\ ~KeepNewPack
  <2>1. packState' = [packState EXCEPT ![n] = IF @ \in {"ingesting", "live"} THEN "dead" ELSE @]
        /\ objects' = [objects EXCEPT ![n] = {}]
    BY Zenon, <1>5 DEF WipedState, WipedObjects
  <2>2. packState'[n] = "dead" /\ objects'[n] = {}
        /\ \A p \in Packs : p # n => packState'[p] = packState[p] /\ objects'[p] = objects[p]
    BY Zenon, <1>0, <1>2, <1>5, <2>1
  <2>3. LivePacks' = LivePacks \ {n}
    BY Zenon, <2>2 DEF LivePacks
  <2>4. LiveObjects' = LiveObjects
    <3>1. CASE packState[n] # "live"
      BY <2>2, <2>3, <3>1 DEF LiveObjects, ObjectsIn, LivePacks
    <3>2. CASE packState[n] = "live"
      <4>1. CohortLive
        BY Zenon, <1>5, <3>2 DEF KeepNewPack
      <4>2. Marked \subseteq ObjectsIn(marked)
        BY Zenon, <4>1 DEF Marked, ObjectsIn, CohortLive, GcInv, Marks
      <4>3. \A p \in marked : p \in LivePacks /\ p # n
        BY Zenon, <1>2, <1>5, <4>1 DEF CohortLive
      <4>4. ObjectsIn(marked) \subseteq LiveObjects'
        BY <2>2, <2>3, <4>3, <1>0 DEF LiveObjects, ObjectsIn
      <4>5. \A p \in LivePacks : objects[p] \subseteq LiveObjects'
        <5> SUFFICES ASSUME NEW p \in LivePacks PROVE objects[p] \subseteq LiveObjects'
          OBVIOUS
        <5>1. CASE p = n
          BY Zenon, <1>2, <1>5, <4>2, <4>4, <5>1
        <5>2. CASE p # n
          BY Zenon, <2>2, <2>3, <5>2 DEF LiveObjects, ObjectsIn, LivePacks
        <5> QED
          BY Zenon, <5>1, <5>2
      <4>6. LiveObjects' \subseteq LiveObjects
        BY <2>2, <2>3 DEF LiveObjects, ObjectsIn, LivePacks
      <4> QED
        BY Zenon, <4>5, <4>6 DEF LiveObjects, ObjectsIn
    <3> QED
      BY Zenon, <3>1, <3>2
  <2>5. LiveClosed'
    BY Zenon, <1>1, <2>4 DEF GcInv, StoreInv, LiveClosed, RefTargets
  <2>6. LiveBytes'
    BY Zenon, <1>1, <2>2, <2>3 DEF GcInv, StoreInv, LiveBytes, LivePacks
  <2>7. StoreTypeOK'
    BY ZenonT(30), <1>0, <1>1, <2>1 DEF GcInv, StoreInv, StoreTypeOK, PackStates
  <2>8. gc_epoch <= gc_epoch'
    BY <1>1 DEF GcInv, StoreInv, StoreTypeOK
  <2>9. \A p \in Packs :
              /\ packState'[p] = "none" => packState[p] = "none" /\ objects'[p] = {} /\ p \notin r2'
              /\ packState[p] = "dead" => packState'[p] = "dead"
              /\ packPush[p] # Null => packState'[p] = packState[p] /\ objects'[p] = objects[p]
    BY Zenon, <1>1, <1>2, <1>5, <2>2 DEF GcInv, StoreInv, FreshPacks
  <2>10. StoreInv'
    BY Zenon, <1>1, <2>4, <2>5, <2>6, <2>7, <2>8, <2>9, StoreKept DEF GcInv
  <2>11. LivePacks' = LiveIn(WipedState)
    BY Zenon DEF LivePacks, LiveIn
  <2> QED
    BY Zenon, <1>2, <1>5, <2>2, <2>3, <2>4, <2>10, <2>11 DEF LivePacks
<1> QED
  BY Zenon, <1>3, <1>4, <1>5

\* Once the chain's rows are gone, nothing of it can be violated.
LEMMA ChainEnded ==
    ASSUME GcInv, StoreInv', ClearChain, Counters', lastChain' = lastChain, packPush' = packPush,
           \A p \in Packs : packState[p] # "none" => packState'[p] # "none",
           jobs' \in JobTable, Tame(jobs'), slices' \in SliceTable,
           \A s \in Slices : slices'[s] \in {slices[s], NoSlice}
    PROVE  GcInv'
<1>1. /\ gc'.chain = 0 /\ gc'.mode = "mark" /\ gc'.phase = "unset" /\ gc'.new_pack = Null
      /\ gc'.refs_version = 0 /\ gc' \in GcRow
      /\ marked' = {} /\ bitmap' = NoBits /\ frontier' = {} /\ seen' = {}
  BY Zenon DEF ClearChain, NoGc, GcRow
<1>2. ChainType'
  BY Zenon, <1>1 DEF ChainType, NoBits
<1>3. GcTypeOK'
  BY Zenon, <1>2, TypePartsNext DEF StoreInv
<1>4. Marked' = {} /\ ~Walking' /\ ~CohortLive'
  BY Zenon, <1>1 DEF Marked, Walking, CohortLive
<1>5. ChainInv'
  <2>1. refs_version' \in Nat
    BY Zenon DEF StoreInv, StoreTypeOK
  <2>2. ChainShape' /\ Cohort' /\ NewPack' /\ Marks'
    BY <1>1, <1>4, <2>1 DEF ChainShape, Cohort, NewPack, Marks, LivePacks
  <2>3. Walk' /\ SurvivorsClosed'
    BY Zenon, <1>1, <1>4 DEF Walk, SurvivorsClosed
  <2> QED
    BY Zenon, <2>2, <2>3 DEF ChainInv
<1>6. \A s \in Slices : slices'[s].pc # "none" => slices'[s] = slices[s] /\ slices[s].chain # 0
  BY Zenon, NoSliceRow DEF GcInv, ChainIds
<1>7. SlicesInv'
  <2>1. ChainIds'
    BY <1>1, <1>6, NoSliceRow, TypeParts DEF GcInv, ChainIds, Counters
  <2>2. SliceWalk'
    BY Zenon, <1>1, <1>6 DEF SliceWalk, InBatch
  <2>3. SliceBuild'
    BY ZenonT(40), <1>1, <1>6, NullAssumption DEF GcInv, SliceBuild, Building
  <2> QED
    BY Zenon, <2>1, <2>2, <2>3 DEF SlicesInv
<1>8. OneBuilder'
  <2>1. \A s \in Slices : Building(s)' => Building(s) /\ slices'[s].job = slices[s].job
    BY Zenon, <1>6 DEF Building
  <2>2. jobs \in JobTable /\ resurrected \in [GcKinds -> Nat] /\ resurrected' \in [GcKinds -> Nat]
    BY Zenon, TypeParts DEF GcInv, Counters
  <2> QED
    BY Zenon, <1>1, <2>1, <2>2, TameOneBuilder DEF GcInv
<1> QED
  BY Zenon, <1>3, <1>5, <1>7, <1>8, GcInvParts DEF GcInv, ChainInv, SlicesInv

\* A chain ended by wipe_all.
LEMMA WipedChainInv ==
    ASSUME GcInv, WipeAll, StoreSame, Counters', lastChain' = lastChain,
           jobs' \in JobTable, Tame(jobs'), slices' \in SliceTable,
           \A s \in Slices : slices'[s] \in {slices[s], NoSlice}
    PROVE  GcInv' /\ LiveObjects' = LiveObjects
<1>1. packState' = WipedState /\ objects' = WipedObjects /\ ClearChain
  BY Zenon DEF WipeAll
<1>2. /\ StoreInv' /\ LiveObjects' = LiveObjects
      /\ \A p \in Packs : packState[p] # "none" => packState'[p] # "none"
  BY Zenon, <1>1, WipedInv
<1>3. packPush' = packPush
  BY Zenon DEF StoreSame
<1> QED
  BY Zenon, <1>1, <1>2, <1>3, ChainEnded

-----------------------------------------------------------------------------
(* A slice begins, and writes behind its fence. *)

\* A fresh lease takes row j away from whoever held it.
LEMMA ClaimedHeld ==
    ASSUME GcInv, NEW j \in JobIds, NEW s \in Slices, jobs'[j].lease = s,
           \A i \in JobIds : i # j => jobs'[i] \in {jobs[i], NoRow},
           NEW t \in Slices, t # s, slices'[t] = slices[t], Held(t)'
    PROVE  Held(t) /\ jobs'[slices[t].job].kind = jobs[slices[t].job].kind
<1>1. slices[t].pc # "none" /\ jobs'[slices[t].job].state = "running" /\ jobs'[slices[t].job].lease = t
  BY Zenon DEF Held
<1>2. slices[t].job \in JobIds /\ slices[t].job # j
  BY Zenon, <1>1 DEF GcInv, ChainIds
<1>3. jobs'[slices[t].job] = jobs[slices[t].job]
  <2>1. jobs'[slices[t].job] \in {jobs[slices[t].job], NoRow}
    BY Zenon, <1>2
  <2>2. NoRow.state # "running"
    BY Zenon DEF NoRow
  <2> QED
    BY Zenon, <1>1, <2>1, <2>2
<1> QED
  BY Zenon, <1>1, <1>3 DEF Held

\* The builder takes its row: it is the only one, and nothing dead comes back
\* beside it.
LEMMA ClaimedBuilder ==
    ASSUME GcInv, NEW j \in JobIds, NEW s \in Slices, jobs' = Claim(jobs, j, s),
           Dispatched(j, "gc_consolidate"), gc.phase = "build",
           gc'.chain = gc.chain, gc'.mode = gc.mode, gc'.phase = gc.phase,
           resurrected' = resurrected,
           \A t \in Slices : Building(t)' /\ Held(t)' => jobs'[slices'[t].job].kind = "gc_consolidate"
    PROVE  OneBuilder'
<1>1. jobs \in JobTable /\ resurrected \in [GcKinds -> Nat] /\ MaxResurrect \in Nat
  BY Zenon, TypeParts, GcAssumption DEF GcInv, Counters
<1>2. /\ jobs'[j].kind = "gc_consolidate" /\ jobs'[j].state = "running"
      /\ \A i \in JobIds : i # j => jobs'[i] = jobs[i]
  BY <1>1, ClaimRows DEF Dispatched, IsQueued
<1>3. \A i \in JobIds : /\ (IsBuilder(i, "queued") \/ IsBuilder(i, "running"))'
                              => IsBuilder(i, "queued") \/ IsBuilder(i, "running")
                        /\ IsBuilder(i, "dead")' => IsBuilder(i, "dead")
  BY Zenon, <1>2 DEF IsBuilder, Dispatched, IsQueued
<1>4. ASSUME gc.mode = "mark", NEW i \in JobIds, IsBuilder(i, "dead")
      PROVE  resurrected["gc_consolidate"] >= MaxResurrect
  <2>1. DeadOf(jobs, "gc_consolidate") # {}
    BY Zenon, <1>4 DEF DeadOf, IsBuilder
  <2>2. Counter("gc_consolidate") = "gc_consolidate" /\ "gc_consolidate" \in GcKinds
    BY Zenon, <1>4 DEF Counter, GcKinds
  <2>3. resurrected["gc_consolidate"] < MaxResurrect => "gc_consolidate" \in Revived(jobs)
    BY Zenon, <2>1, <2>2 DEF Revived
  <2> QED
    BY <1>1, <2>2, <2>3 DEF Dispatched
<1>5. gc.mode = "mark" /\ (\E i \in JobIds : IsBuilder(i, "dead")') =>
         resurrected'["gc_consolidate"] >= MaxResurrect
  BY Zenon, <1>3, <1>4
<1> QED
  BY Zenon, <1>3, <1>5 DEF OneBuilder, GcInv

\* What chain_fence tells a build slice: the build pack it writes is the
\* chain's, and if that pack is live already (a swap that failed half-way) it
\* is complete.
LEMMA FenceFacts ==
    ASSUME GcInv, NEW s \in Slices, Building(s), ChainFence(s)
    PROVE  /\ slices[s].pack = gc.new_pack /\ gc.new_pack \in Packs
           /\ gc.phase = "build" /\ gc.chain # 0 /\ gc.new_pack \notin marked
           /\ slices[s].job \in JobIds /\ jobs[slices[s].job].state = "running"
           /\ jobs[slices[s].job].lease = s /\ slices[s].chain = gc.chain
           /\ packPush[gc.new_pack] = Null
           /\ packState[gc.new_pack] \in {"ingesting", "live"}
           /\ packState[gc.new_pack] = "live" <=> ~(marked \subseteq LivePacks)
           /\ packState[gc.new_pack] = "live" => gc.new_pack \in r2
           /\ objects[gc.new_pack] \subseteq Marked
           /\ gc.new_pack \in r2 => objects[gc.new_pack] = Marked
           /\ Marked # {}
<1>1. /\ Held(s) /\ gc.chain = slices[s].chain /\ slices[s].pc # "none"
      /\ gc.mode = "compact" => gc.new_pack = slices[s].pack
  BY Zenon DEF ChainFence, Building
<1>2. /\ slices[s].job \in JobIds /\ jobs[slices[s].job].state = "running"
      /\ jobs[slices[s].job].lease = s /\ gc.chain # 0
  BY Zenon, <1>1 DEF Held, GcInv, ChainIds
<1>3. gc.mode \in {"mark", "compact"} /\ slices[s].pack \in Packs
  BY Zenon, TypeParts DEF GcInv, ChainType, GcRow, SliceBuild
<1>4. slices[s].pack = gc.new_pack /\ gc.phase = "build"
  <2>1. CASE gc.mode = "compact"
    BY Zenon, <1>1, <2>1 DEF GcInv, ChainShape
  <2>2. CASE gc.mode = "mark"
    BY Zenon, <1>1, <2>2 DEF GcInv, SliceBuild
  <2> QED
    BY Zenon, <1>3, <2>1, <2>2
<1>5. gc.new_pack # Null
  BY Zenon, <1>3, <1>4, NullAssumption
<1>6. /\ gc.new_pack \notin marked
      /\ packPush[gc.new_pack] = Null
      /\ packState[gc.new_pack] = IF ~(marked \subseteq LivePacks) THEN "live" ELSE "ingesting"
      /\ objects[gc.new_pack] \subseteq Marked
      /\ gc.new_pack \in r2 => objects[gc.new_pack] = Marked
      /\ Marked # {}
  BY Zenon, <1>4, <1>5 DEF GcInv, NewPack
<1>7. packState[gc.new_pack] = "live" => gc.new_pack \in r2
  BY Zenon, <1>3, <1>4 DEF GcInv, StoreInv, LiveBytes, LivePacks
<1> QED
  BY Zenon, <1>1, <1>2, <1>3, <1>4, <1>6, <1>7

-----------------------------------------------------------------------------
(* Building. *)

\* A later gc_consolidate slice takes up the build pack of its chain.
LEMMA GcConsolidateResumeInv ==
    \A j \in JobIds, s \in Slices : GcInv /\ GcConsolidateResume(j, s) => Safe
<1> SUFFICES ASSUME NEW j \in JobIds, NEW s \in Slices, GcInv, GcConsolidateResume(j, s) PROVE Safe
  OBVIOUS
<1> DEFINE row == BuildSlice(j, gc.new_pack)
<1>1. jobs \in JobTable /\ slices \in SliceTable /\ Counters /\ ChainType
  BY Zenon, TypeParts DEF GcInv
<1>2. /\ row \in SliceRow /\ row.job = j /\ row.pc = "build" /\ row.chain = gc.chain
      /\ row.pack = gc.new_pack
  BY Zenon, <1>1, NoSliceRow DEF SliceRow, ChainType, GcRow, NoSlice, BuildSlice
<1>3. /\ FreshLease(s) /\ gc.new_pack # Null /\ gc.phase = "build" /\ jobs' = Claim(jobs, j, s)
      /\ slices' = [slices EXCEPT ![s] = row] /\ Dispatched(j, "gc_consolidate")
      /\ UNCHANGED <<storeVars, chainVars, resurrected, strikes, lastChain, faults>>
  BY Zenon, StoreSameVars DEF GcConsolidateResume, Builder
<1>4. UNCHANGED <<gc, marked, bitmap, frontier, seen>>
  BY Zenon, <1>3 DEF chainVars
<1>5. UNCHANGED <<refs, refs_version, gc_epoch, packState, packPush, objects>>
  BY Zenon, <1>3 DEF storeVars
<1> HIDE DEF row
<1>6. /\ jobs' \in JobTable /\ slices' \in SliceTable /\ slices'[s] = row
      /\ \A t \in Slices : t # s =>
            /\ slices'[t] = slices[t]
            /\ Held(t)' => Held(t) /\ jobs'[slices[t].job].kind = jobs[slices[t].job].kind
  <2>1. slices' \in SliceTable /\ slices'[s] = row /\ \A t \in Slices : t # s => slices'[t] = slices[t]
    BY Zenon, <1>1, <1>2, <1>3 DEF SliceTable
  <2>2. jobs' \in JobTable /\ jobs'[j].lease = s /\ \A i \in JobIds : i # j => jobs'[i] = jobs[i]
    BY Zenon, <1>1, <1>3, ClaimRows
  <2>3. \A t \in Slices : t # s /\ Held(t)' =>
           Held(t) /\ jobs'[slices[t].job].kind = jobs[slices[t].job].kind
    BY Zenon, <2>1, <2>2, ClaimedHeld
  <2> QED
    BY Zenon, <2>1, <2>2, <2>3
<1>7. StoreInv' /\ ChainInv'
  BY Zenon, <1>3, StoreStutter, ChainQuiet, GcInvParts
<1>8. GcTypeOK'
  BY Zenon, <1>1, <1>3, <1>4, <1>6, <1>7, TypePartsNext DEF StoreInv, ChainType, Counters
<1>9. Marked' = Marked /\ Kept' = Kept /\ (Walking' <=> Walking)
  BY Zenon, <1>4, <1>5 DEF Marked, Kept, LivePacks, ObjectsIn, Walking
<1>10. \A t \in Slices :
          /\ Building(t)' =>
                t = s \/ (Building(t) /\ slices'[t] = slices[t] /\ (Held(t)' => Held(t)))
          /\ InBatch(t)' => InBatch(t) /\ slices'[t] = slices[t]
  BY Zenon, <1>2, <1>6 DEF Building, InBatch
<1>11. SlicesInv'
  <2>1. ChainIds'
    BY SMTT(30), <1>1, <1>2, <1>3, <1>4, <1>6 DEF GcInv, ChainIds, ChainShape, Counters
  <2>2. SliceWalk'
    <3>1. SUFFICES ASSUME NEW t \in Slices, InBatch(t)', slices'[t].chain = gc'.chain, gc'.phase = "unset"
                   PROVE  /\ \A p \in marked' : slices'[t].bits[p] \subseteq objects'[p]
                          /\ Walking' =>
                                /\ slices'[t].batch \subseteq slices'[t].hits
                                /\ slices'[t].batch \subseteq frontier' \cup seen'
                                /\ \A p \in marked' : slices'[t].bits[p] \subseteq frontier' \cup seen'
                                /\ \A o \in slices'[t].batch :
                                      o \in Marked' \cup Kept' \/ \E p \in marked' : o \in slices'[t].bits[p]
      BY Zenon DEF SliceWalk
    <3>2. InBatch(t) /\ slices'[t] = slices[t]
      BY Zenon, <3>1, <1>10
    <3>3. gc' = gc /\ marked' = marked /\ frontier' = frontier /\ seen' = seen /\ objects' = objects
      BY Zenon, <1>4, <1>5
    <3> QED
      BY Zenon, <3>1, <3>2, <3>3, <1>9 DEF GcInv, SliceWalk
  <2>3. /\ gc.new_pack \in Packs /\ packPush[gc.new_pack] = Null /\ packState[gc.new_pack] # "none"
    BY Zenon, <1>1, <1>3 DEF GcInv, NewPack, ChainType, GcRow
  <2>4. slices'[s].pc = "build" /\ slices'[s].pack = gc.new_pack
    BY Zenon, <1>2, <1>6
  <2>5. SliceBuild'
    BY Zenon, <1>3, <1>4, <1>5, <1>9, <1>10, <2>3, <2>4 DEF GcInv, SliceBuild
  <2> QED
    BY Zenon, <2>1, <2>2, <2>5 DEF SlicesInv
<1>12. OneBuilder'
  <2>1. jobs'[j].kind = "gc_consolidate"
    BY <1>1, <1>3, ClaimRows DEF Dispatched, IsQueued
  <2>2. \A t \in Slices : Building(t)' /\ Held(t)' => jobs'[slices'[t].job].kind = "gc_consolidate"
    BY Zenon, <1>2, <1>6, <1>10, <2>1 DEF GcInv, OneBuilder
  <2> QED
    BY Zenon, <1>3, <1>4, <2>2, ClaimedBuilder
<1>13. LiveObjects' = LiveObjects
  BY Zenon, <1>5 DEF LiveObjects, ObjectsIn, LivePacks
<1> QED
  BY Zenon, <1>7, <1>8, <1>11, <1>12, <1>13, GcInvParts DEF Safe, GcInv, ChainInv, SlicesInv

\* Only the holder of the row builds for a mark chain.
LEMMA SoleBuilder ==
    ASSUME GcInv, NEW s \in Slices, Building(s), ChainFence(s), gc.mode = "mark",
           NEW t \in Slices, Building(t), Held(t)
    PROVE  t = s
<1>1. gc.phase = "build" /\ gc.chain # 0 /\ slices[s].job \in JobIds
      /\ jobs[slices[s].job].state = "running" /\ jobs[slices[s].job].lease = s
  BY Zenon, FenceFacts
<1>2. slices[t].job \in JobIds /\ jobs[slices[t].job].state = "running" /\ jobs[slices[t].job].lease = t
  BY Zenon DEF Held, GcInv, ChainIds
<1>3. jobs[slices[s].job].kind = "gc_consolidate" /\ jobs[slices[t].job].kind = "gc_consolidate"
  BY Zenon DEF GcInv, OneBuilder, ChainFence
<1>4. slices[s].job = slices[t].job
  BY Zenon, <1>1, <1>2, <1>3 DEF GcInv, OneBuilder, IsBuilder
<1> QED
  BY Zenon, <1>1, <1>2, <1>4

\* Rows of marked objects are added to the build pack; slices may only move
\* from "build" to "upload", once every marked object has its row.
LEMMA BuildGrows ==
    ASSUME GcInv, NEW s \in Slices, Building(s), ChainFence(s), NEW rows \in SUBSET Marked,
           objects' = [objects EXCEPT ![slices[s].pack] = @ \cup rows],
           StoreSame, UNCHANGED <<packState, chainVars, jobs, resurrected, strikes, lastChain, faults>>,
           slices' \in SliceTable, \A t \in Slices : t # s => slices'[t] = slices[t],
           /\ slices'[s].pc = slices[s].pc \/ (slices'[s].pc = "upload" /\ rows = Marked)
           /\ slices'[s].job = slices[s].job /\ slices'[s].chain = slices[s].chain
           /\ slices'[s].pack = slices[s].pack
    PROVE  Safe
<1> DEFINE n == gc.new_pack
<1>1. /\ slices[s].pack = n /\ n \in Packs /\ gc.phase = "build" /\ n \notin marked
      /\ packPush[n] = Null /\ packState[n] \in {"ingesting", "live"}
      /\ packState[n] = "live" => n \in r2
      /\ objects[n] \subseteq Marked /\ (n \in r2 => objects[n] = Marked) /\ Marked # {}
  BY Zenon, FenceFacts
<1>2. jobs \in JobTable /\ slices \in SliceTable /\ Counters /\ ChainType /\ StoreTypeOK
  BY Zenon, TypeParts DEF GcInv
<1>3. Marked \subseteq Oid
  BY <1>2 DEF Marked, ChainType
<1>4. /\ objects' \in [Packs -> SUBSET Oid] /\ objects'[n] = objects[n] \cup rows
      /\ \A p \in Packs : p # n => objects'[p] = objects[p]
  BY Zenon, <1>1, <1>2, <1>3 DEF StoreTypeOK
<1>5. UNCHANGED <<refs, refs_version, gc_epoch, packState, packPush, r2, pushState, pushEpoch, edge, doomed>>
  BY Zenon DEF StoreSame, refVars, pushVars
<1>6. UNCHANGED <<gc, marked, bitmap, frontier, seen>>
  BY Zenon DEF chainVars
<1>7. Marked' = Marked /\ LivePacks' = LivePacks /\ RefTargets' = RefTargets
  BY Zenon, <1>5, <1>6 DEF Marked, LivePacks, RefTargets
<1>8. \A p \in LivePacks : objects'[p] = objects[p]
  BY Zenon, <1>1, <1>4 DEF LivePacks
<1>9. LiveObjects' = LiveObjects /\ Kept' = Kept
  BY <1>6, <1>7, <1>8 DEF LiveObjects, ObjectsIn, Kept
<1>10. StoreInv'
  <2>1. StoreTypeOK'
    BY Zenon, <1>2, <1>4, <1>5 DEF StoreTypeOK
  <2>2. LiveClosed'
    BY Zenon, <1>7, <1>9 DEF GcInv, StoreInv, LiveClosed
  <2>3. LiveBytes'
    BY Zenon, <1>5, <1>7, <1>8 DEF GcInv, StoreInv, LiveBytes
  <2>4. gc_epoch <= gc_epoch'
    BY <1>2, <1>5 DEF StoreTypeOK
  <2>5. \A p \in Packs :
           /\ packState'[p] = "none" => packState[p] = "none" /\ objects'[p] = {} /\ p \notin r2'
           /\ packState[p] = "dead" => packState'[p] = "dead"
           /\ packPush[p] # Null => objects'[p] = objects[p] /\ packState'[p] = packState[p]
    BY Zenon, <1>1, <1>4, <1>5 DEF GcInv, StoreInv, FreshPacks
  <2> QED
    BY Zenon, <1>5, <1>9, <2>1, <2>2, <2>3, <2>4, <2>5, StoreKept DEF GcInv
<1>11. ChainInv'
  <2>1. ChainShape' /\ Cohort' /\ NewPack'
    <3>1. ChainShape' /\ Cohort'
      BY Zenon, <1>5, <1>6, <1>7 DEF GcInv, ChainShape, Cohort
    <3>2. objects[n] \cup rows \subseteq Marked /\ (n \in r2 => objects[n] \cup rows = Marked)
      BY Zenon, <1>1
    <3>3. NewPack'
      BY Zenon, <1>1, <1>4, <1>5, <1>6, <1>7, <3>2 DEF GcInv, NewPack
    <3> QED
      BY Zenon, <3>1, <3>3
  <2>2. \A p \in marked : objects'[p] = objects[p]
    BY Zenon, <1>1, <1>2, <1>4 DEF ChainType
  <2>3. ObjectsIn(marked)' = ObjectsIn(marked)
    BY Zenon, <1>6, <2>2 DEF ObjectsIn
  <2>4. Marks' /\ Walk'
    BY Zenon, <1>1, <1>6, <1>7, <2>2, <2>3 DEF GcInv, Marks, Walk, Walking
  <2>5. Keepers' = Keepers /\ (CohortLive' <=> CohortLive)
    BY Zenon, <1>6, <1>7 DEF Keepers, CohortLive
  <2>6. ObjectsIn(Keepers)' = ObjectsIn(Keepers)
    <3>1. Keepers \subseteq LivePacks
      BY Zenon DEF Keepers
    <3>2. \A p \in Keepers : objects'[p] = objects[p]
      BY Zenon, <1>8, <3>1
    <3> QED
      BY Zenon, <2>5, <3>2 DEF ObjectsIn
  <2>7. SurvivorsClosed'
    BY Zenon, <1>5, <1>6, <1>7, <2>5, <2>6 DEF GcInv, SurvivorsClosed
  <2> QED
    BY Zenon, <2>1, <2>4, <2>7 DEF ChainInv
<1>12. \A t \in Slices : /\ Building(t)' => Building(t) /\ slices'[t].pack = slices[t].pack
                         /\ slices'[t].job = slices[t].job /\ slices'[t].chain = slices[t].chain
                         /\ Held(t)' => Held(t)
                         /\ slices'[t].pc = slices[t].pc \/
                               (t = s /\ slices'[t].pc = "upload" /\ rows = Marked)
                         /\ slices'[t].pc # "none" => slices[t].pc # "none"
  BY Zenon DEF Building, Held
<1>13. SlicesInv'
  <2>1. ChainIds'
    BY Zenon, <1>6, <1>12 DEF GcInv, ChainIds
  <2>2. SliceWalk'
    BY Zenon, <1>1, <1>6 DEF SliceWalk
  <2>3. SliceBuild'
    <3> SUFFICES ASSUME NEW t \in Slices, Building(t)'
                 PROVE  /\ slices[t].pack \in Packs
                        /\ packPush[slices[t].pack] = Null
                        /\ packState[slices[t].pack] # "none"
                        /\ Held(t) /\ slices[t].chain = gc.chain /\ gc.mode = "mark" =>
                              gc.phase = "build" /\ slices[t].pack = n
                        /\ slices'[t].pc = "upload" /\ slices[t].pack = n => objects'[n] = Marked
      BY ZenonT(30), <1>5, <1>6, <1>7, <1>12 DEF SliceBuild
    <3>1. slices[t].pc = "upload" /\ slices[t].pack = n => objects[n] = Marked
      BY Zenon, <1>12 DEF GcInv, SliceBuild
    <3>2. slices'[t].pc = "upload" /\ slices[t].pack = n => objects'[n] = Marked
      BY ZenonT(30), <1>1, <1>4, <1>12, <3>1
    <3> QED
      BY Zenon, <1>12, <3>2 DEF GcInv, SliceBuild
  <2> QED
    BY Zenon, <2>1, <2>2, <2>3 DEF SlicesInv
<1>14. OneBuilder'
  <2>1. Tame(jobs') /\ resurrected["gc_consolidate"] <= resurrected'["gc_consolidate"]
    BY SMTT(30), <1>2 DEF Tame, TameRow, JobTable, Row, Counters, GcKinds
  <2> QED
    BY Zenon, <1>2, <1>6, <1>12, <2>1, TameOneBuilder DEF GcInv, Counters
<1>15. GcTypeOK'
  BY Zenon, <1>2, <1>6, <1>10, TypePartsNext DEF StoreInv, ChainType, Counters
<1> QED
  BY Zenon, <1>9, <1>10, <1>11, <1>13, <1>14, <1>15, GcInvParts DEF Safe, GcInv, ChainInv, SlicesInv

\* A build slice inserts rows of marked objects.
LEMMA BuildRowsInv == \A s \in Slices : \A rows \in SUBSET Marked : GcInv /\ BuildRows(s, rows) => Safe
<1> SUFFICES ASSUME NEW s \in Slices, NEW rows \in SUBSET Marked, GcInv, BuildRows(s, rows) PROVE Safe
  OBVIOUS
<1>1. Building(s) /\ ChainFence(s) /\ objects' = [objects EXCEPT ![slices[s].pack] = @ \cup rows]
  BY Zenon DEF BuildRows, Building
<1>2. /\ StoreSame
      /\ UNCHANGED <<packState, chainVars, jobs, resurrected, strikes, lastChain, faults, slices>>
  BY Zenon DEF BuildRows, jobVars
<1>3. slices \in SliceTable
  BY Zenon, TypeParts DEF GcInv
<1> QED
  BY Zenon, <1>1, <1>2, <1>3, BuildGrows

\* A build slice that has read all its input has inserted a row for every mark.
LEMMA BuildCompleteInv == \A s \in Slices : GcInv /\ BuildComplete(s) => Safe
<1> SUFFICES ASSUME NEW s \in Slices, GcInv, BuildComplete(s) PROVE Safe
  OBVIOUS
<1>1. Building(s) /\ ChainFence(s) /\ objects' = [objects EXCEPT ![slices[s].pack] = @ \cup Marked]
  BY Zenon DEF BuildComplete, Building
<1>2. /\ StoreSame
      /\ UNCHANGED <<packState, chainVars, jobs, resurrected, strikes, lastChain, faults>>
      /\ slices' = [slices EXCEPT ![s].pc = "upload"]
  BY Zenon DEF BuildComplete
<1>3. slices \in SliceTable
  BY Zenon, TypeParts DEF GcInv
<1>4. slices' \in SliceTable
  BY ZenonT(30), <1>2, <1>3 DEF SliceTable, SliceRow
<1>5. /\ slices'[s].pc = "upload" /\ slices'[s].job = slices[s].job
      /\ slices'[s].chain = slices[s].chain /\ slices'[s].pack = slices[s].pack
      /\ \A t \in Slices : t # s => slices'[t] = slices[t]
  BY Zenon, <1>2, <1>3 DEF SliceTable, SliceRow
<1> QED
  BY Zenon, <1>1, <1>2, <1>4, <1>5, BuildGrows

\* R2 completes the upload of a slice, be it the current builder or a stale one.
LEMMA BuildUploadInv == \A s \in Slices : GcInv /\ BuildUpload(s) => Safe
<1> SUFFICES ASSUME NEW s \in Slices, GcInv, BuildUpload(s) PROVE Safe
  OBVIOUS
<1> DEFINE n == slices[s].pack
<1>1. slices[s].pc = "upload" /\ r2' = r2 \cup {n}
  BY Zenon DEF BuildUpload
<1>2. /\ UNCHANGED <<refs, refs_version, gc_epoch, packState, packPush, objects, pushState, pushEpoch,
                     edge, doomed>>
      /\ UNCHANGED <<gc, marked, bitmap, frontier, seen, jobs, resurrected, strikes, slices,
                     lastChain, faults>>
  BY Zenon DEF BuildUpload, refVars, packVars, pushVars, gcVars
<1>3. /\ n \in Packs /\ packState[n] # "none" /\ packPush[n] = Null
      /\ n = gc.new_pack => objects[gc.new_pack] = Marked
  BY Zenon, <1>1 DEF GcInv, SliceBuild, Building
<1>4. StoreTypeOK /\ ChainType /\ jobs \in JobTable /\ slices \in SliceTable /\ Counters
  BY Zenon, TypeParts DEF GcInv
<1>5. /\ LivePacks' = LivePacks /\ LiveObjects' = LiveObjects /\ Marked' = Marked /\ Kept' = Kept
      /\ RefTargets' = RefTargets /\ (CohortLive' <=> CohortLive) /\ Keepers' = Keepers
      /\ (Walking' <=> Walking) /\ ObjectsIn(marked)' = ObjectsIn(marked)
  BY Zenon, <1>2 DEF LivePacks, LiveObjects, ObjectsIn, Marked, Kept, RefTargets, CohortLive, Keepers, Walking
<1>6. StoreInv'
  <2>1. StoreTypeOK'
    BY Zenon, <1>1, <1>2, <1>3, <1>4 DEF StoreTypeOK
  <2>2. LiveClosed' /\ LiveBytes'
    BY Zenon, <1>1, <1>2, <1>5 DEF GcInv, StoreInv, LiveClosed, LiveBytes
  <2>3. gc_epoch <= gc_epoch'
    BY <1>2, <1>4 DEF StoreTypeOK
  <2>4. \A p \in Packs :
           /\ packState'[p] = "none" => packState[p] = "none" /\ objects'[p] = {} /\ p \notin r2'
           /\ packState[p] = "dead" => packState'[p] = "dead"
           /\ p \in r2 => p \in r2'
    BY Zenon, <1>1, <1>2, <1>3 DEF GcInv, StoreInv, FreshPacks
  <2> QED
    BY Zenon, <1>2, <1>5, <2>1, <2>2, <2>3, <2>4, StoreKept DEF GcInv
<1>7. ChainInv'
  <2>1. ChainShape' /\ Cohort' /\ NewPack' /\ Marks'
    BY Zenon, <1>1, <1>2, <1>3, <1>5 DEF GcInv, ChainShape, Cohort, NewPack, Marks
  <2>2. Walk'
    BY Zenon, <1>2, <1>5 DEF GcInv, Walk
  <2>3. ObjectsIn(Keepers)' = ObjectsIn(Keepers)
    BY Zenon, <1>2, <1>5 DEF ObjectsIn
  <2>4. SurvivorsClosed'
    BY Zenon, <1>2, <1>5, <2>3 DEF GcInv, SurvivorsClosed
  <2> QED
    BY Zenon, <2>1, <2>2, <2>4 DEF ChainInv
<1>8. SlicesInv' /\ OneBuilder'
  <2>1. \A t \in Slices : (Held(t)' <=> Held(t)) /\ (Building(t)' <=> Building(t))
                          /\ (InBatch(t)' <=> InBatch(t))
    BY Zenon, <1>2 DEF Held, Building, InBatch
  <2>2. \A i \in JobIds, st \in {"queued", "running", "dead"} : IsBuilder(i, st)' <=> IsBuilder(i, st)
    BY Zenon, <1>2 DEF IsBuilder
  <2>3. ChainIds' /\ SliceBuild'
    BY Zenon, <1>2, <1>5, <2>1 DEF GcInv, ChainIds, SliceBuild
  <2>4. SliceWalk'
    BY Zenon, <1>2, <1>5, <2>1 DEF GcInv, SliceWalk
  <2>5. OneBuilder'
    BY Zenon, <1>2, <2>1, <2>2 DEF GcInv, OneBuilder
  <2> QED
    BY Zenon, <2>3, <2>4, <2>5 DEF SlicesInv
<1>9. GcTypeOK'
  BY Zenon, <1>2, <1>4, <1>6, TypePartsNext DEF StoreInv, ChainType, Counters
<1> QED
  BY Zenon, <1>5, <1>6, <1>7, <1>8, <1>9, GcInvParts DEF Safe, GcInv, ChainInv, SlicesInv

\* Only gc.mpu_fails changes in the chain; slices only end.
LEMMA FailsInv ==
    ASSUME GcInv, UNCHANGED <<storeVars, marked, bitmap, frontier, seen, lastChain, resurrected>>,
           gc' \in GcRow, gc'.chain = gc.chain, gc'.mode = gc.mode, gc'.phase = gc.phase,
           gc'.refs_version = gc.refs_version, gc'.new_pack = gc.new_pack,
           Counters', jobs' \in JobTable, Tame(jobs'), slices' \in SliceTable,
           \A s \in Slices : slices'[s] \in {slices[s], NoSlice}
    PROVE  Safe
<1>1. jobs \in JobTable /\ Counters /\ ChainType
  BY Zenon, TypeParts DEF GcInv
<1>2. UNCHANGED <<refs, refs_version, gc_epoch, packState, packPush, objects, r2>>
  BY Zenon DEF storeVars
<1>3. StoreInv'
  BY Zenon, StoreStutter DEF GcInv
<1>4. GcTypeOK'
  BY Zenon, <1>1, <1>3, TypePartsNext DEF StoreInv, ChainType
<1>5. /\ LivePacks' = LivePacks /\ LiveObjects' = LiveObjects /\ Marked' = Marked /\ Kept' = Kept
      /\ RefTargets' = RefTargets /\ (CohortLive' <=> CohortLive) /\ Keepers' = Keepers
      /\ (Walking' <=> Walking) /\ ObjectsIn(marked)' = ObjectsIn(marked)
  BY Zenon, <1>2 DEF LivePacks, LiveObjects, ObjectsIn, Marked, Kept, RefTargets, CohortLive, Keepers, Walking
<1>6. ChainInv'
  <2>1. ChainShape' /\ Cohort' /\ NewPack' /\ Marks'
    BY Zenon, <1>2, <1>5 DEF GcInv, ChainShape, Cohort, NewPack, Marks
  <2>2. Walk'
    BY Zenon, <1>2, <1>5 DEF GcInv, Walk
  <2>3. ObjectsIn(Keepers)' = ObjectsIn(Keepers)
    BY ZenonT(40), <1>2, <1>5 DEF ObjectsIn
  <2>4. SurvivorsClosed'
    BY Zenon, <1>2, <1>5, <2>3 DEF GcInv, SurvivorsClosed
  <2> QED
    BY Zenon, <2>1, <2>2, <2>4 DEF ChainInv
<1>7. \A s \in Slices : slices'[s].pc # "none" => slices'[s] = slices[s]
  BY Zenon, NoSliceRow
<1>8. \A j \in JobIds : jobs'[j].state = "running" => jobs'[j] = jobs[j]
  BY Zenon DEF Tame, TameRow
<1>9. \A s \in Slices : /\ Building(s)' => Building(s) /\ slices'[s] = slices[s] /\ (Held(s)' => Held(s))
                        /\ InBatch(s)' => InBatch(s) /\ slices'[s] = slices[s]
  BY Zenon, <1>7, <1>8 DEF Building, InBatch, Held, GcInv, ChainIds
<1>10. SlicesInv'
  <2>1. ChainIds'
    BY SMTT(30), <1>1, <1>7, NoSliceRow DEF GcInv, ChainIds, Counters
  <2>2. SliceWalk'
    <3>1. SUFFICES ASSUME NEW t \in Slices, InBatch(t)', slices'[t].chain = gc'.chain, gc'.phase = "unset"
                   PROVE  /\ \A p \in marked' : slices'[t].bits[p] \subseteq objects'[p]
                          /\ Walking' =>
                                /\ slices'[t].batch \subseteq slices'[t].hits
                                /\ slices'[t].batch \subseteq frontier' \cup seen'
                                /\ \A p \in marked' : slices'[t].bits[p] \subseteq frontier' \cup seen'
                                /\ \A o \in slices'[t].batch :
                                      o \in Marked' \cup Kept' \/ \E p \in marked' : o \in slices'[t].bits[p]
      BY Zenon DEF SliceWalk
    <3>2. InBatch(t) /\ slices'[t] = slices[t] /\ slices[t].chain = gc.chain /\ gc.phase = "unset"
      BY Zenon, <3>1, <1>9
    <3>3. marked' = marked /\ frontier' = frontier /\ seen' = seen /\ objects' = objects
      BY Zenon, <1>2
    <3> QED
      BY Zenon, <3>2, <3>3, <1>5 DEF GcInv, SliceWalk
  <2>3. SliceBuild'
    BY Zenon, <1>2, <1>5, <1>9 DEF GcInv, SliceBuild
  <2> QED
    BY Zenon, <2>1, <2>2, <2>3 DEF SlicesInv
<1>11. OneBuilder'
  <2>1. resurrected["gc_consolidate"] <= resurrected'["gc_consolidate"]
    BY <1>1 DEF Counters, GcKinds
  <2> QED
    BY Zenon, <1>1, <1>9, <2>1, TameOneBuilder DEF GcInv, Counters
<1> QED
  BY Zenon, <1>3, <1>4, <1>5, <1>6, <1>10, <1>11, GcInvParts DEF Safe, GcInv, ChainInv, SlicesInv

\* A build that fails the first time is retried, with its failure counted.
LEMMA BuildRetryInv == \A s \in Slices : GcInv /\ BuildRetry(s) => Safe
<1> SUFFICES ASSUME NEW s \in Slices, GcInv, BuildRetry(s) PROVE Safe
  OBVIOUS
<1>1. jobs \in JobTable /\ slices \in SliceTable /\ Counters /\ ChainType
  BY Zenon, TypeParts DEF GcInv
<1>2. Building(s) /\ ChainFence(s)
  BY Zenon DEF BuildRetry, Building
<1>3. slices[s].job \in JobIds /\ jobs[slices[s].job].state = "running"
  BY Zenon, <1>2, FenceFacts
<1>4. jobs' \in JobTable /\ Tame(jobs')
  BY Zenon, <1>1, <1>3, TameLandErr DEF BuildRetry
<1>5. slices' \in SliceTable /\ \A t \in Slices : slices'[t] \in {slices[t], NoSlice}
  BY Zenon, <1>1, SliceDropped DEF BuildRetry
<1>6. UNCHANGED <<storeVars, marked, bitmap, frontier, seen, lastChain, resurrected, strikes>>
  BY Zenon, StoreSameVars DEF BuildRetry
<1>7. Counters'
  BY <1>1, <1>6 DEF BuildRetry, Counters
<1>8. gc' = [gc EXCEPT !.fails = 1]
  BY Zenon DEF BuildRetry
<1>9. /\ gc' \in GcRow /\ gc'.chain = gc.chain /\ gc'.mode = gc.mode /\ gc'.phase = gc.phase
      /\ gc'.refs_version = gc.refs_version /\ gc'.new_pack = gc.new_pack
  BY Zenon, <1>1, <1>8 DEF ChainType, GcRow
<1> QED
  BY Zenon, <1>4, <1>5, <1>6, <1>7, <1>9, FailsInv

\* A fresh build pack n is named by gc.new_pack, and the one it replaces, not
\* uploaded yet, is dead and empty.
LEMMA NewBuildPack ==
    ASSUME GcInv, NEW n \in Packs, packState[n] = "none",
           gc.phase = "build", gc.chain # 0, marked \subseteq LivePacks, Marked # {},
           gc.new_pack # Null => packState[gc.new_pack] = "ingesting",
           packState' \in [Packs -> PackStates], objects' \in [Packs -> SUBSET Oid],
           \A p \in Packs : /\ packState'[p] = IF p = n THEN "ingesting"
                                               ELSE IF p = gc.new_pack THEN "dead" ELSE packState[p]
                            /\ objects'[p] = IF p = gc.new_pack THEN {} ELSE objects[p],
           gc'.chain = gc.chain, gc'.mode = gc.mode, gc'.phase = gc.phase,
           gc'.refs_version = gc.refs_version, gc'.new_pack = n,
           StoreSame, UNCHANGED <<marked, bitmap, frontier, seen>>
    PROVE  /\ StoreInv' /\ ChainInv' /\ LiveObjects' = LiveObjects
           /\ n # gc.new_pack /\ packPush'[n] = Null /\ packPush' = packPush
           /\ \A t \in Slices : Building(t) => slices[t].pack # n
           /\ \A p \in Packs : packState[p] # "none" => packState'[p] # "none"
<1>1. StoreTypeOK /\ ChainType
  BY Zenon, TypeParts DEF GcInv
<1>2. UNCHANGED <<refs, refs_version, gc_epoch, packPush, r2, pushState, pushEpoch, edge, doomed>>
  BY Zenon DEF StoreSame, refVars, pushVars
<1>3. gc.new_pack \in Packs \cup {Null} /\ Null \notin Packs /\ marked \subseteq Packs
  BY Zenon, <1>1, NullAssumption DEF ChainType, GcRow
<1>4. n # gc.new_pack /\ objects[n] = {} /\ packPush[n] = Null /\ n \notin r2 /\ n \notin marked
  BY Zenon, <1>3 DEF GcInv, StoreInv, FreshPacks, LivePacks
<1>5. gc.new_pack # Null => packPush[gc.new_pack] = Null /\ gc.new_pack \notin marked
  BY Zenon DEF GcInv, NewPack
<1>6. LivePacks' = LivePacks
  BY <1>3, <1>4 DEF LivePacks
<1>7. /\ \A p \in LivePacks : objects'[p] = objects[p]
      /\ n \notin LivePacks /\ gc.new_pack \notin LivePacks
  BY Zenon, <1>3 DEF LivePacks
<1>8. LiveObjects' = LiveObjects /\ RefTargets' = RefTargets /\ Marked' = Marked
  <2>1. ASSUME NEW o PROVE o \in LiveObjects' <=> o \in LiveObjects
    <3>1. o \in LiveObjects' <=> \E p \in LivePacks : o \in objects'[p]
      BY Zenon, <1>6 DEF LiveObjects, ObjectsIn
    <3>2. o \in LiveObjects <=> \E p \in LivePacks : o \in objects[p]
      BY Zenon DEF LiveObjects, ObjectsIn
    <3> QED
      BY Zenon, <3>1, <3>2, <1>7
  <2>2. LiveObjects' = LiveObjects
    BY Zenon, <2>1
  <2>3. refs' = refs /\ marked' = marked /\ bitmap' = bitmap
    BY Zenon, <1>2
  <2>4. RefTargets' = RefTargets
    BY <2>3 DEF RefTargets
  <2>5. Marked' = Marked
    BY <2>3 DEF Marked
  <2> QED
    BY Zenon, <2>2, <2>4, <2>5
<1>9. StoreInv'
  <2>1. StoreTypeOK'
    BY Zenon, <1>1, <1>2 DEF StoreTypeOK
  <2>2. LiveClosed' /\ LiveBytes'
    BY Zenon, <1>2, <1>6, <1>7, <1>8 DEF GcInv, StoreInv, LiveClosed, LiveBytes
  <2>3. gc_epoch <= gc_epoch'
    BY <1>1, <1>2 DEF StoreTypeOK
  <2>4. \A p \in Packs :
           /\ packState'[p] = "none" => packState[p] = "none" /\ objects'[p] = {} /\ p \notin r2'
           /\ packState[p] = "dead" => packState'[p] = "dead"
           /\ packPush[p] # Null => objects'[p] = objects[p] /\ packState'[p] = packState[p]
    BY <1>2, <1>3, <1>4, <1>5 DEF GcInv, StoreInv, FreshPacks
  <2> QED
    BY Zenon, <1>2, <1>8, <2>1, <2>2, <2>3, <2>4, StoreKept DEF GcInv
<1>10. ChainInv'
  <2>1. \A p \in marked : packState'[p] = packState[p] /\ objects'[p] = objects[p]
    BY Zenon, <1>3, <1>4, <1>5
  <2>2. ChainShape' /\ Cohort'
    BY Zenon, <1>2, <1>6, <2>1 DEF GcInv, ChainShape, Cohort
  <2>3. NewPack'
    BY Zenon, <1>2, <1>4, <1>6, <1>8 DEF NewPack
  <2>4. ObjectsIn(marked)' = ObjectsIn(marked)
    BY <2>1 DEF ObjectsIn
  <2>5. Marks' /\ Walk'
    BY Zenon, <1>6, <1>8, <2>1, <2>4 DEF GcInv, Marks, Walk, Walking
  <2>6. Keepers' = Keepers /\ (CohortLive' <=> CohortLive)
    BY Zenon, <1>6, <1>7 DEF Keepers, CohortLive
  <2>7. ObjectsIn(Keepers)' = ObjectsIn(Keepers)
    BY <1>7, <2>6 DEF ObjectsIn, Keepers
  <2>8. SurvivorsClosed'
    BY Zenon, <1>2, <1>8, <2>6, <2>7 DEF GcInv, SurvivorsClosed
  <2> QED
    BY Zenon, <2>2, <2>3, <2>5, <2>8 DEF ChainInv
<1>11. \A t \in Slices : Building(t) => slices[t].pack # n
  BY Zenon DEF GcInv, SliceBuild
<1> QED
  BY Zenon, <1>2, <1>4, <1>8, <1>9, <1>10, <1>11

\* Slice s works on the fresh pack n; no other slice of the chain builds.
LEMMA NewBuildSlice ==
    ASSUME GcInv, NEW s \in Slices, NEW n \in Packs, NEW j \in JobIds,
           slices' \in SliceTable, slices'[s] = BuildSlice(j, n),
           gc.phase = "build", gc.chain # 0,
           gc'.chain = gc.chain, gc'.mode = gc.mode, gc'.phase = gc.phase, gc'.new_pack = n,
           lastChain' = lastChain, packPush' = packPush, packPush[n] = Null, packState'[n] # "none",
           \A p \in Packs : packState[p] # "none" => packState'[p] # "none",
           \A t \in Slices : t # s =>
              /\ slices'[t] = slices[t]
              /\ Building(t) => /\ slices[t].pack # n
                                /\ ~(Held(t)' /\ slices[t].chain = gc.chain /\ gc.mode = "mark")
    PROVE  SlicesInv'
<1>1. /\ slices'[s].pc = "build" /\ slices'[s].chain = gc.chain /\ slices'[s].pack = n
      /\ slices'[s].job = j
  BY Zenon DEF BuildSlice, NoSlice
<1>2. ChainIds'
  BY Zenon, <1>1 DEF GcInv, ChainIds
<1>3. SliceWalk'
  BY Zenon DEF SliceWalk
<1>4. SliceBuild'
  <2> SUFFICES ASSUME NEW t \in Slices, Building(t)'
               PROVE  /\ slices'[t].pack \in Packs
                      /\ packPush[slices'[t].pack] = Null
                      /\ packState'[slices'[t].pack] # "none"
                      /\ Held(t)' /\ slices'[t].chain = gc.chain /\ gc.mode = "mark" =>
                            slices'[t].pack = n
                      /\ ~(slices'[t].pc = "upload" /\ slices'[t].pack = n)
    BY Zenon DEF SliceBuild
  <2>1. CASE t = s
    BY Zenon, <1>1, <2>1
  <2>2. CASE t # s
    <3>1. slices'[t] = slices[t] /\ Building(t)
      BY Zenon, <2>2 DEF Building
    <3> QED
      BY Zenon, <2>2, <3>1 DEF GcInv, SliceBuild
  <2> QED
    BY Zenon, <2>1, <2>2
<1> QED
  BY Zenon, <1>2, <1>3, <1>4 DEF SlicesInv

\* The first gc_consolidate slice takes an unused id for the build pack.
LEMMA GcConsolidateBeginInv ==
    \A j \in JobIds, s \in Slices, n \in Packs : GcInv /\ GcConsolidateBegin(j, s, n) => Safe
<1> SUFFICES ASSUME NEW j \in JobIds, NEW s \in Slices, NEW n \in Packs, GcInv,
                    GcConsolidateBegin(j, s, n)
             PROVE  Safe
  OBVIOUS
<1> DEFINE row == BuildSlice(j, n)
<1>1. jobs \in JobTable /\ slices \in SliceTable /\ Counters /\ ChainType /\ StoreTypeOK
  BY Zenon, TypeParts DEF GcInv
<1>2. /\ FreshLease(s) /\ gc.new_pack = Null /\ gc.phase = "build" /\ ~NothingToBuild /\ Marked # {}
      /\ packState[n] = "none" /\ Dispatched(j, "gc_consolidate")
      /\ packState' = WithBuildPack(packState, n) /\ gc' = [gc EXCEPT !.new_pack = n]
      /\ jobs' = Claim(jobs, j, s) /\ slices' = [slices EXCEPT ![s] = row]
      /\ StoreSame
      /\ UNCHANGED <<objects, marked, bitmap, frontier, seen, resurrected, strikes, lastChain, faults>>
  BY Zenon DEF GcConsolidateBegin, Builder
<1>3. row \in SliceRow /\ row.job = j /\ row.pc = "build"
  BY Zenon, <1>1, NoSliceRow DEF SliceRow, ChainType, GcRow, NoSlice, BuildSlice
<1>4. /\ gc' \in GcRow /\ gc'.chain = gc.chain /\ gc'.mode = gc.mode /\ gc'.phase = gc.phase
      /\ gc'.refs_version = gc.refs_version /\ gc'.new_pack = n
  BY Zenon, <1>1, <1>2 DEF ChainType, GcRow
<1>5. gc.chain # 0 /\ marked \subseteq LivePacks
  BY Zenon, <1>1, <1>2 DEF GcInv, ChainShape, Cohort, ChainType, GcRow
<1>6. /\ packState' \in [Packs -> PackStates] /\ objects' \in [Packs -> SUBSET Oid]
      /\ \A p \in Packs : /\ packState'[p] = IF p = n THEN "ingesting"
                                             ELSE IF p = gc.new_pack THEN "dead" ELSE packState[p]
                          /\ objects'[p] = IF p = gc.new_pack THEN {} ELSE objects[p]
  BY Zenon, <1>1, <1>2, NullAssumption DEF WithBuildPack, StoreTypeOK, PackStates
<1>7. /\ StoreInv' /\ ChainInv' /\ LiveObjects' = LiveObjects
      /\ packPush'[n] = Null /\ packPush' = packPush
      /\ \A t \in Slices : Building(t) => slices[t].pack # n
      /\ \A p \in Packs : packState[p] # "none" => packState'[p] # "none"
  BY Zenon, <1>2, <1>4, <1>5, <1>6, NewBuildPack
<1> HIDE DEF row
<1>8. slices' \in SliceTable /\ slices'[s] = row /\ \A t \in Slices : t # s => slices'[t] = slices[t]
  BY Zenon, <1>1, <1>2, <1>3 DEF SliceTable
<1>9. jobs' \in JobTable /\ jobs'[j].lease = s /\ \A i \in JobIds : i # j => jobs'[i] = jobs[i]
  BY ZenonT(30), <1>1, <1>2, ClaimRows
<1>10. \A t \in Slices : t # s /\ Held(t)' =>
          Held(t) /\ jobs'[slices[t].job].kind = jobs[slices[t].job].kind
  BY Zenon, <1>8, <1>9, ClaimedHeld
<1>11. \A t \in Slices : t # s /\ Building(t) =>
          ~(Held(t)' /\ slices[t].chain = gc.chain /\ gc.mode = "mark")
  BY Zenon, <1>2, <1>10, NullAssumption DEF GcInv, SliceBuild
<1>12. SlicesInv'
  <2>1. packState'[n] # "none"
    BY Zenon, <1>6
  <2> QED
    BY Zenon, <1>2, <1>4, <1>5, <1>7, <1>8, <1>11, <2>1, NewBuildSlice DEF row
<1>13. OneBuilder'
  <2>1. jobs'[j].kind = "gc_consolidate"
    BY Zenon, <1>1, <1>2, ClaimRows DEF Dispatched, IsQueued
  <2>2. \A t \in Slices : Building(t)' /\ Held(t)' => jobs'[slices'[t].job].kind = "gc_consolidate"
    <3> SUFFICES ASSUME NEW t \in Slices, Building(t)', Held(t)'
                 PROVE  jobs'[slices'[t].job].kind = "gc_consolidate"
      OBVIOUS
    <3>1. CASE t = s
      BY Zenon, <1>3, <1>8, <2>1, <3>1
    <3>2. CASE t # s
      <4>1. slices'[t] = slices[t] /\ Building(t) /\ Held(t)
        BY Zenon, <1>8, <1>10, <3>2 DEF Building
      <4>2. jobs'[slices[t].job].kind = jobs[slices[t].job].kind
        BY Zenon, <1>10, <3>2
      <4> QED
        BY Zenon, <4>1, <4>2 DEF GcInv, OneBuilder
    <3> QED
      BY Zenon, <3>1, <3>2
  <2> QED
    BY Zenon, <1>2, <1>4, <2>2, ClaimedBuilder
<1>14. GcTypeOK'
  BY Zenon, <1>1, <1>2, <1>4, <1>7, <1>8, <1>9, TypePartsNext DEF StoreInv, ChainType, Counters
<1> QED
  BY Zenon, <1>7, <1>12, <1>13, <1>14, GcInvParts DEF Safe, GcInv, ChainInv, SlicesInv

\* A build that fails again gives up its pack and starts another, or aborts because the
\* refs moved.
LEMMA BuildRestartInv == \A s \in Slices, n \in Packs : GcInv /\ BuildRestart(s, n) => Safe
<1> SUFFICES ASSUME NEW s \in Slices, NEW n \in Packs, GcInv, BuildRestart(s, n) PROVE Safe
  OBVIOUS
<1> DEFINE old == gc.new_pack
           j == slices[s].job
<1>1. jobs \in JobTable /\ slices \in SliceTable /\ Counters /\ ChainType /\ StoreTypeOK
  BY Zenon, TypeParts DEF GcInv
<1>2. /\ Building(s) /\ ChainFence(s) /\ slices[s].pack \notin r2 /\ objects' = UnbuiltObjects
      /\ StoreSame /\ UNCHANGED <<resurrected, strikes, lastChain, faults>>
  BY Zenon DEF BuildRestart, Building
<1>3. /\ slices[s].pack = old /\ old \in Packs /\ gc.phase = "build" /\ gc.chain # 0
      /\ j \in JobIds /\ jobs[j].state = "running" /\ Marked # {} /\ packPush[old] = Null
      /\ packState[old] \in {"ingesting", "live"} /\ (packState[old] = "live" => old \in r2)
      /\ (packState[old] = "live" <=> ~(marked \subseteq LivePacks))
  BY Zenon, <1>2, FenceFacts
<1>4. packState[old] = "ingesting" /\ marked \subseteq LivePacks
  BY Zenon, <1>2, <1>3
<1>5. /\ UnbuiltState \in [Packs -> PackStates] /\ objects' \in [Packs -> SUBSET Oid]
      /\ \A p \in Packs : /\ UnbuiltState[p] = IF p = old THEN "dead" ELSE packState[p]
                          /\ objects'[p] = IF p = old THEN {} ELSE objects[p]
  BY Zenon, <1>1, <1>2, <1>3, <1>4 DEF UnbuiltState, UnbuiltObjects, StoreTypeOK, PackStates
<1>6. Counters'
  BY Zenon, <1>1, <1>2 DEF Counters
<1>7. CASE RefsMoved
  <2>1. /\ CanEnqueue(jobs, "gc_mark") /\ packState' = UnbuiltState /\ ClearChain
        /\ jobs' = AbortJobs(j) /\ slices' = [slices EXCEPT ![s] = NoSlice]
    BY Zenon, <1>7 DEF BuildRestart
  <2>2. jobs' \in JobTable /\ Tame(jobs')
    <3>1. CanEnqueue(Running(jobs, j), "gc_mark")
      BY Zenon, <1>1, <1>3, <2>1, CanStillEnqueue DEF GcKinds
    <3> QED
      BY Zenon, <1>1, <1>3, <2>1, <3>1, TameAbort
  <2>3. slices' \in SliceTable /\ \A t \in Slices : slices'[t] \in {slices[t], NoSlice}
    BY Zenon, <1>1, <2>1, SliceDropped
  <2>4. UNCHANGED <<refs, refs_version, gc_epoch, packPush, r2, pushState, pushEpoch, edge, doomed>>
    BY Zenon, <1>2 DEF StoreSame, refVars, pushVars
  <2>5. LivePacks' = LivePacks
    BY Zenon, <1>4, <1>5, <2>1 DEF LivePacks
  <2>6. \A p \in LivePacks : objects'[p] = objects[p]
    BY Zenon, <1>4, <1>5 DEF LivePacks
  <2>7. LiveObjects' = LiveObjects /\ RefTargets' = RefTargets
    BY Zenon, <2>4, <2>5, <2>6 DEF LiveObjects, ObjectsIn, RefTargets
  <2>8. \A p \in Packs :
           /\ packState'[p] = "none" => packState[p] = "none" /\ objects'[p] = {} /\ p \notin r2'
           /\ packState[p] = "dead" => packState'[p] = "dead"
           /\ packPush[p] # Null => objects'[p] = objects[p] /\ packState'[p] = packState[p]
    BY Zenon, <1>3, <1>5, <2>1, <2>4 DEF GcInv, StoreInv, FreshPacks
  <2>9. StoreInv'
    <3>1. StoreTypeOK'
      BY Zenon, <1>1, <1>5, <2>1, <2>4 DEF StoreTypeOK
    <3>2. LiveClosed' /\ LiveBytes'
      BY Zenon, <2>4, <2>5, <2>6, <2>7 DEF GcInv, StoreInv, LiveClosed, LiveBytes
    <3>3. gc_epoch <= gc_epoch'
      BY <1>1, <2>4 DEF StoreTypeOK
    <3> QED
      BY Zenon, <2>4, <2>7, <2>8, <3>1, <3>2, <3>3, StoreKept DEF GcInv
  <2>10. \A p \in Packs : packState[p] # "none" => packState'[p] # "none"
    BY Zenon, <2>8
  <2> QED
    BY Zenon, <1>2, <1>6, <2>1, <2>2, <2>3, <2>4, <2>7, <2>9, <2>10, ChainEnded DEF Safe
<1>8. CASE ~RefsMoved
  <2> DEFINE row == BuildSlice(j, n)
  <2>1. /\ packState[n] = "none" /\ packState' = WithBuildPack(UnbuiltState, n)
        /\ gc' = [gc EXCEPT !.new_pack = n, !.fails = 0]
        /\ slices' = [slices EXCEPT ![s] = row]
        /\ UNCHANGED <<marked, bitmap, frontier, seen, jobs>>
    BY Zenon, <1>8 DEF BuildRestart
  <2>2. row \in SliceRow /\ row.job = j /\ row.pc = "build"
    BY Zenon, <1>1, <1>3, NoSliceRow DEF SliceRow, ChainType, GcRow, NoSlice, BuildSlice
  <2>3. /\ gc' \in GcRow /\ gc'.chain = gc.chain /\ gc'.mode = gc.mode /\ gc'.phase = gc.phase
        /\ gc'.refs_version = gc.refs_version /\ gc'.new_pack = n
    BY Zenon, <1>1, <2>1 DEF ChainType, GcRow
  <2>4. /\ packState' \in [Packs -> PackStates]
        /\ \A p \in Packs : packState'[p] = IF p = n THEN "ingesting"
                                            ELSE IF p = old THEN "dead" ELSE packState[p]
    BY Zenon, <1>5, <2>1 DEF WithBuildPack, PackStates
  <2>5. /\ StoreInv' /\ ChainInv' /\ LiveObjects' = LiveObjects
        /\ packPush'[n] = Null /\ packPush' = packPush
        /\ \A t \in Slices : Building(t) => slices[t].pack # n
        /\ \A p \in Packs : packState[p] # "none" => packState'[p] # "none"
    BY ZenonT(40), <1>2, <1>3, <1>4, <1>5, <2>1, <2>3, <2>4, NewBuildPack
  <2> HIDE DEF row
  <2>6. slices' \in SliceTable /\ slices'[s] = row /\ \A t \in Slices : t # s => slices'[t] = slices[t]
    BY Zenon, <1>1, <2>1, <2>2 DEF SliceTable
  <2>7. \A t \in Slices : t # s => (Held(t)' <=> Held(t)) /\ (Building(t)' <=> Building(t))
    BY Zenon, <2>1, <2>6 DEF Held, Building
  <2>8. \A t \in Slices : t # s /\ Building(t) =>
           ~(Held(t)' /\ slices[t].chain = gc.chain /\ gc.mode = "mark")
    BY Zenon, <1>2, <2>7, SoleBuilder
  <2>9. SlicesInv'
    <3>1. packState'[n] # "none"
      BY Zenon, <2>4
    <3> QED
      BY ZenonT(40), <1>2, <1>3, <2>3, <2>5, <2>6, <2>8, <3>1, NewBuildSlice DEF row
  <2>10. OneBuilder'
    <3>1. Tame(jobs') /\ resurrected["gc_consolidate"] <= resurrected'["gc_consolidate"]
      BY <1>1, <1>2, <2>1 DEF Tame, TameRow, JobTable, Row, Counters, GcKinds
    <3>2. \A t \in Slices : Building(t)' => Building(t) /\ slices'[t].job = slices[t].job
      BY Zenon, <1>2, <2>2, <2>6, <2>7
    <3> QED
      BY Zenon, <1>1, <1>6, <2>1, <2>3, <3>1, <3>2, TameOneBuilder DEF GcInv, Counters
  <2>11. GcTypeOK'
    BY Zenon, <1>1, <1>6, <2>1, <2>3, <2>5, <2>6, TypePartsNext DEF StoreInv, ChainType
  <2> QED
    BY Zenon, <2>5, <2>9, <2>10, <2>11, GcInvParts DEF Safe, GcInv, ChainInv, SlicesInv
<1> QED
  BY Zenon, <1>7, <1>8

\* finish_build: the marked objects are live twice over, in the cohort and in
\* the build pack, until the sweep retires the cohort.
LEMMA FinishBuildInv == \A s \in Slices : GcInv /\ FinishBuild(s) => Safe
<1> SUFFICES ASSUME NEW s \in Slices, GcInv, FinishBuild(s) PROVE Safe
  OBVIOUS
<1> DEFINE n == gc.new_pack
           j == slices[s].job
<1>1. jobs \in JobTable /\ slices \in SliceTable /\ Counters /\ ChainType /\ StoreTypeOK
  BY Zenon, TypeParts DEF GcInv
<1>2. /\ Building(s) /\ ChainFence(s) /\ slices[s].pack \in r2 /\ gc.mode = "mark"
      /\ CanEnqueue(jobs, "gc_sweep")
      /\ packState' = [packState EXCEPT ![slices[s].pack] = "live"]
      /\ jobs' = Delete(Enqueue(jobs, "gc_sweep", gc.chain), j)
      /\ gc' = [gc EXCEPT !.phase = "sweep"] /\ slices' = [slices EXCEPT ![s] = NoSlice]
      /\ StoreSame
      /\ UNCHANGED <<objects, marked, bitmap, frontier, seen, resurrected, strikes, lastChain, faults>>
  BY Zenon DEF FinishBuild, Uploaded, Building
<1>3. /\ slices[s].pack = n /\ n \in Packs /\ gc.phase = "build" /\ gc.chain # 0 /\ n \notin marked
      /\ j \in JobIds /\ packPush[n] = Null
      /\ packState[n] \in {"ingesting", "live"} /\ (packState[n] = "live" <=> ~(marked \subseteq LivePacks))
      /\ objects[n] = Marked /\ Marked # {}
  BY Zenon, <1>2, FenceFacts
<1>4. marked \subseteq LivePacks /\ packState[n] = "ingesting"
  BY Zenon, <1>2, <1>3 DEF GcInv, Cohort
<1>5. UNCHANGED <<refs, refs_version, gc_epoch, packPush, r2, pushState, pushEpoch, edge, doomed>>
  BY Zenon, <1>2 DEF StoreSame, refVars, pushVars
<1>6. /\ packState' \in [Packs -> PackStates] /\ packState'[n] = "live"
      /\ \A p \in Packs : p # n => packState'[p] = packState[p]
  BY Zenon, <1>1, <1>2, <1>3 DEF StoreTypeOK, PackStates
<1>7. /\ gc' \in GcRow /\ gc'.chain = gc.chain /\ gc'.mode = "mark" /\ gc'.phase = "sweep"
      /\ gc'.refs_version = gc.refs_version /\ gc'.new_pack = n /\ gc.chain \in Nat
  BY Zenon, <1>1, <1>2 DEF ChainType, GcRow
<1>8. LivePacks' = LivePacks \cup {n}
  BY Zenon, <1>3, <1>6 DEF LivePacks
<1>9. Marked' = Marked /\ RefTargets' = RefTargets
  BY Zenon, <1>2, <1>5 DEF Marked, RefTargets
<1>10. Marked \subseteq LiveObjects
  BY Zenon, <1>4 DEF Marked, LiveObjects, ObjectsIn, GcInv, Marks
<1>11. LiveObjects' = LiveObjects
  BY Zenon, <1>2, <1>3, <1>8, <1>10 DEF LiveObjects, ObjectsIn
<1>12. StoreInv'
  <2>1. StoreTypeOK'
    BY Zenon, <1>1, <1>2, <1>5, <1>6 DEF StoreTypeOK
  <2>2. LiveClosed'
    BY Zenon, <1>9, <1>11 DEF GcInv, StoreInv, LiveClosed
  <2>3. LiveBytes'
    BY Zenon, <1>2, <1>3, <1>5, <1>8 DEF GcInv, StoreInv, LiveBytes
  <2>4. gc_epoch <= gc_epoch'
    BY <1>1, <1>5 DEF StoreTypeOK
  <2>5. \A p \in Packs :
           /\ packState'[p] = "none" => packState[p] = "none" /\ objects'[p] = {} /\ p \notin r2'
           /\ packState[p] = "dead" => packState'[p] = "dead"
           /\ packPush[p] # Null => objects'[p] = objects[p] /\ packState'[p] = packState[p]
    BY Zenon, <1>2, <1>3, <1>4, <1>5, <1>6 DEF GcInv, StoreInv, FreshPacks
  <2> QED
    BY Zenon, <1>5, <1>11, <2>1, <2>2, <2>3, <2>4, <2>5, StoreKept DEF GcInv
<1>13. ChainInv'
  <2>1. \A p \in marked : packState'[p] = packState[p]
    BY Zenon, <1>1, <1>3, <1>6 DEF ChainType
  <2>2. ChainShape' /\ Cohort'
    BY Zenon, <1>2, <1>3, <1>4, <1>5, <1>7, <1>8, <2>1 DEF GcInv, ChainShape, Cohort
  <2>3. NewPack'
    BY <1>2, <1>3, <1>5, <1>6, <1>7, <1>9, NullAssumption DEF NewPack
  <2>4. Marks' /\ Walk'
    BY Zenon, <1>2, <1>4, <1>7, <1>8, <1>9 DEF GcInv, Marks, Walk, Walking
  <2>5. Keepers' = Keepers
    BY Zenon, <1>2, <1>7, <1>8 DEF Keepers
  <2>6. ObjectsIn(Keepers)' = ObjectsIn(Keepers)
    BY Zenon, <1>2, <2>5 DEF ObjectsIn
  <2>7. CohortLive' <=> CohortLive
    BY Zenon, <1>2, <1>4, <1>8 DEF CohortLive
  <2>8. SurvivorsClosed'
    BY Zenon, <1>2, <1>3, <1>5, <1>7, <1>9, <2>6, <2>7 DEF GcInv, SurvivorsClosed
  <2> QED
    BY Zenon, <2>2, <2>3, <2>4, <2>8 DEF ChainInv
<1>14. slices' \in SliceTable /\ \A t \in Slices : slices'[t] \in {slices[t], NoSlice}
  BY Zenon, <1>1, <1>2, SliceDropped
<1>15. jobs' \in JobTable /\ Tame(jobs')
  BY Zenon, <1>1, <1>2, <1>3, <1>7, TameEnqueueDelete DEF GcKinds
<1>16. \A t \in Slices : slices'[t].pc # "none" => t # s /\ slices'[t] = slices[t]
  BY Zenon, <1>1, <1>2, <1>14, NoSliceRow DEF SliceTable
<1>17. \A t \in Slices :
          Building(t)' => t # s /\ Building(t) /\ slices'[t] = slices[t] /\ (Held(t)' => Held(t))
  BY <1>15, <1>16 DEF Building, Held, GcInv, ChainIds, Tame, TameRow
<1>18. SlicesInv'
  <2>1. ChainIds'
    BY <1>1, <1>2, <1>7, <1>14, <1>16, NoSliceRow DEF GcInv, ChainIds, Counters
  <2>2. SliceWalk'
    BY Zenon, <1>7 DEF SliceWalk
  <2>3. \A t \in Slices : Building(t)' => ~Held(t)'
    BY Zenon, <1>2, <1>17, SoleBuilder
  <2>4. \A t \in Slices : Building(t)' => packState'[slices[t].pack] # "none"
    BY Zenon, <1>6, <1>17 DEF GcInv, SliceBuild
  <2>5. SliceBuild'
    BY Zenon, <1>2, <1>5, <1>7, <1>9, <1>17, <2>3, <2>4 DEF GcInv, SliceBuild
  <2> QED
    BY Zenon, <2>1, <2>2, <2>5 DEF SlicesInv
<1>19. OneBuilder'
  BY Zenon, <1>1, <1>2, <1>7, <1>15, <1>17, TameOneBuilder DEF GcInv, Counters
<1>20. GcTypeOK'
  BY Zenon, <1>1, <1>2, <1>7, <1>12, <1>14, <1>15, TypePartsNext DEF StoreInv, ChainType, Counters
<1> QED
  BY Zenon, <1>11, <1>12, <1>13, <1>18, <1>19, <1>20, GcInvParts DEF Safe, GcInv, ChainInv, SlicesInv

\* A slice that took row j queues a row of another kind, then ends or fails.
LEMMA TameRunEnqueue ==
    ASSUME NEW j \in JobIds, jobs \in JobTable, jobs[j].state = "queued",
           NEW kind \in GcKinds \ {"gc_consolidate"}, NEW chain \in Nat,
           CanEnqueue(Running(jobs, j), kind)
    PROVE  /\ Delete(Enqueue(Running(jobs, j), kind, chain), j) \in JobTable
           /\ Tame(Delete(Enqueue(Running(jobs, j), kind, chain), j))
           /\ \A js \in LandErr(Enqueue(Running(jobs, j), kind, chain), j) : js \in JobTable /\ Tame(js)
<1> DEFINE a == Running(jobs, j)
           b == Enqueue(a, kind, chain)
<1>1. /\ a \in JobTable /\ a[j].kind = jobs[j].kind /\ a[j].state = "running"
      /\ \A i \in JobIds : i # j => a[i] = jobs[i]
  BY Zenon, RunningRows
<1> HIDE DEF a
<1>2. /\ b \in JobTable /\ \A i \in JobIds : TameRow(a, i) => TameRow(b, i)
      /\ \A i \in JobIds : a[i] # NoRow => b[i] = a[i]
  BY Zenon, <1>1, TameEnqueue DEF a
<1>3. b[j].kind = jobs[j].kind
  BY SMTT(30), <1>1, <1>2 DEF NoRow
<1>4. \A i \in JobIds : i # j => TameRow(b, i)
  BY Zenon, <1>1, <1>2 DEF TameRow, JobTable, Row
<1> HIDE DEF b
<1>5. /\ Delete(b, j) \in JobTable /\ Delete(b, j)[j] = NoRow
      /\ \A i \in JobIds : i # j => Delete(b, j)[i] = b[i]
  BY Zenon, <1>2, DeleteRows
<1>6. Tame(Delete(b, j))
  BY <1>4, <1>5 DEF Tame, TameRow, NoRow
<1>7. ASSUME NEW state \in {"queued", "dead"}
      PROVE  Release(b, j, state) \in JobTable /\ Tame(Release(b, j, state))
  <2>1. /\ Release(b, j, state) \in JobTable
        /\ Release(b, j, state)[j].kind = b[j].kind
        /\ Release(b, j, state)[j].state = state
        /\ \A i \in JobIds : i # j => Release(b, j, state)[i] = b[i]
    BY ZenonT(30), <1>2 DEF Release, JobTable, Row
  <2> QED
    BY Zenon, <1>3, <1>4, <2>1 DEF Tame, TameRow
<1>8. \A js \in LandErr(b, j) : js \in JobTable /\ Tame(js)
  BY Zenon, <1>7 DEF LandErr
<1> QED
  BY Zenon, <1>5, <1>6, <1>8 DEF a, b

\* Nothing of the cohort is marked: the sweep has no pack to wait for, and no
\* slice builds for this chain.
LEMMA GcConsolidateEmptyInv ==
    \A j \in JobIds, failed \in BOOLEAN : GcInv /\ GcConsolidateEmpty(j, failed) => Safe
<1> SUFFICES ASSUME NEW j \in JobIds, NEW failed \in BOOLEAN, GcInv, GcConsolidateEmpty(j, failed)
             PROVE  Safe
  OBVIOUS
<1> DEFINE queue == Enqueue(Running(jobs, j), "gc_sweep", gc.chain)
<1>1. jobs \in JobTable /\ slices \in SliceTable /\ Counters /\ ChainType /\ StoreTypeOK
  BY Zenon, TypeParts DEF GcInv
<1>2. /\ jobs[j].kind = "gc_consolidate" /\ jobs[j].state = "queued" /\ gc.phase = "build"
      /\ gc.new_pack = Null /\ gc.mode = "mark" /\ Marked = {} /\ CanEnqueue(jobs, "gc_sweep")
  BY Zenon DEF GcConsolidateEmpty, Builder, Dispatched, IsQueued
<1>3. UNCHANGED <<storeVars, marked, bitmap, frontier, seen, resurrected, strikes, slices, lastChain>>
  BY Zenon, StoreSameVars DEF GcConsolidateEmpty
<1>4. /\ Delete(queue, j) \in JobTable /\ Tame(Delete(queue, j))
      /\ \A js \in LandErr(queue, j) : js \in JobTable /\ Tame(js)
  <2>1. CanEnqueue(Running(jobs, j), "gc_sweep")
    BY Zenon, <1>1, <1>2, CanStillEnqueue DEF GcKinds
  <2>2. gc.chain \in Nat
    BY Zenon, <1>1 DEF ChainType, GcRow
  <2> QED
    BY Zenon, <1>1, <1>2, <2>1, <2>2, TameRunEnqueue DEF GcKinds
<1>5. CASE failed
  <2>1. jobs' \in LandErr(queue, j) /\ gc' = [gc EXCEPT !.fails = 0] /\ faults' = faults + 1
    BY Zenon, <1>5 DEF GcConsolidateEmpty
  <2>2. /\ gc' \in GcRow /\ gc'.chain = gc.chain /\ gc'.mode = gc.mode /\ gc'.phase = gc.phase
        /\ gc'.refs_version = gc.refs_version /\ gc'.new_pack = gc.new_pack
    BY Zenon, <1>1, <2>1 DEF ChainType, GcRow
  <2>3. Counters'
    BY <1>1, <1>3, <2>1 DEF Counters
  <2> QED
    BY Zenon, <1>1, <1>3, <1>4, <2>1, <2>2, <2>3, FailsInv
<1>6. CASE ~failed
  <2>1. jobs' = Delete(queue, j) /\ gc' = [gc EXCEPT !.fails = 0, !.phase = "sweep"] /\ faults' = faults
    BY Zenon, <1>6 DEF GcConsolidateEmpty
  <2>2. /\ gc' \in GcRow /\ gc'.chain = gc.chain /\ gc'.mode = "mark" /\ gc'.phase = "sweep"
        /\ gc'.refs_version = gc.refs_version /\ gc'.new_pack = Null
    BY Zenon, <1>1, <1>2, <2>1 DEF ChainType, GcRow
  <2>3. Counters' /\ ChainType'
    BY Zenon, <1>1, <1>3, <2>1, <2>2 DEF Counters, ChainType
  <2>4. jobs' \in JobTable /\ Tame(jobs')
    BY Zenon, <1>4, <2>1
  <2>5. UNCHANGED <<refs, refs_version, gc_epoch, packState, packPush, objects, r2>>
    BY Zenon, <1>3 DEF storeVars
  <2>6. StoreInv'
    BY Zenon, <1>3, StoreStutter DEF GcInv
  <2>7. /\ LivePacks' = LivePacks /\ LiveObjects' = LiveObjects /\ Marked' = Marked
        /\ RefTargets' = RefTargets /\ (CohortLive' <=> CohortLive) /\ Keepers' = Keepers
        /\ ObjectsIn(marked)' = ObjectsIn(marked)
    BY Zenon, <1>2, <1>3, <2>2, <2>5 DEF LivePacks, LiveObjects, ObjectsIn, Marked, RefTargets, CohortLive, Keepers
  <2>8. ObjectsIn(Keepers)' = ObjectsIn(Keepers)
    BY Zenon, <2>5, <2>7 DEF ObjectsIn
  <2>9. ChainInv'
    <3>1. ChainShape' /\ Cohort' /\ NewPack' /\ Marks' /\ Walk'
      BY Zenon, <1>2, <1>3, <2>2, <2>5, <2>7 DEF GcInv, ChainShape, Cohort, NewPack, Marks, Walk, Walking
    <3>2. SurvivorsClosed'
      BY Zenon, <1>2, <1>3, <2>2, <2>5, <2>7, <2>8 DEF GcInv, SurvivorsClosed
    <3> QED
      BY Zenon, <3>1, <3>2 DEF ChainInv
  <2>10. \A t \in Slices : /\ Building(t)' <=> Building(t)
                           /\ Building(t) /\ Held(t)' => Held(t)
    BY Zenon, <1>3, <2>4 DEF Building, Held, GcInv, ChainIds, Tame, TameRow
  <2>11. SlicesInv'
    <3>1. ChainIds' /\ SliceWalk'
      BY Zenon, <1>3, <2>2 DEF GcInv, ChainIds, SliceWalk
    <3>2. SliceBuild'
      BY Zenon, <1>2, <1>3, <2>2, <2>5, <2>7, <2>10, NullAssumption DEF GcInv, SliceBuild
    <3> QED
      BY Zenon, <3>1, <3>2 DEF SlicesInv
  <2>12. OneBuilder'
    BY Zenon, <1>1, <1>3, <2>2, <2>4, <2>10, TameOneBuilder DEF GcInv, Counters
  <2>13. GcTypeOK'
    BY Zenon, <1>1, <1>3, <2>3, <2>4, <2>6, TypePartsNext DEF StoreInv
  <2> QED
    BY Zenon, <2>6, <2>7, <2>9, <2>11, <2>12, <2>13, GcInvParts DEF Safe, GcInv, ChainInv, SlicesInv
<1> QED
  BY Zenon, <1>5, <1>6

-----------------------------------------------------------------------------
(* Retiring a cohort. *)

\* The cohort goes dead and, without an error, loses its rows; the store stays
\* sound if what remains live is closed and nothing is lost without the epoch.
LEMMA CohortRetired ==
    ASSUME GcInv, gc.chain # 0, NEW states \in [Packs -> PackStates],
           packState' = DeadCohort(states), objects' \in {objects, WithoutCohortRows},
           UNCHANGED <<refs, refs_version, packPush, r2, pushState, pushEpoch, edge, doomed>>,
           gc_epoch' \in Nat, gc_epoch <= gc_epoch',
           \A p \in Packs : states[p] # packState[p] =>
              /\ p = gc.new_pack /\ p \in r2 /\ objects[p] # {} /\ states[p] = "live"
              /\ packState[p] = "ingesting",
           LiveObjects \subseteq LiveObjects' \/ gc_epoch < gc_epoch',
           RefTargets \cup LinksOf(LiveObjects') \subseteq LiveObjects'
    PROVE  /\ StoreInv'
           /\ \A p \in Packs : packState[p] # "none" => packState'[p] # "none"
<1>1. StoreTypeOK /\ ChainType
  BY Zenon, TypeParts DEF GcInv
<1>2. marked \subseteq Packs /\ gc.new_pack \in Packs \cup {Null} /\ Null \notin Packs
  BY Zenon, <1>1, NullAssumption DEF ChainType, GcRow
<1>3. \A p \in marked : packState[p] \in {"live", "dead", "gone"}
  BY Zenon DEF GcInv, Cohort
<1>4. gc.new_pack # Null => gc.new_pack \notin marked /\ packPush[gc.new_pack] = Null
  BY Zenon DEF GcInv, NewPack
<1>5. /\ packState' \in [Packs -> PackStates] /\ objects' \in [Packs -> SUBSET Oid]
      /\ \A p \in Packs : /\ packState'[p] = IF p \in marked /\ states[p] # "gone" THEN "dead" ELSE states[p]
                          /\ objects'[p] \in {objects[p], {}}
                          /\ p \notin marked => objects'[p] = objects[p]
  BY Zenon, <1>1, <1>2 DEF DeadCohort, WithoutCohortRows, StoreTypeOK, PackStates
<1>6. \A p \in marked : states[p] = packState[p]
  BY Zenon, <1>2, <1>4
<1>7. \A p \in LivePacks' : p \notin marked /\ p \in Packs /\ states[p] = "live" /\ objects'[p] = objects[p]
  BY Zenon, <1>5, <1>6 DEF LivePacks
<1>8. StoreTypeOK'
  BY Zenon, <1>1, <1>5 DEF StoreTypeOK
<1>9. LiveBytes'
  <2>1. \A p \in LivePacks' : p \in r2 /\ objects[p] # {}
    BY Zenon, <1>7 DEF GcInv, StoreInv, LiveBytes, LivePacks
  <2> QED
    BY Zenon, <1>7, <2>1 DEF LiveBytes
<1>10. LiveClosed'
  BY Zenon DEF LiveClosed, RefTargets
<1>11. \A p \in Packs :
          /\ packState'[p] = "none" => packState[p] = "none" /\ objects'[p] = {} /\ p \notin r2'
          /\ packState[p] = "dead" => packState'[p] = "dead"
          /\ packPush[p] # Null =>
                /\ objects'[p] \subseteq objects[p]
                /\ packState'[p] = "ingesting" <=> packState[p] = "ingesting"
                /\ packState[p] = "ingesting" => objects'[p] = objects[p]
  <2> SUFFICES ASSUME NEW p \in Packs
               PROVE  /\ packState'[p] = "none" =>
                            packState[p] = "none" /\ objects'[p] = {} /\ p \notin r2'
                      /\ packState[p] = "dead" => packState'[p] = "dead"
                      /\ packPush[p] # Null =>
                            /\ objects'[p] \subseteq objects[p]
                            /\ packState'[p] = "ingesting" <=> packState[p] = "ingesting"
                            /\ packState[p] = "ingesting" => objects'[p] = objects[p]
    OBVIOUS
  <2>1. packState[p] = "none" => objects[p] = {} /\ p \notin r2
    BY Zenon DEF GcInv, StoreInv, FreshPacks
  <2>2. CASE p \in marked
    BY Zenon, <1>3, <1>5, <1>6, <2>1, <2>2
  <2>3. CASE p \notin marked
    BY Zenon, <1>2, <1>4, <1>5, <2>1, <2>3
  <2> QED
    BY Zenon, <2>2, <2>3
<1>12. StoreInv'
  BY Zenon, <1>8, <1>9, <1>10, <1>11, StoreKept DEF GcInv
<1> QED
  BY Zenon, <1>11, <1>12

\* The chain after an error in the middle of a retirement: its cohort is dead,
\* its build pack, if any, is live.
LEMMA HalfRetired ==
    ASSUME GcInv, StoreInv', gc.chain # 0, NEW states \in [Packs -> PackStates],
           packState' = DeadCohort(states),
           UNCHANGED <<objects, gc, marked, bitmap, frontier, seen, refs_version, packPush, r2,
                       lastChain, resurrected, strikes>>,
           gc.phase # "unset", gc.mode = "mark" => gc.phase = "sweep",
           \A p \in Packs : states[p] # packState[p] => p = gc.new_pack,
           gc.new_pack # Null => states[gc.new_pack] = "live",
           gc.mode = "compact" => gc.new_pack # Null,
           \A p \in Packs : packState[p] # "none" => packState'[p] # "none",
           faults' \in Nat, jobs' \in JobTable, Tame(jobs'), slices' \in SliceTable,
           \A s \in Slices : slices'[s] \in {slices[s], NoSlice}
    PROVE  GcInv'
<1>1. StoreTypeOK /\ ChainType /\ Counters /\ jobs \in JobTable
  BY Zenon, TypeParts DEF GcInv
<1>2. marked \subseteq Packs /\ marked # {} /\ gc.new_pack \in Packs \cup {Null}
  BY Zenon, <1>1 DEF ChainType, GcRow, GcInv, Cohort
<1>3. gc.new_pack # Null => gc.new_pack \notin marked
  BY Zenon DEF GcInv, NewPack
<1>4. /\ \A p \in marked : packState'[p] \in {"dead", "gone"}
      /\ \A p \in Packs \ marked : packState'[p] = states[p]
  BY Zenon, <1>2 DEF DeadCohort
<1>5. marked \cap LivePacks' = {}
  BY Zenon, <1>4 DEF LivePacks
<1>6. Marked' = Marked
  BY Zenon DEF Marked
<1>7. ChainInv'
  <2>1. ChainShape' /\ Walk'
    BY Zenon DEF GcInv, ChainShape, Walk, Walking
  <2>2. Cohort'
    BY Zenon, <1>2, <1>4, <1>5 DEF GcInv, Cohort
  <2>3. ~(marked \subseteq LivePacks')
    BY Zenon, <1>2, <1>5
  <2>4. NewPack'
    BY Zenon, <1>2, <1>3, <1>4, <1>6, <2>3 DEF GcInv, NewPack
  <2>5. Marks' /\ SurvivorsClosed'
    BY Zenon, <1>2, <1>5, <2>3 DEF Marks, SurvivorsClosed, CohortLive
  <2> QED
    BY Zenon, <2>1, <2>2, <2>4, <2>5 DEF ChainInv
<1>8. \A s \in Slices : slices'[s].pc # "none" => slices'[s] = slices[s]
  BY Zenon, NoSliceRow
<1>9. \A s \in Slices : Building(s)' => Building(s) /\ slices'[s] = slices[s] /\ (Held(s)' => Held(s))
  BY SMTT(30), <1>8 DEF Building, Held, GcInv, ChainIds, Tame, TameRow
<1>10. SlicesInv'
  <2>1. ChainIds'
    <3>1. \A s \in Slices : slices'[s].chain = slices[s].chain \/ slices'[s].chain = 0
      BY Zenon, NoSliceRow
    <3>2. lastChain \in Nat /\ lastChain' = lastChain /\ gc' = gc
      BY Zenon, <1>1 DEF Counters
    <3>3. \A s \in Slices : slices'[s].chain <= lastChain
      BY SMTT(30), <3>1, <3>2 DEF GcInv, ChainIds
    <3> QED
      BY Zenon, <1>8, <3>2, <3>3 DEF GcInv, ChainIds
  <2>2. SliceWalk'
    BY Zenon DEF SliceWalk
  <2>3. SliceBuild'
    <3>1. SUFFICES ASSUME NEW s \in Slices, Building(s)'
                   PROVE  /\ slices'[s].pack \in Packs
                          /\ packPush'[slices'[s].pack] = Null
                          /\ packState'[slices'[s].pack] # "none"
                          /\ Held(s)' /\ slices'[s].chain = gc'.chain /\ gc'.mode = "mark" =>
                                gc'.phase = "build" /\ slices'[s].pack = gc'.new_pack
                          /\ slices'[s].pc = "upload" /\ slices'[s].pack = gc'.new_pack =>
                                objects'[gc'.new_pack] = Marked'
      BY Zenon DEF SliceBuild
    <3>2. Building(s) /\ slices'[s] = slices[s] /\ (Held(s)' => Held(s))
      BY Zenon, <3>1, <1>9
    <3>3. gc' = gc /\ objects' = objects /\ packPush' = packPush /\ Marked' = Marked
      BY Zenon, <1>6
    <3>4. /\ slices[s].pack \in Packs
          /\ packPush[slices[s].pack] = Null
          /\ packState[slices[s].pack] # "none"
          /\ Held(s) /\ slices[s].chain = gc.chain /\ gc.mode = "mark" =>
                gc.phase = "build" /\ slices[s].pack = gc.new_pack
          /\ slices[s].pc = "upload" /\ slices[s].pack = gc.new_pack =>
                objects[gc.new_pack] = Marked
      BY Zenon, <3>2 DEF GcInv, SliceBuild
    <3>5. packState'[slices[s].pack] # "none"
      BY Zenon, <3>4
    <3> QED
      BY Zenon, <3>2, <3>3, <3>4, <3>5
  <2> QED
    BY Zenon, <2>1, <2>2, <2>3 DEF SlicesInv
<1>11. OneBuilder'
  <2>1. resurrected["gc_consolidate"] <= resurrected'["gc_consolidate"]
    <3>1. resurrected["gc_consolidate"] \in Nat /\ resurrected' = resurrected
      BY Zenon, <1>1 DEF Counters, GcKinds
    <3> QED
      BY SMTT(30), <3>1
  <2> QED
    BY Zenon, <1>1, <1>9, <2>1, TameOneBuilder DEF GcInv, Counters
<1>12. GcTypeOK'
  BY Zenon, <1>1, TypePartsNext DEF StoreInv, ChainType, Counters
<1> QED
  BY Zenon, <1>7, <1>10, <1>11, <1>12, GcInvParts DEF GcInv, ChainInv, SlicesInv

\* gc_sweep retires the cohort once its survivors are live elsewhere, and moves the epoch;
\* an error in between leaves a state that the next sweep finishes.
LEMMA GcSweepInv == \A j \in JobIds, failed \in BOOLEAN : GcInv /\ GcSweep(j, failed) => Safe
<1> SUFFICES ASSUME NEW j \in JobIds, NEW failed \in BOOLEAN, GcInv, GcSweep(j, failed) PROVE Safe
  OBVIOUS
<1>1. jobs \in JobTable /\ slices \in SliceTable /\ Counters /\ ChainType /\ StoreTypeOK
  BY Zenon, TypeParts DEF GcInv
<1>2. /\ jobs[j].state = "queued" /\ gc.phase = "sweep" /\ ~RefsMoved
      /\ gc_epoch' = gc_epoch + 1 /\ packState' = DeadCohort(packState)
      /\ UNCHANGED <<refs, refs_version, packPush, r2, pushState, pushEpoch, edge, doomed,
                     strikes, slices, lastChain>>
  BY Zenon DEF GcSweep, BumpedEpoch, Sweeper, Dispatched, IsQueued, refVars, pushVars
<1>3. gc.mode = "mark" /\ gc.chain # 0 /\ refs_version = gc.refs_version
  <2>1. gc.mode \in {"mark", "compact"}
    BY Zenon, <1>1 DEF ChainType, GcRow
  <2> QED
    BY Zenon, <1>2, <2>1 DEF GcInv, ChainShape, RefsMoved
<1>4. objects' \in {objects, WithoutCohortRows}
  BY Zenon DEF GcSweep
<1>5. packState \in [Packs -> PackStates] /\ marked \subseteq Packs /\ marked # {}
      /\ gc_epoch' \in Nat /\ gc_epoch <= gc_epoch' /\ gc_epoch < gc_epoch' /\ gc_epoch \in Nat
  BY SMTT(30), <1>1, <1>2, <1>3 DEF StoreTypeOK, ChainType, GcInv, Cohort
<1>6. LivePacks' = LivePacks \ marked
  BY Zenon, <1>2 DEF DeadCohort, LivePacks
<1>7. LiveObjects' = ObjectsIn(LivePacks \ marked)
  <2>1. \A p \in LivePacks \ marked : objects'[p] = objects[p]
    BY Zenon, <1>4 DEF WithoutCohortRows, LivePacks
  <2> QED
    BY Zenon, <1>6, <2>1 DEF LiveObjects, ObjectsIn
<1>8. RefTargets \cup LinksOf(LiveObjects') \subseteq LiveObjects'
  <2>1. CASE CohortLive
    <3>1. LiveObjects' = Marked \cup ObjectsIn(Keepers)
      <4>1. CASE gc.new_pack = Null
        <5>1. Marked = {}
          BY Zenon, <1>2, <4>1 DEF GcInv, NewPack
        <5>2. Keepers = LivePacks \ marked
          BY Zenon, <4>1, NullAssumption DEF Keepers, LivePacks
        <5> QED
          BY Zenon, <1>7, <5>1, <5>2
      <4>2. CASE gc.new_pack # Null
        <5>1. gc.new_pack \in Packs /\ gc.new_pack \notin marked /\ packState[gc.new_pack] = "live"
              /\ (gc.new_pack \in r2 => objects[gc.new_pack] = Marked)
          BY Zenon, <1>1, <1>2, <4>2 DEF GcInv, NewPack, ChainType, GcRow
        <5>2. gc.new_pack \in LivePacks
          BY Zenon, <5>1 DEF LivePacks
        <5>3. objects[gc.new_pack] = Marked
          BY Zenon, <5>1, <5>2 DEF GcInv, StoreInv, LiveBytes
        <5>4. LivePacks \ marked = Keepers \cup {gc.new_pack}
          BY Zenon, <5>1, <5>2 DEF Keepers
        <5> QED
          BY Zenon, <1>7, <5>3, <5>4 DEF ObjectsIn
      <4> QED
        BY Zenon, <4>1, <4>2
    <3> QED
      BY Zenon, <1>2, <1>3, <2>1, <3>1 DEF GcInv, SurvivorsClosed
  <2>2. CASE ~CohortLive
    <3>1. marked \cap LivePacks = {}
      BY Zenon, <1>5, <2>2 DEF CohortLive, GcInv, Cohort
    <3>2. LivePacks \ marked = LivePacks
      BY Zenon, <3>1
    <3>3. LiveObjects' = LiveObjects
      BY Zenon, <1>7, <3>2 DEF LiveObjects
    <3> QED
      BY Zenon, <3>3 DEF GcInv, StoreInv, LiveClosed
  <2> QED
    BY Zenon, <2>1, <2>2
<1>9. StoreInv' /\ \A p \in Packs : packState[p] # "none" => packState'[p] # "none"
  BY Zenon, <1>2, <1>3, <1>4, <1>5, <1>8, CohortRetired
<1>10. CASE failed
  <2>1. jobs' \in LandErr(jobs, j) /\ faults' = faults + 1 /\ UNCHANGED <<objects, chainVars, resurrected>>
    BY Zenon, <1>10 DEF GcSweep
  <2>2. UNCHANGED <<gc, marked, bitmap, frontier, seen>>
    BY Zenon, <2>1 DEF chainVars
  <2>3. jobs' \in JobTable /\ Tame(jobs')
    BY Zenon, <1>1, <1>2, <2>1, TameLandErr
  <2>4. faults' \in Nat
    BY <1>1, <2>1 DEF Counters
  <2>5. gc.new_pack # Null => packState[gc.new_pack] = "live"
    BY Zenon, <1>2 DEF GcInv, NewPack
  <2>6. GcInv'
    BY Zenon, <1>1, <1>2, <1>3, <1>5, <1>9, <2>1, <2>2, <2>3, <2>4, <2>5, HalfRetired
  <2> QED
    BY Zenon, <1>2, <1>5, <2>6 DEF Safe
<1>11. CASE ~failed
  <2>1. ClearChain /\ resurrected' = [k \in GcKinds |-> 0] /\ jobs' = Delete(jobs, j) /\ faults' = faults
    BY Zenon, <1>11 DEF GcSweep
  <2>2. jobs' \in JobTable /\ Tame(jobs')
    BY Zenon, <1>1, <2>1, TameDelete
  <2>3. Counters'
    BY Zenon, <1>1, <1>2, <2>1 DEF Counters
  <2>4. GcInv'
    BY Zenon, <1>1, <1>2, <1>9, <2>1, <2>2, <2>3, ChainEnded
  <2> QED
    BY Zenon, <1>2, <1>5, <2>4 DEF Safe
<1> QED
  BY Zenon, <1>10, <1>11

\* The swap: the build pack takes the place of its cohort, object for object.
LEMMA SwapInv == \A s \in Slices, failed, again \in BOOLEAN : GcInv /\ Swap(s, failed, again) => Safe
<1> SUFFICES ASSUME NEW s \in Slices, NEW failed \in BOOLEAN, NEW again \in BOOLEAN, GcInv,
                    Swap(s, failed, again)
             PROVE  Safe
  OBVIOUS
<1> DEFINE n == gc.new_pack
           j == slices[s].job
           states == [packState EXCEPT ![n] = "live"]
<1>1. jobs \in JobTable /\ slices \in SliceTable /\ Counters /\ ChainType /\ StoreTypeOK
  BY Zenon, TypeParts DEF GcInv
<1>2. /\ Building(s) /\ ChainFence(s) /\ slices[s].pack \in r2 /\ gc.mode = "compact"
      /\ slices' = [slices EXCEPT ![s] = NoSlice] /\ StoreSame /\ UNCHANGED <<strikes, lastChain>>
  BY Zenon DEF Swap, Uploaded, Building
<1>3. /\ slices[s].pack = n /\ n \in Packs /\ gc.phase = "build" /\ gc.chain # 0 /\ n \notin marked
      /\ j \in JobIds /\ jobs[j].state = "running" /\ packPush[n] = Null
      /\ packState[n] \in {"ingesting", "live"} /\ (packState[n] = "live" <=> ~(marked \subseteq LivePacks))
      /\ objects[n] = Marked /\ Marked # {}
  BY Zenon, <1>2, FenceFacts
<1>4. UNCHANGED <<refs, refs_version, gc_epoch, packPush, r2, pushState, pushEpoch, edge, doomed>>
  BY Zenon, <1>2 DEF StoreSame, refVars, pushVars
<1>5. slices' \in SliceTable /\ \A t \in Slices : slices'[t] \in {slices[t], NoSlice}
  BY Zenon, <1>1, <1>2, SliceDropped
<1>6. CASE ~CohortLive
  <2>1. WipeAll /\ jobs' = Delete(jobs, j) /\ UNCHANGED <<resurrected, faults>>
    BY Zenon, <1>6 DEF Swap
  <2>2. jobs' \in JobTable /\ Tame(jobs') /\ Counters'
    BY Zenon, <1>1, <1>2, <1>3, <2>1, TameDelete DEF Counters
  <2> QED
    BY Zenon, <1>2, <1>5, <2>1, <2>2, WipedChainInv DEF Safe
<1>7. CASE CohortLive
  <2>1. packState' = DeadCohort(states)
    BY Zenon, <1>3, <1>7 DEF Swap
  <2>2. marked \subseteq LivePacks /\ packState[n] = "ingesting" /\ marked # {} /\ marked \subseteq Packs
    BY Zenon, <1>1, <1>3, <1>7 DEF CohortLive, ChainType
  <2>3. /\ states \in [Packs -> PackStates] /\ states[n] = "live"
        /\ \A p \in Packs : p # n => states[p] = packState[p]
    BY Zenon, <1>1, <1>3 DEF StoreTypeOK, PackStates
  <2> HIDE DEF states
  <2>4. objects' \in {objects, WithoutCohortRows}
    BY Zenon, <1>7 DEF Swap
  <2>5. LivePacks' = (LivePacks \ marked) \cup {n}
    BY Zenon, <1>3, <2>1, <2>2, <2>3 DEF LivePacks, DeadCohort
  <2>6. LiveObjects' = LiveObjects
    <3>1. \A p \in Packs \ marked : objects'[p] = objects[p]
      BY Zenon, <2>4 DEF WithoutCohortRows
    <3>2. LiveObjects' = ObjectsIn(LivePacks \ marked) \cup Marked
      <4>1. objects'[n] = Marked /\ \A p \in LivePacks \ marked : objects'[p] = objects[p]
        BY Zenon, <1>3, <3>1 DEF LivePacks
      <4> HIDE DEF n
      <4>2. \A o : o \in LiveObjects' <=> o \in Marked \/ \E p \in LivePacks \ marked : o \in objects[p]
        BY Zenon, <2>5, <4>1 DEF LiveObjects, ObjectsIn
      <4> QED
        BY Zenon, <4>2 DEF ObjectsIn
    <3>3. ObjectsIn(marked) = Marked
      BY Zenon, <1>2, <2>2 DEF GcInv, Marks, Marked, ObjectsIn
    <3> QED
      BY Zenon, <2>2, <3>2, <3>3 DEF LiveObjects, ObjectsIn
  <2>7. StoreInv' /\ \A p \in Packs : packState[p] # "none" => packState'[p] # "none"
    <3>1. gc_epoch' \in Nat /\ gc_epoch <= gc_epoch'
      BY <1>1, <1>4 DEF StoreTypeOK
    <3>2. RefTargets \cup LinksOf(LiveObjects') \subseteq LiveObjects'
      BY Zenon, <2>6 DEF GcInv, StoreInv, LiveClosed
    <3>3. \A p \in Packs : states[p] # packState[p] =>
              /\ p = gc.new_pack /\ p \in r2 /\ objects[p] # {} /\ states[p] = "live"
              /\ packState[p] = "ingesting"
      BY Zenon, <1>2, <1>3, <2>2, <2>3
    <3> QED
      BY Zenon, <1>3, <1>4, <2>1, <2>3, <2>4, <2>6, <3>1, <3>2, <3>3, CohortRetired
  <2>8. CASE failed
    <3>1. jobs' \in LandErr(jobs, j) /\ faults' = faults + 1 /\ UNCHANGED <<objects, chainVars, resurrected>>
      BY Zenon, <1>7, <2>8 DEF Swap
    <3>2. UNCHANGED <<gc, marked, bitmap, frontier, seen>>
      BY Zenon, <3>1 DEF chainVars
    <3>3. jobs' \in JobTable /\ Tame(jobs') /\ faults' \in Nat
      BY SMTT(30), <1>1, <1>3, <3>1, TameLandErr DEF Counters
    <3>4. n # Null
      BY Zenon, <1>3, NullAssumption
    <3>5. \A p \in Packs : states[p] # packState[p] => p = gc.new_pack
      BY Zenon, <2>3
    <3>6. GcInv'
      BY Zenon, <1>2, <1>3, <1>4, <1>5, <2>1, <2>3, <2>7, <3>1, <3>2, <3>3, <3>4, <3>5, HalfRetired
    <3> QED
      BY Zenon, <2>6, <3>6 DEF Safe
  <2>9. CASE ~failed
    <3>1. /\ again => CanEnqueue(jobs, "gc_compact")
          /\ ClearChain /\ resurrected' = [resurrected EXCEPT !["gc_compact"] = 0] /\ faults' = faults
          /\ jobs' = Delete(IF again THEN Enqueue(jobs, "gc_compact", 0) ELSE jobs, j)
      BY Zenon, <1>7, <2>9 DEF Swap
    <3>2. jobs' \in JobTable /\ Tame(jobs')
      BY Zenon, <1>1, <1>3, <3>1, TameEnqueueDelete, TameDelete DEF GcKinds
    <3>3. Counters'
      BY Zenon, <1>1, <1>2, <3>1 DEF Counters
    <3>4. GcInv'
      BY Zenon, <1>2, <1>4, <1>5, <2>7, <3>1, <3>2, <3>3, ChainEnded
    <3> QED
      BY Zenon, <2>6, <3>4 DEF Safe
  <2> QED
    BY Zenon, <2>8, <2>9
<1> QED
  BY Zenon, <1>6, <1>7

=============================================================================
