----------------------------- MODULE RepoStore -----------------------------
(***************************************************************************)
(* One repository's object store: the Durable Object's refs, pushes, packs *)
(* and objects tables, the pack bytes in R2, the edge worker driving the   *)
(* two-phase push, and the janitor.                                        *)
(*                                                                         *)
(* The code of the Durable Object between two awaits is one atomic step    *)
(* (a "sync span"); every call the edge makes and every R2 operation is a  *)
(* separate step, so anything may happen in between.                       *)
(*                                                                         *)
(* Abstracted: an object id stands for the object; times are replaced by   *)
(* "old enough" chosen nondeterministically; the policies that refuse one  *)
(* command (names, token scope, pins, protection, head deletion, ref cap)  *)
(* by a nondeterministic set of refused refs; a push's commands name       *)
(* distinct refs.  Pack ids are random and never reused.                   *)
(***************************************************************************)
EXTENDS Naturals, FiniteSets

CONSTANTS
    Oid,             \* object ids
    Links,           \* Links[o]: the objects o refers to (extract_links)
    Refs,            \* ref names
    Packs,           \* pack ids, a set of naturals (ids are ordered)
    Pushes,          \* push ids
    Null,            \* SQL NULL / the zero object id
    PackContents,    \* the packs a client may send
    CommandSets,     \* the command lists a client may send
    SeedRows,        \* SeedRows[p]: the objects pack p holds initially
    SeedRefs,        \* the refs table initially
    MaxOpenPushes,   \* push_begin refuses past this many open pushes (64)
    MaxVersion       \* bound on refs_version, for model checking

Target == Oid \cup {Null}

\* A command list: a partial function from refs to [old, new].
Commands == UNION {[D -> [old : Target, new : Target]] : D \in SUBSET Refs}

LinksOf(S) == UNION {Links[o] : o \in S}

SeedPacks == {p \in Packs : SeedRows[p] # {}}
SeedObjects == UNION {SeedRows[p] : p \in Packs}

ASSUME NullAssumption == Null \notin Oid /\ Null \notin Packs /\ Null \notin Pushes

ASSUME LinksAssumption == Links \in [Oid -> SUBSET Oid]

ASSUME PacksAssumption == Packs \subseteq Nat

ASSUME ClientAssumption ==
    /\ PackContents \subseteq (SUBSET Oid) \ {{}}
    /\ CommandSets \subseteq Commands

\* The store starts closed: what a ref or an object needs is there.
ASSUME SeedAssumption ==
    /\ SeedRows \in [Packs -> SUBSET Oid]
    /\ SeedRefs \in [Refs -> Target]
    /\ LinksOf(SeedObjects) \subseteq SeedObjects
    /\ \A r \in Refs : SeedRefs[r] # Null => SeedRefs[r] \in SeedObjects

ASSUME BoundsAssumption == MaxOpenPushes \in Nat /\ MaxVersion \in Nat

VARIABLES
    refs,            \* table refs: name -> target, Null when there is no row
    refs_version,    \* meta.refs_version
    gc_epoch,        \* meta.gc_epoch
    packState,       \* packs.state; "none" before the row, "gone" after it
    packPush,        \* packs.push_id; Null for a GC build pack
    objects,         \* table objects: pack -> the ids it has rows for
    r2,              \* the packs whose bytes are in R2
    pushState,       \* pushes.state; "none" before push_begin
    pushEpoch,       \* pushes.gc_epoch, read at push_begin
    edge,            \* the edge worker serving each push
    doomed           \* dead packs a janitor slice has selected for deletion

pushVars == <<pushState, pushEpoch, edge>>
packVars == <<packState, packPush, objects>>
refVars == <<refs, refs_version>>
storeVars == <<refs, refs_version, gc_epoch, packState, packPush, objects, r2,
               pushState, pushEpoch, edge, doomed>>

LivePacks == {p \in Packs : packState[p] = "live"}

ObjectsIn(P) == UNION {objects[p] : p \in P}

\* Index::lookup: an object is found when a live pack has a row for it.
LiveObjects == ObjectsIn(LivePacks)

RefTargets == {refs[r] : r \in Refs} \ {Null}

PackStates == {"none", "ingesting", "live", "dead", "gone"}
PushStates == {"none", "open", "committed", "rejected", "expired", "dead"}
Stages == {"idle", "begun", "ingest", "durable", "check", "closed"}

\* pc: where receive_inner is; pack, content: what it is uploading;
\* todo: the links it has still to look up.
IdleEdge == [pc |-> "idle", pack |-> Null, content |-> {}, todo |-> {}]

StoreTypeOK ==
    /\ refs \in [Refs -> Target]
    /\ refs_version \in Nat
    /\ gc_epoch \in Nat
    /\ packState \in [Packs -> PackStates]
    /\ packPush \in [Packs -> Pushes \cup {Null}]
    /\ objects \in [Packs -> SUBSET Oid]
    /\ r2 \subseteq Packs
    /\ pushState \in [Pushes -> PushStates]
    /\ pushEpoch \in [Pushes -> Nat]
    /\ edge \in [Pushes -> [pc : Stages, pack : Packs \cup {Null},
                            content : SUBSET Oid, todo : SUBSET Oid]]
    /\ doomed \subseteq Packs

StoreInit ==
    /\ refs = SeedRefs
    /\ refs_version = 0
    /\ gc_epoch = 0
    /\ packState = [p \in Packs |-> IF p \in SeedPacks THEN "live" ELSE "none"]
    /\ packPush = [p \in Packs |-> Null]
    /\ objects = SeedRows
    /\ r2 = SeedPacks
    /\ pushState = [u \in Pushes |-> "none"]
    /\ pushEpoch = [u \in Pushes |-> 0]
    /\ edge = [u \in Pushes |-> IdleEdge]
    /\ doomed = {}

-----------------------------------------------------------------------------
(* Phase one of a push: the edge worker and the calls it makes. *)

OpenPushes == {u \in Pushes : pushState[u] = "open"}

\* /_do/push/begin for a fresh random push id.  A refusal (rate, live-pack
\* cap, format, too many open pushes) writes no push row.
PushBegin(u) ==
    /\ pushState[u] = "none"
    /\ Cardinality(OpenPushes) < MaxOpenPushes
    /\ pushState' = [pushState EXCEPT ![u] = "open"]
    /\ pushEpoch' = [pushEpoch EXCEPT ![u] = gc_epoch]
    /\ edge' = [edge EXCEPT ![u].pc = "begun"]
    /\ UNCHANGED <<refVars, gc_epoch, packVars, r2, doomed>>

\* pack::run finds no objects in the body: straight to the commit, no pack.
PushNoPack(u) ==
    /\ edge[u].pc = "begun"
    /\ edge' = [edge EXCEPT ![u].pc = "check"]
    /\ UNCHANGED <<refVars, gc_epoch, packVars, r2, pushState, pushEpoch, doomed>>

\* push_index refuses a push that is not open and a pack of another push.
IndexAccepts(u) ==
    /\ pushState[u] = "open"
    /\ packState[edge[u].pack] = "ingesting"
    /\ packPush[edge[u].pack] = u

\* The first /_do/push/index: the 'ingesting' row, before any byte is uploaded.
PushIndexFirst(u, p, content) ==
    /\ edge[u].pc = "begun"
    /\ pushState[u] = "open"
    /\ packState[p] = "none"
    /\ packState' = [packState EXCEPT ![p] = "ingesting"]
    /\ packPush' = [packPush EXCEPT ![p] = u]
    /\ edge' = [edge EXCEPT ![u] = [pc |-> "ingest", pack |-> p,
                                    content |-> content, todo |-> {}]]
    /\ UNCHANGED <<refVars, gc_epoch, objects, r2, pushState, pushEpoch, doomed>>

\* A batch of rows posted while the pack is being normalised.
PushIndexRows(u, rows) ==
    /\ edge[u].pc = "ingest"
    /\ IndexAccepts(u)
    /\ objects' = [objects EXCEPT ![edge[u].pack] = @ \cup rows]
    /\ UNCHANGED <<refVars, gc_epoch, packState, packPush, r2, pushVars, doomed>>

\* PackWriter::finish: the pack is durable in R2.
PackFinish(u) ==
    /\ edge[u].pc = "ingest"
    /\ r2' = r2 \cup {edge[u].pack}
    /\ edge' = [edge EXCEPT ![u].pc = "durable"]
    /\ UNCHANGED <<refVars, gc_epoch, packVars, pushState, pushEpoch, doomed>>

\* The last /_do/push/index: the remaining rows and the real pack metadata.
PushIndexTail(u) ==
    /\ edge[u].pc = "durable"
    /\ IndexAccepts(u)
    /\ objects' = [objects EXCEPT ![edge[u].pack] = @ \cup edge[u].content]
    /\ edge' = [edge EXCEPT ![u].pc = "check", ![u].todo = LinksOf(edge[u].content)]
    /\ UNCHANGED <<refVars, gc_epoch, packState, packPush, r2, pushState,
                   pushEpoch, doomed>>

\* One /_do/push/lookup of the link check: every id of the chunk is live or
\* in the push's own pack (otherwise the edge fails: EdgeFail).
PushLookup(u, chunk) ==
    /\ edge[u].pc = "check"
    /\ chunk # {}
    /\ chunk \subseteq LiveObjects \cup objects[edge[u].pack]
    /\ edge' = [edge EXCEPT ![u].todo = @ \ chunk]
    /\ UNCHANGED <<refVars, gc_epoch, packVars, r2, pushState, pushEpoch, doomed>>

\* Any error on the edge after push_begin ends in /_do/push/abort, which
\* closes the push if it is still open.
EdgeFail(u) ==
    /\ edge[u].pc \notin {"idle", "closed"}
    /\ edge' = [edge EXCEPT ![u] = [IdleEdge EXCEPT !.pc = "closed"]]
    /\ pushState' = [pushState EXCEPT ![u] = IF @ = "open" THEN "dead" ELSE @]
    /\ UNCHANGED <<refVars, gc_epoch, packVars, r2, pushEpoch, doomed>>

\* The edge worker dies, or its abort is lost: the push stays as it is.
EdgeCrash(u) ==
    /\ edge[u].pc \notin {"idle", "closed"}
    /\ edge' = [edge EXCEPT ![u] = [IdleEdge EXCEPT !.pc = "closed"]]
    /\ UNCHANGED <<refVars, gc_epoch, packVars, r2, pushState, pushEpoch, doomed>>

-----------------------------------------------------------------------------
(* Phase two: /_do/push/commit, one sync span. *)

\* Mutant: the commit is sent before the pack is durable.
ReadyBeforeFinish(u) == edge[u].pc \in {"ingest", "check"} /\ edge[u].todo = {}

\* The edge has checked every link and sends the commit.
Ready(u) == edge[u].pc = "check" /\ edge[u].todo = {}

\* The ref table's compare-and-set.
RefCasOk(r, cmd) == refs[r] = cmd.old

\* apply_one's verdict: refused by policy, both sides null, a new tip that is
\* not live (the push's own pack already counts), or a lost compare-and-set.
CommandLands(r, cmd, refused, liveNow) ==
    /\ r \notin refused
    /\ cmd.old # Null \/ cmd.new # Null
    /\ cmd.new # Null => cmd.new \in liveNow
    /\ RefCasOk(r, cmd)

\* What lookup finds once the push's pack is promoted.
LiveWith(pack) == IF pack = Null THEN LiveObjects ELSE LiveObjects \cup objects[pack]

FinishPush(u, state) ==
    /\ pushState' = [pushState EXCEPT ![u] = state]
    /\ edge' = [edge EXCEPT ![u] = [IdleEdge EXCEPT !.pc = "closed"]]
    /\ UNCHANGED pushEpoch

\* A revoked credential, a GC epoch newer than the push, or an exceeded
\* quota: the push is rejected before its pack is promoted.
CommitRejected(u) ==
    /\ Ready(u)
    /\ pushState[u] = "open"
    /\ FinishPush(u, "rejected")
    /\ UNCHANGED <<refVars, gc_epoch, packVars, r2, doomed>>

\* Mutant: the epoch fence is missing.
CommitAcceptsAnyEpoch(u) ==
    /\ Ready(u)
    /\ pushState[u] = "open"
    /\ edge[u].pack # Null => /\ packState[edge[u].pack] = "ingesting"
                              /\ packPush[edge[u].pack] = u

\* The guards of commit_push up to the promotion of the pack.
CommitAccepts(u) ==
    /\ Ready(u)
    /\ pushState[u] = "open"
    /\ pushEpoch[u] = gc_epoch
    /\ edge[u].pack # Null => /\ packState[edge[u].pack] = "ingesting"
                              /\ packPush[edge[u].pack] = u

\* The commands of a push that land.
Landed(u, cmds, refused) ==
    {r \in DOMAIN cmds : CommandLands(r, cmds[r], refused, LiveWith(edge[u].pack))}

\* --atomic and the dry run fails a command: the promoted pack is demoted
\* again in the same span, so the tables do not change.
CommitAtomicFailed(u, cmds, refused) ==
    /\ CommitAccepts(u)
    /\ Landed(u, cmds, refused) # DOMAIN cmds
    /\ FinishPush(u, "rejected")
    /\ UNCHANGED <<refVars, gc_epoch, packVars, r2, doomed>>

\* The pack goes live and every command that passes its checks lands.
CommitPush(u, cmds, refused) ==
    LET pack   == edge[u].pack
        landed == Landed(u, cmds, refused)
    IN  /\ CommitAccepts(u)
        /\ refs_version < MaxVersion
        /\ packState' = IF pack = Null THEN packState
                        ELSE [packState EXCEPT ![pack] = "live"]
        /\ refs' = [r \in Refs |-> IF r \in landed THEN cmds[r].new ELSE refs[r]]
        /\ refs_version' = IF landed # {} \/ pack # Null
                           THEN refs_version + 1 ELSE refs_version
        /\ FinishPush(u, "committed")
        /\ UNCHANGED <<gc_epoch, packPush, objects, r2, doomed>>

-----------------------------------------------------------------------------
(* The janitor: closing abandoned pushes, then deleting dead packs' bytes. *)

\* packs left 'ingesting' by a push that is closed under the push states ps
Abandoned(ps) == {p \in Packs : /\ packState[p] = "ingesting"
                                /\ packPush[p] # Null
                                /\ ps[packPush[p]] # "open"}

\* The first span of a janitor slice: expire old open pushes, then mark packs
\* of closed pushes dead (at once when the push recorded its pack, else once
\* the pack has aged; at most BATCH of each) and drop their rows.
JanitorMark(expired, killed) ==
    LET ps == [u \in Pushes |-> IF u \in expired THEN "expired" ELSE pushState[u]]
    IN  /\ expired \subseteq OpenPushes
        /\ killed \subseteq Abandoned(ps)
        /\ expired # {} \/ killed # {}
        /\ pushState' = ps
        /\ packState' = [p \in Packs |-> IF p \in killed THEN "dead" ELSE packState[p]]
        /\ objects' = [p \in Packs |-> IF p \in killed THEN {} ELSE objects[p]]
        /\ UNCHANGED <<refVars, gc_epoch, packPush, r2, pushEpoch, edge, doomed>>

\* Dead packs past the grace period that have no rows.
Deletable == {p \in Packs : packState[p] = "dead" /\ objects[p] = {}}

\* The slice selects the packs it is going to delete.
JanitorSelect(chosen) ==
    /\ doomed = {}
    /\ chosen # {}
    /\ chosen \subseteq Deletable
    /\ doomed' = chosen
    /\ UNCHANGED <<refVars, gc_epoch, packVars, r2, pushVars>>

\* The awaited R2 delete of one selected pack.
JanitorDeleteBytes(p) ==
    /\ p \in doomed \cap r2
    /\ r2' = r2 \ {p}
    /\ UNCHANGED <<refVars, gc_epoch, packVars, pushVars, doomed>>

\* After a successful R2 delete the packs row goes.
JanitorDeleteRow(p) ==
    /\ p \in doomed \ r2
    /\ packState' = [packState EXCEPT ![p] = "gone"]
    /\ doomed' = doomed \ {p}
    /\ UNCHANGED <<refVars, gc_epoch, packPush, objects, r2, pushVars>>

\* The slice ends early (budget, failed delete, lost lease, kill): the rest
\* of its selection is forgotten.
JanitorStop ==
    /\ doomed # {}
    /\ doomed' = {}
    /\ UNCHANGED <<refVars, gc_epoch, packVars, r2, pushVars>>

-----------------------------------------------------------------------------

\* Everything but the commits, which the garbage collector's module wraps.
EdgeStep ==
    \/ \E u \in Pushes : PushBegin(u)
    \/ \E u \in Pushes : PushNoPack(u)
    \/ \E u \in Pushes, p \in Packs, c \in PackContents : PushIndexFirst(u, p, c)
    \/ \E u \in Pushes : \E rows \in SUBSET edge[u].content : PushIndexRows(u, rows)
    \/ \E u \in Pushes : PackFinish(u)
    \/ \E u \in Pushes : PushIndexTail(u)
    \/ \E u \in Pushes : \E chunk \in SUBSET edge[u].todo : PushLookup(u, chunk)
    \/ \E u \in Pushes : EdgeFail(u)
    \/ \E u \in Pushes : EdgeCrash(u)

JanitorStep ==
    \/ \E expired \in SUBSET Pushes, killed \in SUBSET Packs : JanitorMark(expired, killed)
    \/ \E chosen \in SUBSET Packs : JanitorSelect(chosen)
    \/ \E p \in Packs : JanitorDeleteBytes(p)
    \/ \E p \in Packs : JanitorDeleteRow(p)
    \/ JanitorStop

CommitStep ==
    \/ \E u \in Pushes : CommitRejected(u)
    \/ \E u \in Pushes, cmds \in CommandSets :
          \E refused \in SUBSET DOMAIN cmds : CommitAtomicFailed(u, cmds, refused)
    \/ \E u \in Pushes, cmds \in CommandSets :
          \E refused \in SUBSET DOMAIN cmds : CommitPush(u, cmds, refused)

StoreNext == EdgeStep \/ JanitorStep \/ CommitStep

StoreSpec == StoreInit /\ [][StoreNext]_storeVars

-----------------------------------------------------------------------------
(* What the store promises. *)

\* Every ref resolves, and every object a reader can reach from a ref is
\* found in a live pack: refs point at live objects and a live object links
\* only to live objects.  (commit_push's re-guard and pack::run's link check
\* on one side; the collector on the other.)
LiveClosed ==
    /\ RefTargets \subseteq LiveObjects
    /\ LinksOf(LiveObjects) \subseteq LiveObjects

\* Every live pack's bytes are in R2 and it has rows to read: a pack is
\* promoted only after PackWriter::finish, and only dead packs are deleted.
LiveBytes == \A p \in LivePacks : p \in r2 /\ objects[p] # {}

=============================================================================
