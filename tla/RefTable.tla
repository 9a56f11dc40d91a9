------------------------------ MODULE RefTable ------------------------------
(* The ref table of one repository: how commit_push lands a batch of ref      *)
(* commands, and what tokens, pins, protection, the ref cap, HEAD, the        *)
(* reflog, the event outbox and the ref advertisement memo have to do with it.*)
(* RepoStore models the objects behind the refs; here an object matters only  *)
(* for being in a live pack or not.  Every action is one synchronous span.    *)
EXTENDS Naturals, Sequences, FiniteSetsExt, SequencesExt

CONSTANTS
  Names,       \* ref names under refs/, numbered in the order of ORDER BY name
  Heads,       \* those under refs/heads/
  MainRef,     \* refs/heads/main, the HEAD a new repository starts with
  Oids,        \* commits
  Parents,     \* [Oids -> SUBSET Oids]
  NoOid,       \* the null id: an absent ref, the old of a create, the new of a delete
  Admin,       \* the marker of a push under the global write token
  Tokens,      \* token hashes; each is minted at most once
  Scopes,      \* the token scopes tried: sets of names
  Patterns,    \* the protected patterns tried: sets of names
  Pushes,      \* push ids
  PackSets,    \* the object sets a pack may carry
  Batches,     \* the command lists a client may send
  RemoteHeads, \* HEADs a url import may carry; {} leaves imports out
  MaxRefs, MaxOpen, MaxTokens, MaxPending, MaxObjects, MaxEpoch

VARIABLES
  refs,        \* table refs: [Names -> target]
  head,        \* meta.head
  refs_version,
  reflog,      \* table reflog: <<name, old, new, push_id>> in insertion order
  pins,        \* table pins: [Names -> sha]
  protected,   \* table protected: a set of patterns
  tokens,      \* table tokens, with the rows never minted and the deleted ones
  pushes,      \* table pushes
  packs,       \* table packs, one row per push
  known,       \* commits with rows in commit_parents
  gc_epoch,
  outbox,      \* table push_events: the push and the listed refs of each event
  sent,        \* history: the events the receiver has acknowledged, in order
  dropped,     \* meta.push_events_dropped
  memo         \* RefsMemo of the running instance, or {} when there is none

vars == <<refs, head, refs_version, reflog, pins, protected, tokens, pushes,
          packs, known, gc_epoch, outbox, sent, dropped, memo>>

refVars == <<refs, head, refs_version, reflog>>
authVars == <<pins, protected, tokens>>
eventVars == <<outbox, sent, dropped>>

NoPush == [state |-> "none", scope |-> {}, auth |-> Admin, epoch |-> 0,
           atomic |-> FALSE, result |-> <<>>]

ASSUME RefsAssumption ==
  /\ Names \subseteq Nat /\ Heads \subseteq Names /\ MainRef \in Heads
  /\ Parents \in [Oids -> SUBSET Oids] /\ NoOid \notin Oids
  /\ Admin \notin Tokens
  /\ RemoteHeads \subseteq Names /\ 0 \notin Names  \* 0: no remote HEAD
  /\ Scopes \subseteq SUBSET Names /\ Patterns \subseteq SUBSET Names
  /\ PackSets \subseteq SUBSET Oids
  /\ \A b \in Batches :
       b \in Seq([name : Names, old : Oids \cup {NoOid}, new : Oids \cup {NoOid}])
  /\ {MaxRefs, MaxOpen, MaxTokens, MaxPending, MaxObjects, MaxEpoch} \subseteq Nat

-----------------------------------------------------------------------------
(* What a span reads.                                                         *)

LivePacks(pk) == {p \in Pushes : pk[p].state = "live"}
Live(pk) == UNION {pk[p].objs : p \in LivePacks(pk)}
Exists(rs) == {n \in Names : rs[n] # NoOid}

(* The commits a walk from o meets when it knows the parents of those in via: *)
(* the least set that holds o and what its known members descend from.        *)
Walk(o, via) ==
  {q \in Oids : \A S \in SUBSET Oids :
                  o \in S /\ (\A x \in S \cap via : Parents[x] \subseteq S) => q \in S}

(* ff_ancestor: the walk from new follows only commits whose parents are      *)
(* recorded.  It proves the fast-forward when it meets old; anything else,    *)
(* unproven or disproved, refuses the command.                                *)
FfAncestor(old, new) == old \in Walk(new, known)

IsProtected(n) == \E pat \in protected : n \in pat

\* Mutant: a protected ref moves to any commit.
ProtectedVerdictNoFf(c) == c.new # NoOid

(* protected_verdict: never deleted, created freely, updated only forward.    *)
ProtectedVerdict(c) ==
  /\ c.new # NoOid
  /\ c.old = NoOid \/ FfAncestor(c.old, c.new)

(* token_live and the row filter of every token lookup.                       *)
TokenRow(t) == tokens[t].state = "minted"

(* push_scope: what a new push row captures, the empty scope when refused.    *)
PushScope(a) ==
  CASE a = Admin -> Names
    [] a # Admin /\ TokenRow(a) /\ tokens[a].level = "write" -> tokens[a].scope
    [] OTHER -> {}

\* Mutant: the credential is looked at at begin only.
CommitAuthAtBegin(p) == TRUE

(* commit_auth: the credential still stands at commit.                        *)
CommitAuth(p) ==
  LET a == pushes[p].auth
  IN  a = Admin \/ (TokenRow(a) /\ tokens[a].level = "write")

(* The scope captured at begin and the token's current one must both allow.   *)
ScopeAllows(p, n) ==
  LET a == pushes[p].auth
  IN  n \in pushes[p].scope /\ (a # Admin => n \in tokens[a].scope)

\* Mutant: the ref cap is not consulted.
AcceptsNoCap(rs, lv, hd, p, c) ==
  /\ ScopeAllows(p, c.name)
  /\ c.old # NoOid \/ c.new # NoOid
  /\ pins[c.name] = NoOid
  /\ ~(c.new = NoOid /\ c.name = hd)
  /\ IsProtected(c.name) => ProtectedVerdict(c)
  /\ c.new # NoOid => c.new \in lv
  /\ rs[c.name] = c.old

\* Mutant: an update does not compare the stored target with the expected one.
AcceptsNoCas(rs, lv, hd, p, c) ==
  /\ ScopeAllows(p, c.name)
  /\ c.old # NoOid \/ c.new # NoOid
  /\ pins[c.name] = NoOid
  /\ ~(c.new = NoOid /\ c.name = hd)
  /\ IsProtected(c.name) => ProtectedVerdict(c)
  /\ c.new # NoOid => c.new \in lv
  /\ c.old = NoOid => Cardinality(Exists(rs)) < MaxRefs
  /\ (c.old = NoOid) = (rs[c.name] = NoOid)

(* apply_one: whether one command lands on the ref table rs, while lv is live *)
(* and hd is the HEAD read at the start of the span.  A ref name that fails   *)
(* the syntax check is outside Names.                                         *)
Accepts(rs, lv, hd, p, c) ==
  /\ ScopeAllows(p, c.name)
  /\ c.old # NoOid \/ c.new # NoOid
  /\ pins[c.name] = NoOid
  /\ ~(c.new = NoOid /\ c.name = hd)
  /\ IsProtected(c.name) => ProtectedVerdict(c)
  /\ c.new # NoOid => c.new \in lv
  /\ c.old = NoOid => Cardinality(Exists(rs)) < MaxRefs
  /\ rs[c.name] = c.old

(* One round of the write loop, on what the commands before it left: a        *)
(* command that lands moves its ref and writes its reflog row.                *)
Applied(s, lv, p, c) ==
  IF Accepts(s.refs, lv, head, p, c)
    THEN [refs |-> [s.refs EXCEPT ![c.name] = c.new],
          moved |-> Append(s.moved, <<c.name, c.old, c.new, p>>),
          result |-> Append(s.result, TRUE)]
    ELSE [s EXCEPT !.result = Append(@, FALSE)]

Unmoved == [refs |-> refs, moved |-> <<>>, result |-> <<>>]

(* The write loop: the commands in client order.                              *)
ApplyAll(lv, p, cmds) ==
  LET after[i \in 0..Len(cmds)] ==
        IF i = 0 THEN Unmoved ELSE Applied(after[i - 1], lv, p, cmds[i])
  IN  after[Len(cmds)]

(* The --atomic dry run: every command against the table as it stands.        *)
DryRun(lv, p, cmds) == \A i \in DOMAIN cmds : Accepts(refs, lv, head, p, cmds[i])

\* Mutant: a dangling HEAD is left alone.
AdoptHeadNever(rs, hd) == hd

(* The HEAD that survives a commit: one that dangles adopts the first branch. *)
AdoptHead(rs, hd) ==
  LET branches == Exists(rs) \cap Heads
  IN  IF hd \notin Exists(rs) /\ branches # {} THEN Min(branches) ELSE hd

StorageTotal(p) ==
  MapThenSumSet(LAMBDA q : Cardinality(packs[q].objs),
                {q \in Pushes : packs[q].state = "live"
                                \/ (q = p /\ packs[q].state = "ingesting")})

-----------------------------------------------------------------------------
Init ==
  /\ refs = [n \in Names |-> NoOid] /\ head = MainRef /\ refs_version = 0
  /\ reflog = <<>>
  /\ pins = [n \in Names |-> NoOid] /\ protected = {}
  /\ tokens = [t \in Tokens |-> [state |-> "none", level |-> "read", scope |-> {}]]
  /\ pushes = [p \in Pushes |-> NoPush]
  /\ packs = [p \in Pushes |-> [state |-> "none", objs |-> {}]]
  /\ known = {} /\ gc_epoch = 0
  /\ outbox = <<>> /\ sent = <<>> /\ dropped = 0 /\ memo = {}

(* token_create, under the cap on rows; expired rows still count.             *)
TokenCreate(t, level, scope) ==
  /\ tokens[t].state = "none"
  /\ Cardinality({u \in Tokens : tokens[u].state \in {"minted", "expired"}}) < MaxTokens
  /\ tokens' = [tokens EXCEPT ![t] = [state |-> "minted", level |-> level, scope |-> scope]]
  /\ UNCHANGED <<refVars, pins, protected, pushes, packs, known, gc_epoch, eventVars, memo>>

(* The clock passes expires_at of a minted token.                             *)
TokenExpire(t) ==
  /\ tokens[t].state = "minted"
  /\ tokens' = [tokens EXCEPT ![t].state = "expired"]
  /\ UNCHANGED <<refVars, pins, protected, pushes, packs, known, gc_epoch, eventVars, memo>>

TokenRevoke(t) ==
  /\ tokens[t].state \in {"minted", "expired"}
  /\ tokens' = [tokens EXCEPT ![t].state = "revoked"]
  /\ UNCHANGED <<refVars, pins, protected, pushes, packs, known, gc_epoch, eventVars, memo>>

(* pin asserts the value the ref has now; it never moves it.                  *)
Pin(n, sha) ==
  /\ refs[n] = sha
  /\ pins' = [pins EXCEPT ![n] = sha]
  /\ UNCHANGED <<refVars, protected, tokens, pushes, packs, known, gc_epoch, eventVars, memo>>

Unpin(n) ==
  /\ pins[n] # NoOid
  /\ pins' = [pins EXCEPT ![n] = NoOid]
  /\ UNCHANGED <<refVars, protected, tokens, pushes, packs, known, gc_epoch, eventVars, memo>>

Protect(pat) ==
  /\ protected' = protected \cup {pat}
  /\ UNCHANGED <<refVars, pins, tokens, pushes, packs, known, gc_epoch, eventVars, memo>>

Unprotect(pat) ==
  /\ protected' = protected \ {pat}
  /\ UNCHANGED <<refVars, pins, tokens, pushes, packs, known, gc_epoch, eventVars, memo>>

(* push_begin of a new push, under the bound on open ones.                    *)
PushBegin(p, a) ==
  /\ pushes[p].state = "none"
  /\ Cardinality({q \in Pushes : pushes[q].state = "open"}) < MaxOpen
  /\ PushScope(a) # {}
  /\ pushes' = [pushes EXCEPT ![p] = [NoPush EXCEPT !.state = "open", !.auth = a,
                                        !.scope = PushScope(a), !.epoch = gc_epoch]]
  /\ UNCHANGED <<refVars, authVars, packs, known, gc_epoch, eventVars, memo>>

(* push_index posts the rows of the push's pack and records the parents of    *)
(* its commits.  The edge posts a pack whose links are in it or are live.     *)
PushIndex(p, objs) ==
  /\ pushes[p].state = "open" /\ packs[p].state = "none"
  /\ \A o \in objs : Parents[o] \subseteq objs \cup Live(packs)
  /\ packs' = [packs EXCEPT ![p] = [state |-> "ingesting", objs |-> objs]]
  /\ known' = known \cup objs
  /\ UNCHANGED <<refVars, authVars, pushes, gc_epoch, eventVars, memo>>

PushAbort(p) ==
  /\ pushes[p].state = "open"
  /\ pushes' = [pushes EXCEPT ![p].state = "dead"]
  /\ UNCHANGED <<refVars, authVars, packs, known, gc_epoch, eventVars, memo>>

(* finish_push of a push none of whose commands lands: the credential no      *)
(* longer stands, a sweep ran since begin, the repository is over its quota,  *)
(* or the atomic dry run failed, which also demotes the promoted pack.        *)
Refused(p, lv, cmds, atomic, epoch) ==
  \/ ~CommitAuth(p)
  \/ gc_epoch # epoch
  \/ packs[p].state # "none" /\ StorageTotal(p) > MaxObjects
  \/ atomic /\ ~DryRun(lv, p, cmds)

\* Mutant: the event lists every command of the batch.
EventRefsUnfiltered(cmds, results) ==
  FlattenSeq([i \in DOMAIN results |-> <<<<cmds[i].name, cmds[i].old, cmds[i].new>>>>])

(* What the body of an event lists: the commands zipped with their results,   *)
(* the refused ones filtered out.                                             *)
EventRefs(cmds, results) ==
  FlattenSeq([i \in DOMAIN results |->
                IF results[i] THEN <<<<cmds[i].name, cmds[i].old, cmds[i].new>>>>
                              ELSE <<>>])

(* record_push_event, with the webhook configured: one row for the push,      *)
(* unless the outbox is at its bound, which only counts the loss.             *)
RecordPushEvent(p, cmds, results) ==
  /\ IF Len(outbox) >= MaxPending
       THEN dropped' = dropped + 1 /\ UNCHANGED outbox
       ELSE /\ outbox' = Append(outbox, [push |-> p, refs |-> EventRefs(cmds, results)])
            /\ UNCHANGED dropped
  /\ UNCHANGED sent

\* Mutant: a push without a pack leaves the version where it was.
VersionStepPackOnly(anyok, haspack) == IF haspack THEN 1 ELSE 0

(* The version moves when a ref landed or a pack went live without one.       *)
VersionStep(anyok, haspack) == IF anyok \/ haspack THEN 1 ELSE 0

(* commit_push: the pack goes live, the commands land, and HEAD, the version, *)
(* the outbox and the push row follow in the same span.  A pack that is not   *)
(* ingesting is a conflict, which changes nothing.  epoch is the one the push *)
(* vouches for; an import goes on, in the same span, to adopt the remote's    *)
(* HEAD rh when that ref exists.                                              *)
Commit(p, cmds, atomic, epoch, rh) ==
  LET haspack == packs[p].state # "none"
      lv == Live([packs EXCEPT ![p].state = IF haspack THEN "live" ELSE @])
      s == ApplyAll(lv, p, cmds)
      refused == Refused(p, lv, cmds, atomic, epoch)
      anyok == \E i \in DOMAIN s.result : s.result[i]
      hd == IF ~refused /\ anyok THEN AdoptHead(s.refs, head) ELSE head
      end == IF refused THEN refs ELSE s.refs
  IN
  /\ pushes[p].state = "open"
  /\ haspack => packs[p].state = "ingesting"
  /\ pushes' = [pushes EXCEPT ![p].state = IF refused THEN "rejected" ELSE "committed",
                              ![p].atomic = atomic, ![p].epoch = epoch,
                              ![p].result = IF refused THEN [i \in DOMAIN cmds |-> FALSE]
                                                       ELSE s.result]
  /\ refs' = end
  /\ head' = IF rh \in Exists(end) THEN rh ELSE hd
  /\ IF refused
       THEN UNCHANGED <<refs_version, reflog, packs, eventVars>>
       ELSE /\ packs' = [packs EXCEPT ![p].state = IF haspack THEN "live" ELSE @]
            /\ refs_version' = refs_version + VersionStep(anyok, haspack)
            /\ reflog' = reflog \o s.moved
            /\ IF anyok THEN RecordPushEvent(p, cmds, s.result) ELSE UNCHANGED eventVars
  /\ UNCHANGED <<authVars, known, gc_epoch, memo>>

CommitPush(p, cmds, atomic) == Commit(p, cmds, atomic, pushes[p].epoch, 0)

(* commit_meta of an import job.  Its check phase found every link live in    *)
(* the current epoch, so it may move the epoch its push vouches for.          *)
ImportCommit(p, cmds, rh) ==
  /\ packs[p].state = "ingesting"
  /\ \A o \in packs[p].objs : Parents[o] \subseteq packs[p].objs \cup Live(packs)
  /\ Commit(p, cmds, TRUE, gc_epoch, rh)

(* A slice of the push_event job delivers the oldest row and deletes it; one  *)
(* that is refused stays first (PushEvents has the attempts and the retries). *)
Deliver ==
  /\ outbox # <<>>
  /\ sent' = Append(sent, Head(outbox)) /\ outbox' = Tail(outbox)
  /\ UNCHANGED <<refVars, authVars, pushes, packs, known, gc_epoch, dropped, memo>>

(* A garbage collection: a set of live packs dies in the span that bumps the  *)
(* epoch, everything reachable from the refs staying live (GcChain).          *)
Sweep(dead) ==
  LET pk == [p \in Pushes |-> IF p \in dead THEN [packs[p] EXCEPT !.state = "dead"]
                                            ELSE packs[p]]
  IN
  /\ gc_epoch < MaxEpoch
  /\ dead # {} /\ dead \subseteq LivePacks(packs)
  /\ UNION {Walk(refs[n], Oids) : n \in Exists(refs)} \subseteq Live(pk)
  /\ packs' = pk /\ gc_epoch' = gc_epoch + 1
  /\ UNCHANGED <<refVars, authVars, pushes, known, eventVars, memo>>

(* refs_snapshot, under either advertisement: the memo answers while its      *)
(* version is current, and is rebuilt when it is not.                         *)
RefsSnapshot ==
  /\ \A m \in memo : m.version # refs_version
  /\ memo' = {[version |-> refs_version, head |-> head, refs |-> refs]}
  /\ UNCHANGED <<refVars, authVars, pushes, packs, known, gc_epoch, eventVars>>

(* The instance is evicted: what is in memory goes, the tables stay.          *)
Evict ==
  /\ memo # {}
  /\ memo' = {}
  /\ UNCHANGED <<refVars, authVars, pushes, packs, known, gc_epoch, eventVars>>

Admins ==
  \/ \E t \in Tokens : \/ \E l \in {"read", "write"}, s \in Scopes : TokenCreate(t, l, s)
                       \/ TokenExpire(t)
                       \/ TokenRevoke(t)
  \/ \E n \in Names : Unpin(n) \/ \E o \in Oids : Pin(n, o)
  \/ \E pat \in Patterns : Protect(pat) \/ Unprotect(pat)

Clients ==
  \E p \in Pushes :
    \/ \E a \in Tokens \cup {Admin} : PushBegin(p, a)
    \/ \E objs \in PackSets : PushIndex(p, objs)
    \/ PushAbort(p)
    \/ \E cmds \in Batches, atomic \in BOOLEAN : CommitPush(p, cmds, atomic)
    \/ \E cmds \in Batches, rh \in RemoteHeads : ImportCommit(p, cmds, rh)

Next ==
  \/ Admins
  \/ Clients
  \/ Deliver
  \/ \E dead \in SUBSET Pushes : Sweep(dead)
  \/ RefsSnapshot
  \/ Evict

Spec == Init /\ [][Next]_vars

-----------------------------------------------------------------------------
Ids == Oids \cup {NoOid}
Rows == Names \X Ids \X Ids \X Pushes
Events == [push : Pushes, refs : Seq(Names \X Ids \X Ids)]
TokenRows == [state : {"none", "minted", "expired", "revoked"},
              level : {"read", "write"}, scope : SUBSET Names]
PushRows == [state : {"none", "open", "committed", "rejected", "dead"},
             scope : SUBSET Names, auth : Tokens \cup {Admin}, epoch : Nat,
             atomic : BOOLEAN, result : Seq(BOOLEAN)]
PackRows == [state : {"none", "ingesting", "live", "dead"}, objs : SUBSET Oids]

Committed == {p \in Pushes : pushes[p].state = "committed"}

(* The tables keep their types and their bounds, and each move of the version *)
(* has a committed push behind it.                                            *)
TypeOK ==
  /\ refs \in [Names -> Ids] /\ head \in Names /\ refs_version \in Nat
  /\ reflog \in Seq(Rows)
  /\ pins \in [Names -> Ids] /\ protected \subseteq Patterns
  /\ tokens \in [Tokens -> TokenRows] /\ pushes \in [Pushes -> PushRows]
  /\ packs \in [Pushes -> PackRows]
  /\ known \subseteq Oids /\ gc_epoch \in Nat
  /\ outbox \in Seq(Events) /\ sent \in Seq(Events) /\ dropped \in Nat
  /\ memo \subseteq [version : Nat, head : Names, refs : [Names -> Ids]]
  /\ Cardinality(Exists(refs)) <= MaxRefs
  /\ Len(outbox) <= MaxPending
  /\ refs_version <= Cardinality(Committed)

(* The first k rows of the log leave ref n at v: v is the new id of the last  *)
(* of them that names n, or n is absent when none does.                       *)
LeavesAt(log, k, n, v) ==
  LET rows == {j \in 1..k : log[j][1] = n}
  IN  \/ rows = {} /\ v = NoOid
      \/ \E j \in rows : v = log[j][3] /\ \A i \in rows : i <= j

(* Every row starts where the rows before it left its ref, and the whole log  *)
(* leaves each ref where rs has it.                                           *)
Replays(log, rs) ==
  /\ \A i \in DOMAIN log : LeavesAt(log, i - 1, log[i][1], log[i][2])
  /\ \A n \in Names : LeavesAt(log, Len(log), n, rs[n])

(* The reflog is the history of the ref table: rewound or replayed, it leads  *)
(* from the empty table to the value each ref has now.                        *)
ReflogReplays == Replays(reflog, refs)

(* A repository with a branch has a HEAD that resolves, whatever sequence of  *)
(* creates, deletes, failed batches and imports made the ref table: the       *)
(* deletion of HEAD's target is refused and a dangling HEAD is adopted away.  *)
HeadResolves == Exists(refs) \cap Heads # {} => head \in Exists(refs)

(* What the rows of push p say of the refs, in the order they were written.   *)
LoggedBy(log, p) ==
  FlattenSeq([i \in DOMAIN log |->
                IF log[i][4] = p THEN <<<<log[i][1], log[i][2], log[i][3]>>>> ELSE <<>>])

(* The pushes with rows in the reflog.                                        *)
Loggers(log) == {log[a][4] : a \in DOMAIN log}

(* Each event lists what the rows of its push say; events come in the order   *)
(* of the rows; a push with rows has one event or is counted among the lost.  *)
Mirror(log, events, lost) ==
  /\ \A i \in DOMAIN events :
       events[i].refs # <<>> /\ events[i].refs = LoggedBy(log, events[i].push)
  /\ \A i, j \in DOMAIN events : i < j =>
       \A a, b \in DOMAIN log :
         log[a][4] = events[i].push /\ log[b][4] = events[j].push => a < b
  /\ Len(events) + lost = Cardinality(Loggers(log))

(* The outbox comment "an event exists iff refs moved", of the events waiting *)
(* and the ones delivered.  The event of a push lists, in order, exactly the  *)
(* moves its reflog rows record, though it is put together from the commands  *)
(* and their results: of a mixed batch only what landed.  Events come in the  *)
(* order of the reflog, at most one per push, and the pushes that have reflog *)
(* rows and no event are as many as the losses counted, however deliveries    *)
(* and commits interleave at the bound.                                       *)
EventsMirrorReflog == Mirror(reflog, sent \o outbox, dropped)

(* A memo that answers (its version is current) advertises the ref table as   *)
(* it is: no commit moves a ref and leaves the version where it was.  HEAD is *)
(* left out: an import adopts the remote's without moving the version.        *)
MemoServesRefs ==
  \A m \in memo : m.version = refs_version => m.refs = refs

(* A ref moves only in the span that commits an open push, and then only      *)
(* under a credential that stands at that moment, inside both its scopes:     *)
(* revoking or expiring a token stops the pushes already open under it.       *)
LandsUnderCredential ==
  [][\A n \in Names : refs'[n] # refs[n] =>
       \E p \in Pushes :
         /\ pushes[p].state = "open" /\ pushes'[p].state = "committed"
         /\ pushes[p].auth # Admin =>
              LET t == tokens[pushes[p].auth]
              IN  t.state = "minted" /\ t.level = "write" /\ n \in t.scope]_vars

(* "Any failure rejects the whole push": the commands of a committed atomic   *)
(* push all landed.                                                           *)
AtomicAllOrNothing ==
  \A p \in Pushes : pushes[p].state = "committed" /\ pushes[p].atomic =>
    \A i \in DOMAIN pushes[p].result : pushes[p].result[i]

(* The ref table is a RefRegister: the loop over commands, the pack states,   *)
(* the tokens and the memo are hidden.                                        *)
Ancestry == {e \in Oids \X Oids : e[1] \in Walk(e[2], Oids)}

Register == INSTANCE RefRegister
              WITH frozen <- {n \in Names : pins[n] # NoOid},
                   guarded <- UNION protected

RegisterSpec == Register!Spec
=============================================================================
