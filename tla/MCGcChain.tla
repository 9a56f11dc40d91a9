----------------------------- MODULE MCGcChain -----------------------------
(***************************************************************************)
(* A small instance of GcChain.  Pack 1 holds what the ref reaches, pack 2 *)
(* holds the blob x that nothing reaches.  The one push carries a commit   *)
(* c2 that links to x: it may land only while x is live, and once it has   *)
(* landed x must stay.                                                     *)
(***************************************************************************)
EXTENDS GcChain

CONSTANTS c1, t1, c2, x, main

MCOid == {c1, t1, c2, x}
MCLinks == [o \in MCOid |-> CASE o = c1 -> {t1} [] o = c2 -> {x} [] OTHER -> {}]
MCRefs == {main}
MCPackContents == {{c2}}
MCSeedRows == [p \in Packs |-> CASE p = 1 -> {c1, t1} [] p = 2 -> {x} [] OTHER -> {}]
MCSeedRefs == [r \in MCRefs |-> c1]
MCCommandSets == {[r \in {main} |-> [old |-> c1, new |-> c2]]}

\* The same with no tree under c1, for the runs with a push.
MCPushLinks == [o \in MCOid |-> IF o = c2 THEN {x} ELSE {}]
MCPushRows == [p \in Packs |-> CASE p = 1 -> {c1} [] p = 2 -> {x} [] OTHER -> {}]

\* A repository with garbage only and no ref: nothing will be marked.
MCGarbageRows == [p \in Packs |-> IF p = 1 THEN {x} ELSE {}]
MCNoRefs == [r \in MCRefs |-> Null]
MCLeafContents == {{t1}}
MCLeafCommands == {[r \in {main} |-> [old |-> Null, new |-> t1]]}

\* One pack, and a push without a pack that moves main from c1 to x.
MCOneRows == [p \in Packs |-> IF p = 1 THEN {c1, x} ELSE {}]
MCMoveCommands == {[r \in {main} |-> [old |-> c1, new |-> x]]}

=============================================================================
