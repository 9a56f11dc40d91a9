----------------------------- MODULE MCGcBuild ------------------------------
(* GcBuild on two candidates.                                                 *)
EXTENDS GcBuild, TLC

(* In the new pack, with h for the header and parts of 3 units:               *)
(*     h a b1 | b2 b3 b4 | c1 c2 d1 | d2 e                                    *)
(* b is streamed in two fragments, the others are read whole; d and e are in  *)
(* the second candidate.  The part boundaries fall inside the entry being     *)
(* streamed, at its end, and inside an entry that is finished; e alone is     *)
(* left for the end, and so are its row and the one of an entry before it     *)
(* when a replay began there.  b and e are commits.                           *)
MCCands == <<{0, 2, 3}, {0, 1}>>
MCSize == (<<1, 0>> :> 1) @@ (<<1, 2>> :> 4) @@ (<<1, 3>> :> 2)
            @@ (<<2, 0>> :> 2) @@ (<<2, 1>> :> 1)
MCCommits == {<<1, 2>>, <<2, 1>>}
=============================================================================
