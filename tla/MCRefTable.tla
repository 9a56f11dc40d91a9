----------------------------- MODULE MCRefTable -----------------------------
(* RefTable on three refs, two commits and two pushes.                    *)
EXTENDS RefTable, TLC

CONSTANTS o1, o2, t1, p1, p2

(* Refs 1 and 2 are branches in name order, 3 is a tag; main is branch 2, so  *)
(* that a dangling HEAD may adopt a name before it.                           *)
MCNames == 1..3
MCHeads == {1, 2}
(* o2 descends from o1.                                                       *)
MCOids == {o1, o2}
MCParents == (o1 :> {}) @@ (o2 :> {o1})
MCScopes == {{1}, {1, 2}}
MCPatterns == {{1}}
MCPackSets == {{o1}, {o1, o2}}

cmd(n, o, q) == [name |-> n, old |-> o, new |-> q]

(* Creates, a fast-forward, a rewind, deletes, a rename, a list that names    *)
(* one ref twice.                                                             *)
MCBatches ==
  { <<cmd(1, NoOid, o1), cmd(3, NoOid, o2)>>,
    <<cmd(2, NoOid, o2), cmd(1, NoOid, o1)>>,
    <<cmd(1, o1, o2)>>,
    <<cmd(1, o2, o1), cmd(2, NoOid, o1)>>,
    <<cmd(1, o1, NoOid), cmd(2, NoOid, o1)>>,
    <<cmd(2, o2, NoOid), cmd(1, NoOid, o1)>>,
    <<cmd(1, NoOid, o1), cmd(1, o1, o2)>> }

(* No definition tells push ids apart.                                        *)
PushSymmetry == Permutations(Pushes)
=============================================================================
