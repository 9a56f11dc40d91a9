---------------------------- MODULE RefRegister ----------------------------
(* What the ref table of a repository promises its clients: a multi-ref       *)
(* register that moves in single steps.  A step never touches a frozen ref,   *)
(* moves a guarded one only forward and never deletes it, never deletes what  *)
(* HEAD names, and leaves a HEAD that resolves wherever there is a branch.    *)
EXTENDS Naturals

CONSTANTS
  Names, Heads, MainRef, Oids, NoOid,
  Ancestry     \* pairs <<o, q>>: o is q or an ancestor of q

VARIABLES
  refs, head,
  frozen,      \* the pinned refs
  guarded      \* the protected refs

Present(rs) == {n \in Names : rs[n] # NoOid}

Init ==
  /\ refs = [n \in Names |-> NoOid] /\ head = MainRef
  /\ frozen = {} /\ guarded = {}

(* One push: any set of refs moves at once.                                   *)
Transact ==
  /\ refs' \in [Names -> Oids \cup {NoOid}]
  /\ \A n \in Names : refs'[n] # refs[n] => n \notin frozen
  /\ \A n \in guarded \cap Present(refs) : <<refs[n], refs'[n]>> \in Ancestry
  /\ head \in Present(refs) => head \in Present(refs')
  /\ head' \in {head} \cup Present(refs')
  /\ Present(refs') \cap Heads # {} => head' \in Present(refs')
  /\ UNCHANGED <<frozen, guarded>>

(* An administrator freezes refs that exist, thaws, guards and unguards.      *)
Govern ==
  /\ frozen' \in SUBSET Names /\ guarded' \in SUBSET Names
  /\ frozen' \ frozen \subseteq Present(refs)
  /\ UNCHANGED <<refs, head>>

Next == Transact \/ Govern

Spec == Init /\ [][Next]_<<refs, head, frozen, guarded>>
=============================================================================
