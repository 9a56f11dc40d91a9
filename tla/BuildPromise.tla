---------------------------- MODULE BuildPromise ----------------------------
(* What GcChain takes for granted of a build: its actions BuildRows,          *)
(* BuildComplete with BuildUpload, BuildRestart and FinishBuild are the four  *)
(* steps below.  GcBuild, which has the copy cursor, implements them.         *)
CONSTANT Entries     \* the marked entries

VARIABLES posted,    \* entries with a row in the current build pack
          stored,    \* the object of the current build pack is in R2
          live       \* the build pack is live

Init == posted = {} /\ stored = FALSE /\ live = FALSE

(* Rows of marked entries come, at any checkpoint, and none goes.             *)
Post ==
  /\ ~live
  /\ posted \subseteq posted' /\ posted' \subseteq Entries
  /\ UNCHANGED <<stored, live>>

(* The upload completes once every marked entry has its row.                  *)
Store == posted = Entries /\ ~stored /\ stored' = TRUE /\ UNCHANGED <<posted, live>>

(* A build whose object is not there is begun again with a fresh pack.        *)
Restart == ~stored /\ ~live /\ posted' = {} /\ UNCHANGED <<stored, live>>

(* Only a stored pack goes live.                                              *)
Publish == stored /\ live' = TRUE /\ UNCHANGED <<posted, stored>>

(* complete and finish_build may be one step of the slice that completed.     *)
StoreAndPublish ==
  posted = Entries /\ ~stored /\ stored' = TRUE /\ live' = TRUE /\ UNCHANGED posted

Next == Post \/ Store \/ Restart \/ Publish \/ StoreAndPublish

Spec == Init /\ [][Next]_<<posted, stored, live>>
=============================================================================
