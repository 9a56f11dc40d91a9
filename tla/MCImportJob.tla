----------------------------- MODULE MCImportJob ----------------------------
(* Instances of ImportJob.                                                    *)
EXTENDS ImportJob

(* Entries 2 and 3 are deltas of entry 1, and 1 is a delta of entry 4: all    *)
(* three are parked, and resolving 4 writes 1, then 3, then 2.  Entry 6       *)
(* repeats the object of entry 1.  Object 9 is outside the pack.  With parts  *)
(* of 4 units one boundary falls between 4 and 1, the other inside entry 5.   *)
Sizes == <<1, 1, 1, 3, 2, 1>>
Objects == <<1, 2, 3, 4, 5, 1>>
Bases == <<4, 1, 1, 0, 0, 4>>
Links == <<{9}, {}, {1}, {}, {}, {9}>>
=============================================================================
