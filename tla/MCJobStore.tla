---------------------------- MODULE MCJobStore ----------------------------
(* JobStore on a small instance. *)
EXTENDS JobStore, TLC

CONSTANTS j1, j2, j3, full, e1

MCJobIds == {j1, j2, j3}
MCReports == {<<25, "vectorizing">>, <<85, "persisting">>, <<150, "vectorizing">>}

\* Ids carry no order: jobs are told apart by createdAt alone.
Ids == Permutations(MCJobIds)
=============================================================================
