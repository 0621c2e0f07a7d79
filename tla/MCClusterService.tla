-------------------------- MODULE MCClusterService --------------------------
(* ClusterService on a small instance: one file that clusters, one that     *)
(* does not.                                                                *)
EXTENDS ClusterService

CONSTANTS j1, j2, good, bad

MCJobIds == {j1, j2}
MCFiles == {good, bad}
MCBodies == {"full", "compact"}
MCReadEnds == (good :> {"ok"} @@ bad :> {"ok", "USER_ERROR", "TOO_MANY_ROWS"})
MCClusterEnds == (good :> {"ok"} @@ bad :> {"USER_ERROR", "INTERNAL_ERROR"})
MCBodySize == (good :> 1 @@ bad :> 1)

Ids == Permutations(MCJobIds)
=============================================================================
