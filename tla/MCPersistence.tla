--------------------------- MODULE MCPersistence ---------------------------
(* Persistence on a small instance: three runs for one upload, one for      *)
(* another, results of unequal sizes, and rows that belong to no cluster.   *)
EXTENDS Persistence, TLC

CONSTANTS r1, r2, r3, r4, u1, u2

MCUploadOf == (r1 :> u1 @@ r2 :> u1 @@ r3 :> u1 @@ r4 :> u2)
MCSize == (r1 :> 3 @@ r2 :> 1 @@ r3 :> 0 @@ r4 :> 0)
MCMember == (r1 :> <<0>> @@ r2 :> <<1, 0, 1>> @@ r3 :> <<0>> @@ r4 :> <<>>)
=============================================================================
