---------------------------- MODULE MCPatchPlans ----------------------------
(***************************************************************************)
(* One file in each of two projects, a replacement and an insertion.       *)
(***************************************************************************)
EXTENDS PatchPlans

CONSTANTS here, there, file, x, y, blank

Text(nx, ny, nb) == [f \in Fragments |-> CASE f = x -> nx [] f = y -> ny [] f = blank -> nb]
MCPatches ==
    {[path |-> file, old |-> x, new |-> y, keeps |-> FALSE],
     [path |-> file, old |-> x, new |-> y, keeps |-> TRUE]}
MCInitialText ==
    [w \in Projects \X Paths |-> IF w[1] = here THEN Text(1, 0, 1) ELSE Text(1, 1, 0)]
=============================================================================
