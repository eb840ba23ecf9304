----------------------- MODULE MCAuthorizationHandlers -----------------------
(* The handlers that TLC checks: three ids, so that one is linked between two
   others, and for x and y another instance, with another priority. *)
EXTENDS AuthorizationHandlers, TLC

CONSTANTS x, y, z, x1, x2, y1, y2, z1

MCIdOf == (x1 :> x) @@ (x2 :> x) @@ (y1 :> y) @@ (y2 :> y) @@ (z1 :> z)

MCPriority == (x1 :> 1) @@ (x2 :> 3) @@ (y1 :> 2) @@ (y2 :> 1) @@ (z1 :> 2)

MCMaxReferences == [i \in Instances |-> IF i = x1 THEN 1 ELSE 0]

Symmetry == Permutations(Threads)
=============================================================================
