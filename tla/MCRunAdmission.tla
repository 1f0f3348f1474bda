--------------------------- MODULE MCRunAdmission ---------------------------
(***************************************************************************)
(* Three workspaces, two slots, a queue of three.  r1 and r2 share a key,  *)
(* r5 and r7 have none; workspace wA has enough requests to hold both      *)
(* slots and still wait while wB and wC ask.                               *)
(***************************************************************************)
EXTENDS RunAdmission

CONSTANTS r1, r2, r3, r4, r5, r6, r7, wA, wB, wC, k1, k2, k3, k4

MCRequests == {r1, r2, r3, r4, r5, r6, r7}
MCWorkspaces == {wA, wB, wC}
MCKeys == {k1, k2, k3, k4}
MCWorkspaceOf == r1 :> wA @@ r2 :> wA @@ r3 :> wA @@ r4 :> wB @@ r5 :> wB
                 @@ r6 :> wC @@ r7 :> wA
MCKeyOf == r1 :> k1 @@ r2 :> k1 @@ r3 :> k2 @@ r4 :> k3 @@ r5 :> NoKey
           @@ r6 :> k4 @@ r7 :> NoKey

=============================================================================
