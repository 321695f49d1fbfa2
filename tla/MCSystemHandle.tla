--------------------------- MODULE MCSystemHandle ---------------------------
(***************************************************************************)
(* Two handles of one process, two message types with a library each, and  *)
(* one service whose library provides both of its types.                   *)
(***************************************************************************)
EXTENDS SystemHandle, TLC

CONSTANTS ha, hb, m1, m2, req, resp, l1, l2, l3

MCLibraryOf == (m1 :> l1) @@ (m2 :> l2) @@ (req :> l3) @@ (resp :> l3)
=============================================================================
