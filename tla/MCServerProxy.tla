--------------------------- MODULE MCServerProxy ---------------------------
(***************************************************************************)
(* Two services on one handle, called from two other handles: three calls  *)
(* that compete for one pool, and a fourth whose answers compete for the   *)
(* same thread.                                                            *)
(***************************************************************************)
EXTENDS ServerProxy, TLC

CONSTANTS ha, hb, hc, s1, s2, p1, p2, p3, r1, r2, r3, r4

MCServerOf  == (s1 :> hc) @@ (s2 :> hc)
MCHandleOf  == (p1 :> ha) @@ (p2 :> hb) @@ (p3 :> ha)
MCServiceOf == (p1 :> s1) @@ (p2 :> s1) @@ (p3 :> s2)
MCProxyOf   == (r1 :> p1) @@ (r2 :> p1) @@ (r3 :> p2) @@ (r4 :> p3)
=============================================================================
