--------------------------- MODULE MCClientProxy ---------------------------
(***************************************************************************)
(* Two handles and three client proxies: two requests to the proxy p1 of   *)
(* ha, one to p2 of the same handle, one to p3 of hb, so that a late       *)
(* answer can meet a later request of its own proxy, a callback of another *)
(* proxy on the same or on another handle, or nobody.                      *)
(***************************************************************************)
EXTENDS ClientProxy, TLC

CONSTANTS ha, hb, s, p1, p2, p3, r1, r2, r3, r4

MCServerOf  == s :> hb
MCHandleOf  == (p1 :> ha) @@ (p2 :> ha) @@ (p3 :> hb)
MCServiceOf == (p1 :> s) @@ (p2 :> s) @@ (p3 :> s)
MCProxyOf   == (r1 :> p1) @@ (r2 :> p1) @@ (r3 :> p2) @@ (r4 :> p3)
MCProxyOf3  == (r1 :> p1) @@ (r2 :> p1) @@ (r3 :> p2)
=============================================================================
