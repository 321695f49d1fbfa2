-------------------------- MODULE MCBridgeTeardown --------------------------
(***************************************************************************)
(* One service of handle hb, called through the proxies pa and pb of the   *)
(* handles ha and hc at the same time; all three handles end.              *)
(***************************************************************************)
EXTENDS BridgeTeardown, TLC

CONSTANTS ha, hb, hc, sb, pa, pb, r1, r3

MCServerOf  == sb :> hb
MCHandleOf  == (pa :> ha) @@ (pb :> hc)
MCServiceOf == (pa :> sb) @@ (pb :> sb)
MCProxyOf   == (r1 :> pa) @@ (r3 :> pb)
=============================================================================
