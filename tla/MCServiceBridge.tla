-------------------------- MODULE MCServiceBridge --------------------------
(***************************************************************************)
(* Two routes between the handles ha and hb: ha serves sa to hb, and hb    *)
(* serves sb to ha.  Each thread may wait for the other, and answers for   *)
(* one handle arrive while it waits.                                       *)
(***************************************************************************)
EXTENDS ServiceBridge, TLC

CONSTANTS ha, hb, sa, sb, pa, pb, r1, r2, r3

CrossedServerOf  == (sa :> ha) @@ (sb :> hb)
CrossedHandleOf  == (pa :> ha) @@ (pb :> hb)
CrossedServiceOf == (pa :> sb) @@ (pb :> sa)
CrossedProxyOf   == (r1 :> pa) @@ (r2 :> pa) @@ (r3 :> pb)
=============================================================================
