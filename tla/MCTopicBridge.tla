--------------------------- MODULE MCTopicBridge ---------------------------
(***************************************************************************)
(* Three domains.  The topic goes from ha to hb and back, so each          *)
(* publication could be mistaken for a message of the domain it is made    *)
(* on, and from ha on to hc, where nobody subscribes.  hd shares the       *)
(* domain of hb, so that its messages reach ha by two handles; but hd also *)
(* hears what hb publishes for ha, and sends it back.                      *)
(***************************************************************************)
EXTENDS TopicBridge, TLC

CONSTANTS ha, hb, hc, hd, ca, cb, cc

MCChannelOf == (ha :> ca) @@ (hb :> cb) @@ (hc :> cc) @@ (hd :> cb)
MCTargets   == (ha :> {hb, hc}) @@ (hb :> {ha}) @@ (hc :> {}) @@ (hd :> {ha})
=============================================================================
