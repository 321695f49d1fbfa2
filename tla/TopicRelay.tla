----------------------------- MODULE TopicRelay -----------------------------
(***************************************************************************)
(* What a bridged topic promises, without histories, callbacks or threads: *)
(* for every secluded handle and every target of its route, the messages   *)
(* of the handle's channel are handed on in their order, each at most      *)
(* once.  A message may be skipped only when Depth newer ones of its       *)
(* channel exist.  Of other handles nothing is promised but that they hand *)
(* on only what somebody sent.                                             *)
(***************************************************************************)
EXTENDS Integers, Sequences, FiniteSets

CONSTANTS Handles, Channels, channelOf, targets, Depth, Secluded

VARIABLES
    origin,   \* the channel on which each message was sent
    relayed   \* relayed[h][g]: what has been handed on from h to g

relayVars == <<origin, relayed>>

RelayInit ==
    /\ origin = <<>>
    /\ relayed = [h \in Handles |-> [g \in Handles |-> <<>>]]

Send(c) ==
    /\ origin' = Append(origin, c)
    /\ UNCHANGED relayed

HandedOn(h, g) == {relayed[h][g][i] : i \in 1 .. Len(relayed[h][g])}

(* Message n may be given up. *)
Overrun(n) ==
    Cardinality({k \in 1 .. Len(origin) : origin[k] = origin[n] /\ n < k}) >= Depth

HandOn(h, g, m) ==
    /\ h \in Secluded =>
          /\ origin[m] = channelOf[h]
          /\ \A n \in HandedOn(h, g) : n < m
          /\ \A n \in (1 .. m - 1) \ HandedOn(h, g) :
                origin[n] = channelOf[h] => Overrun(n)
    /\ relayed' = [relayed EXCEPT ![h][g] = Append(@, m)]
    /\ UNCHANGED origin

RelayNext ==
    \/ \E c \in Channels : Send(c)
    \/ \E h \in Handles : \E g \in targets[h] : \E m \in 1 .. Len(origin) :
          HandOn(h, g, m)

RelaySpec == RelayInit /\ [][RelayNext]_relayVars
=============================================================================
