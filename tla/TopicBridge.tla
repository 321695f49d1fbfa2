---------------------------- MODULE TopicBridge ----------------------------
(***************************************************************************)
(* A topic bridged between ROS 2 domains: on every handle a MetaSubscriber *)
(* takes messages off its domain and a MetaPublisher puts messages on it   *)
(* (src/MetaPublisher.cpp), joined by the core as the topic's route says.  *)
(*                                                                         *)
(* A channel is what one handle's node sees of the topic: its domain and   *)
(* namespace.  ROS 2 nodes outside the bridge publish on a channel.  Each  *)
(* handle's subscription has a history queue; its thread takes the oldest  *)
(* message and publishes it on the handles the route names, one by one.    *)
(* Messages are numbered in the order in which they enter the system.      *)
(***************************************************************************)
EXTENDS Integers, Sequences, FiniteSets

CONSTANTS
    Handles,
    Channels,
    channelOf,     \* the channel of a handle's node
    targets,       \* the handles that a handle's messages are published on
    Depth,         \* history depth of the subscriptions (KEEP_LAST)
    MaxMessages    \* bound on what outside nodes publish

ASSUME TopicAssumption ==
    /\ channelOf \in [Handles -> Channels]
    /\ targets \in [Handles -> SUBSET Handles]
    /\ Depth \in Nat \ {0}
    /\ MaxMessages \in Nat

VARIABLES
    origin,   \* the channel on which each message was published first
    queue,    \* the history of a handle's subscription
    task,     \* the message a subscription callback forwards, 0 if none
    todo,     \* the handles it has not published it on yet
    relayed   \* relayed[h][g]: what handle g has published for handle h

topicVars == <<origin, queue, task, todo, relayed>>

Messages == 1 .. Len(origin)

TopicInit ==
    /\ origin = <<>>
    /\ queue  = [h \in Handles |-> <<>>]
    /\ task   = [h \in Handles |-> 0]
    /\ todo   = [h \in Handles |-> {}]
    /\ relayed = [h \in Handles |-> [g \in Handles |-> <<>>]]

(* Deviation: a full history refuses the new message. *)
KeepFirst(q, m) == IF Len(q) < Depth THEN Append(q, m) ELSE q

(* A KEEP_LAST history: the new message drops the oldest one. *)
KeepLast(q, m) == IF Len(q) < Depth THEN Append(q, m) ELSE Append(Tail(q), m)

(* Deviation: ignore_local_publications is left at false. *)
EverySubscription(c, own) == {h \in Handles : channelOf[h] = c /\ targets[h] # {}}

(* The subscriptions that a publication on channel c reaches, if handles   *)
(* own (none: an outside node) make it.  A handle subscribes if a route    *)
(* starts there, and ignore_local_publications hides what its own node     *)
(* publishes.                                                              *)
Subscriptions(c, own) ==
    {h \in Handles : channelOf[h] = c /\ targets[h] # {} /\ h \notin own}

Distribute(c, own, m) ==
    [h \in Handles |->
        IF h \in Subscriptions(c, own) THEN KeepLast(queue[h], m) ELSE queue[h]]

(* A node outside the bridge publishes. *)
OutsidePublishes(c) ==
    /\ Len(origin) < MaxMessages
    /\ origin' = Append(origin, c)
    /\ queue'  = Distribute(c, {}, Len(origin) + 1)
    /\ UNCHANGED <<task, todo, relayed>>

(* Deviation: whatever comes on a channel the bridge has published on is   *)
(* taken for its own.                                                      *)
OfBridgedChannel(h) ==
    \E f, g \in Handles : channelOf[g] = channelOf[h] /\ relayed[f][g] # <<>>

(* is_internal_message, which the core asks before it forwards a message. *)
IsInternal(h) == FALSE

(* Deviation: a callback that is told of the newest message only. *)
NewestFirstCallback(h) ==
    /\ task[h] = 0
    /\ queue[h] # <<>>
    /\ task'  = [task EXCEPT ![h] = queue[h][Len(queue[h])]]
    /\ todo'  = [todo EXCEPT ![h] = targets[h]]
    /\ queue' = [queue EXCEPT ![h] = SubSeq(@, 1, Len(@) - 1)]
    /\ UNCHANGED <<origin, relayed>>

(* spin_once takes the oldest message: subscription_callback deserialises  *)
(* it and calls the core.                                                  *)
SubscriptionCallback(h) ==
    /\ task[h] = 0
    /\ queue[h] # <<>>
    /\ task'  = [task EXCEPT ![h] = Head(queue[h])]
    /\ todo'  = [todo EXCEPT ![h] = IF IsInternal(h) THEN {} ELSE targets[h]]
    /\ queue' = [queue EXCEPT ![h] = Tail(@)]
    /\ UNCHANGED <<origin, relayed>>

(* MetaPublisher::publish of handle g, on the thread of handle h. *)
Publish(h, g) ==
    /\ task[h] # 0
    /\ g \in todo[h]
    /\ todo'    = [todo EXCEPT ![h] = @ \ {g}]
    /\ relayed' = [relayed EXCEPT ![h][g] = Append(@, task[h])]
    /\ queue'   = Distribute(channelOf[g], {g}, task[h])
    /\ UNCHANGED <<origin, task>>

(* Deviation: the callback leaves the publishing to somebody else. *)
CallbackReturnsAtOnce(h) ==
    /\ task[h] # 0
    /\ task' = [task EXCEPT ![h] = 0]
    /\ UNCHANGED <<origin, queue, todo, relayed>>

CallbackReturns(h) ==
    /\ task[h] # 0
    /\ todo[h] = {}
    /\ task' = [task EXCEPT ![h] = 0]
    /\ UNCHANGED <<origin, queue, todo, relayed>>

HandleThread(h) ==
    \/ SubscriptionCallback(h)
    \/ \E g \in Handles : Publish(h, g)
    \/ CallbackReturns(h)

TopicNext ==
    \/ \E c \in Channels : OutsidePublishes(c)
    \/ \E h \in Handles : HandleThread(h)

TopicSpec == TopicInit /\ [][TopicNext]_topicVars

(* The core keeps calling spin_once of every handle. *)
TopicFairness == \A h \in Handles : WF_topicVars(HandleThread(h))

FairTopicSpec == TopicSpec /\ TopicFairness
-----------------------------------------------------------------------------
(* The handles on whose channel no other handle publishes.  The others     *)
(* hear publications of the bridge, which no flag hides from them and      *)
(* is_internal_message does not hold back.                                 *)
Secluded ==
    {h \in Handles : \A f \in Handles : \A g \in targets[f] \ {h} :
        channelOf[g] # channelOf[h]}

(* Every variable has its type, and a callback that is not running has     *)
(* nothing to publish.                                                     *)
TopicTypeOK ==
    /\ origin  \in Seq(Channels)
    /\ queue   \in [Handles -> Seq(Messages)]
    /\ task    \in [Handles -> Messages \cup {0}]
    /\ todo    \in [Handles -> SUBSET Handles]
    /\ relayed \in [Handles -> [Handles -> Seq(Messages)]]
    /\ \A h \in Handles : Len(queue[h]) <= Depth
    /\ \A h \in Handles : task[h] = 0 => todo[h] = {}

(* No echo through a secluded handle, although routes may lead both ways:  *)
(* what is published for it entered the system in its own domain.  For     *)
(* these handles ignore_local_publications is enough and                   *)
(* is_internal_message may always be false; any handle publishes only      *)
(* along its route.                                                        *)
NoEcho ==
    \A h, g \in Handles : \A i \in 1 .. Len(relayed[h][g]) :
        /\ g \in targets[h]
        /\ h \in Secluded => origin[relayed[h][g][i]] = channelOf[h]

(* The messages of a secluded handle's channel are published on another in *)
(* the order in which they were sent, and none of them twice.              *)
OrderIsKept ==
    \A h \in Secluded, g \in Handles : \A i, j \in 1 .. Len(relayed[h][g]) :
        i < j => relayed[h][g][i] < relayed[h][g][j]

IsWaiting(m, h) == \E i \in 1 .. Len(queue[h]) : queue[h][i] = m

IsRelayed(m, h, g) == \E i \in 1 .. Len(relayed[h][g]) : relayed[h][g][i] = m

Newer(m) == {n \in Messages : origin[n] = origin[m] /\ m < n}

(* A message of a secluded handle's channel is on its way or has been      *)
(* published on every handle of the route, unless Depth newer ones have    *)
(* come: nothing is lost but by overflow, and the Depth newest never are.  *)
LossIsOverflow ==
    \A m \in Messages : \A h \in Secluded : \A g \in targets[h] :
        origin[m] = channelOf[h] =>
            \/ IsWaiting(m, h)
            \/ task[h] = m /\ g \in todo[h]
            \/ IsRelayed(m, h, g)
            \/ Cardinality(Newer(m)) >= Depth

Newest(m) == m \in Messages /\ Newer(m) = {}

(* However full the histories are, the newest message of a channel gets    *)
(* through on every route of a secluded handle, or a newer one appears.    *)
NewestIsHeard ==
    \A m \in 1 .. MaxMessages :
        Newest(m) ~>
            \/ ~Newest(m)
            \/ \A h \in Secluded : \A g \in targets[h] :
                  origin[m] = channelOf[h] => IsRelayed(m, h, g)

(* For secluded handles the bridge is a relay that keeps order and loses   *)
(* only what overflows.                                                    *)
Relay == INSTANCE TopicRelay

ImplementsTopicRelay == Relay!RelaySpec
=============================================================================
