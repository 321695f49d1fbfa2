------------------------- MODULE TopicBridgeProofs -------------------------
(***************************************************************************)
(* What TLAPS proves of TopicBridge, for any handles, channels, routes,    *)
(* history depth and number of messages.                                   *)
(***************************************************************************)
EXTENDS TopicBridge, FiniteSetTheorems, TLAPS

Ordered(q) == \A i, j \in 1 .. Len(q) : i < j => q[i] < q[j]

(* The history of a secluded handle h has messages of its own channel      *)
(* only, in the order in which they were published, all after the one      *)
(* being forwarded.                                                        *)
OwnHistory ==
    \A h \in Secluded :
        /\ \A i \in 1 .. Len(queue[h]) :
            /\ origin[queue[h][i]] = channelOf[h]
            /\ task[h] < queue[h][i]
        /\ Ordered(queue[h])

(* A callback forwards a message along the route, if its handle is         *)
(* secluded one of its own channel.                                        *)
OwnTask ==
    \A h \in Handles :
        /\ h \in Secluded /\ task[h] # 0 => origin[task[h]] = channelOf[h]
        /\ todo[h] \subseteq targets[h]

(* What has been published on g for a secluded handle h is older than all  *)
(* that still has to be published there for h.                             *)
Behind ==
    \A h \in Secluded, g \in Handles : \A i \in 1 .. Len(relayed[h][g]) :
        /\ \A j \in 1 .. Len(queue[h]) : relayed[h][g][i] < queue[h][j]
        /\ task[h] # 0 => relayed[h][g][i] <= task[h]
        /\ g \in todo[h] => relayed[h][g][i] < task[h]

TopicInv ==
    /\ TopicTypeOK
    /\ OwnHistory
    /\ OwnTask
    /\ NoEcho
    /\ Behind
    /\ OrderIsKept
    /\ LossIsOverflow

LEMMA SecludedAreHandles == Secluded \subseteq Handles
BY DEF Secluded

(* An element of a sequence of message numbers is such a number. *)
LEMMA Elements ==
    ASSUME NEW n \in Nat, NEW s \in Seq(1 .. n), NEW i \in 1 .. Len(s)
    PROVE  Len(s) \in Nat /\ s[i] \in 1 .. n /\ s[i] \in Nat
OBVIOUS

(* The type invariant, element by element. *)
Numbered ==
    /\ Len(origin) \in Nat
    /\ \A h \in Handles :
        /\ task[h] \in 0 .. Len(origin) /\ task[h] \in Nat
        /\ queue[h] \in Seq(1 .. Len(origin)) /\ Len(queue[h]) \in Nat
        /\ \A i \in 1 .. Len(queue[h]) :
            queue[h][i] \in 1 .. Len(origin) /\ queue[h][i] \in Nat
    /\ \A h, g \in Handles :
        /\ relayed[h][g] \in Seq(1 .. Len(origin)) /\ Len(relayed[h][g]) \in Nat
        /\ \A i \in 1 .. Len(relayed[h][g]) :
            relayed[h][g][i] \in 1 .. Len(origin) /\ relayed[h][g][i] \in Nat

LEMMA TypedIsNumbered ==
    ASSUME TopicTypeOK
    PROVE  Numbered
<1>1. Len(origin) \in Nat
  BY DEF TopicTypeOK
<1>2. ASSUME NEW h \in Handles
      PROVE  /\ task[h] \in 0 .. Len(origin) /\ task[h] \in Nat
             /\ queue[h] \in Seq(1 .. Len(origin)) /\ Len(queue[h]) \in Nat
             /\ \A i \in 1 .. Len(queue[h]) :
                 queue[h][i] \in 1 .. Len(origin) /\ queue[h][i] \in Nat
  <2>1. /\ queue[h] \in Seq(1 .. Len(origin))
        /\ task[h] \in 0 .. Len(origin) /\ task[h] \in Nat
    BY <1>1 DEF TopicTypeOK, Messages
  <2> QED
    BY <1>1, <2>1, Elements
<1>3. ASSUME NEW h \in Handles, NEW g \in Handles
      PROVE  /\ relayed[h][g] \in Seq(1 .. Len(origin)) /\ Len(relayed[h][g]) \in Nat
             /\ \A i \in 1 .. Len(relayed[h][g]) :
                 relayed[h][g][i] \in 1 .. Len(origin) /\ relayed[h][g][i] \in Nat
  <2>1. relayed[h][g] \in Seq(1 .. Len(origin))
    BY <1>1 DEF TopicTypeOK, Messages
  <2> QED
    BY <1>1, <2>1, Elements
<1> QED
  BY <1>1, <1>2, <1>3 DEF Numbered

(* The last message of a sequence is the only one that Append adds, and    *)
(* the order stays if it is newer than the others.                         *)
LEMMA AppendKeeps ==
    ASSUME NEW n \in Nat, NEW q \in Seq(1 .. n), Ordered(q)
    PROVE  LET k == Append(q, n + 1)
           IN  /\ k \in Seq(1 .. (n + 1)) /\ Len(k) = Len(q) + 1
               /\ \A i \in 1 .. Len(k) :
                    k[i] = n + 1 \/ \E j \in 1 .. Len(q) : k[i] = q[j]
               /\ \E i \in 1 .. Len(k) : k[i] = n + 1
               /\ \A i \in 1 .. Len(q) : i \in 1 .. Len(k) /\ k[i] = q[i]
               /\ Ordered(k)
<1> DEFINE k == Append(q, n + 1)
<1>1. Len(q) \in Nat /\ \A i \in 1 .. Len(q) : q[i] \in Nat /\ q[i] < n + 1
  BY Elements
<1>2. k \in Seq(1 .. (n + 1)) /\ Len(k) = Len(q) + 1
  <2>1. q \in Seq(1 .. (n + 1)) /\ n + 1 \in 1 .. (n + 1)
    OBVIOUS
  <2> QED
    BY <2>1
<1>3. k[Len(q) + 1] = n + 1 /\ \A i \in 1 .. Len(q) : k[i] = q[i]
  OBVIOUS
<1> HIDE DEF k
<1>4. ASSUME NEW i \in 1 .. Len(k)
      PROVE  i \in 1 .. Len(q) \/ i = Len(q) + 1
  BY <1>1, <1>2
<1>5. ASSUME NEW i \in 1 .. Len(k)
      PROVE  k[i] = n + 1 \/ \E j \in 1 .. Len(q) : k[i] = q[j]
  BY <1>3, <1>4
<1>6. ASSUME NEW i \in 1 .. Len(k), NEW j \in 1 .. Len(k), i < j PROVE k[i] < k[j]
  <2>1. i \in 1 .. Len(q)
    BY <1>1, <1>2, <1>6
  <2>2. CASE j \in 1 .. Len(q)
    BY <2>1, <2>2, <1>3, <1>6 DEF Ordered
  <2>3. CASE j = Len(q) + 1
    BY <2>1, <2>3, <1>1, <1>3
  <2> QED
    BY <2>2, <2>3, <1>4
<1>7. Ordered(k)
  BY <1>6 DEF Ordered
<1>8. /\ Len(q) + 1 \in 1 .. Len(k)
      /\ \A i \in 1 .. Len(q) : i \in 1 .. Len(k) /\ k[i] = q[i]
  BY <1>1, <1>2, <1>3
<1> QED
  BY <1>2, <1>3, <1>5, <1>7, <1>8 DEF k

(* A history that is not empty has an oldest message, and a rest. *)
LEMMA HeadAndTail ==
    ASSUME NEW S, NEW q \in Seq(S), q # <<>>
    PROVE  /\ Head(q) \in S /\ Head(q) = q[1] /\ 1 \in 1 .. Len(q)
           /\ Tail(q) \in Seq(S) /\ Len(Tail(q)) = Len(q) - 1
<1>1. Len(q) \in Nat \ {0} /\ Tail(q) \in Seq(S) /\ Len(Tail(q)) = Len(q) - 1
  OBVIOUS
<1>2. Head(q) = q[1]
  OBVIOUS
<1> QED
  BY <1>1, <1>2

(* The oldest message is before all that remain, and these keep their order. *)
LEMMA TailKeeps ==
    ASSUME NEW n \in Nat, NEW q \in Seq(1 .. n), q # <<>>, Ordered(q)
    PROVE  /\ Head(q) \in 1 .. n /\ Head(q) = q[1] /\ 1 \in 1 .. Len(q)
           /\ Tail(q) \in Seq(1 .. n) /\ Len(Tail(q)) = Len(q) - 1
           /\ \A i \in 1 .. Len(Tail(q)) : Head(q) < Tail(q)[i]
           /\ \A i \in 1 .. Len(Tail(q)) : \E j \in 1 .. Len(q) : Tail(q)[i] = q[j]
           /\ \A i \in 1 .. Len(q) :
                q[i] = Head(q) \/ \E j \in 1 .. Len(Tail(q)) : q[i] = Tail(q)[j]
           /\ Ordered(Tail(q))
<1> DEFINE t == Tail(q)
<1>1. Len(q) \in Nat /\ 1 \in 1 .. Len(q)
  OBVIOUS
<1>2. \A i \in 1 .. Len(q) : q[i] \in Nat /\ q[i] \in 1 .. n
  BY Elements
<1>3. /\ t \in Seq(1 .. n) /\ Len(t) = Len(q) - 1
      /\ \A i \in 1 .. Len(t) : t[i] = q[i + 1]
  BY <1>1
<1>4. Head(q) = q[1]
  BY <1>1
<1> HIDE DEF t
<1>5. ASSUME NEW i \in 1 .. Len(t) PROVE i + 1 \in 1 .. Len(q) /\ 1 < i + 1
  <2>1. Len(t) = Len(q) - 1
    BY <1>3
  <2> QED
    BY <2>1, <1>1
<1>6. ASSUME NEW i \in 1 .. Len(t) PROVE q[1] < t[i]
  <2>1. q[1] < q[i + 1]
    BY <1>1, <1>5 DEF Ordered
  <2> QED
    BY <2>1, <1>3
<1>7. ASSUME NEW i \in 1 .. Len(t), NEW j \in 1 .. Len(t), i < j PROVE t[i] < t[j]
  <2>1. i + 1 \in 1 .. Len(q) /\ j + 1 \in 1 .. Len(q) /\ i + 1 < j + 1
    BY <1>5, <1>7
  <2>2. q[i + 1] < q[j + 1]
    BY <2>1 DEF Ordered
  <2> QED
    BY <2>2, <1>3
<1>8. Ordered(t)
  BY <1>7 DEF Ordered
<1>9. \A i \in 1 .. Len(t) : \E j \in 1 .. Len(q) : t[i] = q[j]
  BY <1>3, <1>5
<1>10. ASSUME NEW i \in 1 .. Len(q), i # 1
       PROVE  i - 1 \in 1 .. Len(t) /\ t[i - 1] = q[i]
  <2>1. i - 1 \in 1 .. Len(t)
    BY <1>10, <1>1, <1>3
  <2> QED
    BY <2>1, <1>3
<1>11. \A i \in 1 .. Len(q) : q[i] = Head(q) \/ \E j \in 1 .. Len(t) : q[i] = t[j]
  BY <1>4, <1>10
<1> QED
  BY <1>1, <1>2, <1>3, <1>4, <1>6, <1>8, <1>9, <1>11 DEF t

(* A history that takes a message newer than all others keeps its order,   *)
(* and drops a message only to hold Depth newer ones.                      *)
LEMMA KeepLastKeeps ==
    ASSUME NEW n \in Nat, NEW q \in Seq(1 .. n), Len(q) <= Depth, Ordered(q)
    PROVE  LET k == KeepLast(q, n + 1)
           IN  /\ k \in Seq(1 .. (n + 1))
               /\ Len(k) <= Depth
               /\ \A i \in 1 .. Len(k) :
                    k[i] = n + 1 \/ \E j \in 1 .. Len(q) : k[i] = q[j]
               /\ \E i \in 1 .. Len(k) : k[i] = n + 1
               /\ \A i \in 1 .. Len(q) :
                    \/ \E j \in 1 .. Len(k) : k[j] = q[i]
                    \/ Len(k) = Depth /\ \A j \in 1 .. Len(k) : q[i] < k[j]
               /\ Ordered(k)
<1>1. Depth \in Nat \ {0} /\ Len(q) \in Nat
  BY TopicAssumption DEF TopicAssumption
<1>2. CASE Len(q) < Depth
  <2> DEFINE k == Append(q, n + 1)
  <2>1. KeepLast(q, n + 1) = k
    BY <1>2 DEF KeepLast
  <2>2. /\ k \in Seq(1 .. (n + 1)) /\ Len(k) = Len(q) + 1 /\ Ordered(k)
        /\ \A i \in 1 .. Len(k) :
            k[i] = n + 1 \/ \E j \in 1 .. Len(q) : k[i] = q[j]
        /\ \E i \in 1 .. Len(k) : k[i] = n + 1
        /\ \A i \in 1 .. Len(q) : i \in 1 .. Len(k) /\ k[i] = q[i]
    BY AppendKeeps
  <2> HIDE DEF k
  <2>3. Len(k) <= Depth
    BY <2>2, <1>1, <1>2
  <2> QED
    BY <2>1, <2>2, <2>3
<1>3. CASE ~(Len(q) < Depth)
  <2> DEFINE t == Tail(q)
             k == Append(t, n + 1)
  <2>1. KeepLast(q, n + 1) = k
    BY <1>3 DEF KeepLast
  <2>2. q # <<>>
    BY <1>1, <1>3
  <2>3. /\ t \in Seq(1 .. n) /\ Len(t) = Len(q) - 1 /\ Ordered(t)
        /\ Head(q) \in 1 .. n
        /\ \A i \in 1 .. Len(t) : Head(q) < t[i]
        /\ \A i \in 1 .. Len(t) : \E j \in 1 .. Len(q) : t[i] = q[j]
        /\ \A i \in 1 .. Len(q) :
             q[i] = Head(q) \/ \E j \in 1 .. Len(t) : q[i] = t[j]
    BY <2>2, TailKeeps
  <2> HIDE DEF t
  <2>4. /\ k \in Seq(1 .. (n + 1)) /\ Len(k) = Len(t) + 1 /\ Ordered(k)
        /\ \A i \in 1 .. Len(k) :
            k[i] = n + 1 \/ \E j \in 1 .. Len(t) : k[i] = t[j]
        /\ \E i \in 1 .. Len(k) : k[i] = n + 1
        /\ \A i \in 1 .. Len(t) : i \in 1 .. Len(k) /\ k[i] = t[i]
    BY <2>3, AppendKeeps
  <2> HIDE DEF k
  <2>5. Len(k) = Depth
    BY <2>3, <2>4, <1>1, <1>3
  <2>6. ASSUME NEW i \in 1 .. Len(k)
        PROVE  k[i] = n + 1 \/ \E j \in 1 .. Len(q) : k[i] = q[j]
    <3>1. \A j \in 1 .. Len(t) : \E x \in 1 .. Len(q) : t[j] = q[x]
      BY <2>3
    <3>2. k[i] = n + 1 \/ \E j \in 1 .. Len(t) : k[i] = t[j]
      BY <2>4
    <3> QED
      BY <3>1, <3>2
  <2>7. ASSUME NEW j \in 1 .. Len(k) PROVE Head(q) < k[j]
    <3>1. Head(q) < n + 1
      BY <2>3
    <3>2. k[j] = n + 1 \/ \E i \in 1 .. Len(t) : k[j] = t[i]
      BY <2>4
    <3> QED
      BY <3>1, <3>2, <2>3
  <2>8. ASSUME NEW i \in 1 .. Len(q)
        PROVE  \/ \E j \in 1 .. Len(k) : k[j] = q[i]
               \/ Len(k) = Depth /\ \A j \in 1 .. Len(k) : q[i] < k[j]
    <3>1. q[i] = Head(q) \/ \E j \in 1 .. Len(t) : q[i] = t[j]
      BY <2>3
    <3>2. CASE q[i] = Head(q)
      BY <3>2, <2>5, <2>7
    <3>3. CASE \E j \in 1 .. Len(t) : q[i] = t[j]
      BY <3>3, <2>4
    <3> QED
      BY <3>1, <3>2, <3>3
  <2>9. /\ k \in Seq(1 .. (n + 1)) /\ Ordered(k) /\ Len(k) <= Depth
        /\ \E i \in 1 .. Len(k) : k[i] = n + 1
    BY <1>1, <2>4, <2>5
  <2> QED
    BY <2>1, <2>6, <2>8, <2>9
<1> QED
  BY <1>2, <1>3

(* A set that holds every element of an ordered sequence has as many.      *)
LEMMA HoldsAsMany ==
    ASSUME NEW n \in Nat, NEW q \in Seq(1 .. n), Ordered(q),
           NEW S, IsFiniteSet(S), \A i \in 1 .. Len(q) : q[i] \in S
    PROVE  Cardinality(S) >= Len(q)
<1>1. Len(q) \in Nat /\ \A i \in 1 .. Len(q) : q[i] \in Nat
  BY Elements
<1>2. q \in [1 .. Len(q) -> S]
  OBVIOUS
<1>3. ASSUME NEW i \in 1 .. Len(q), NEW j \in 1 .. Len(q), q[i] = q[j] PROVE i = j
  <2>1. ~(i < j) /\ ~(j < i)
    BY <1>1, <1>3 DEF Ordered
  <2> QED
    BY <1>1, <2>1
<1>4. q \in Injection(1 .. Len(q), S)
  BY <1>2, <1>3 DEF Injection, IsInjective
<1>5. Cardinality(1 .. Len(q)) = Len(q)
  <2>1. \A b \in Int : Cardinality(1 .. b) = IF 1 > b THEN 0 ELSE b - 1 + 1
    BY FS_Interval
  <2> DEFINE l == Len(q)
  <2>2. l \in Nat
    BY <1>1
  <2> HIDE DEF l
  <2>3. Cardinality(1 .. l) = IF 1 > l THEN 0 ELSE l - 1 + 1
    BY <2>1, <2>2
  <2>4. Cardinality(1 .. l) = l
    BY <2>2, <2>3
  <2> QED
    BY <2>4 DEF l
<1>6. Cardinality(1 .. Len(q)) <= Cardinality(S)
  BY <1>4, FS_Injection
<1>7. Cardinality(S) \in Nat
  BY FS_CardinalityType
<1> QED
  BY <1>1, <1>5, <1>6, <1>7

(* Only finitely many messages are newer than a given one. *)
LEMMA NewerIsFinite ==
    ASSUME NEW m, Len(origin) \in Nat
    PROVE  IsFiniteSet(Newer(m)) /\ Cardinality(Newer(m)) \in Nat
<1>1. IsFiniteSet(1 .. Len(origin))
  BY FS_Interval
<1>2. Newer(m) \in SUBSET (1 .. Len(origin))
  BY DEF Newer, Messages
<1>3. IsFiniteSet(Newer(m))
  BY <1>1, <1>2, FS_Subset
<1> QED
  BY <1>3, FS_CardinalityType

(* A history of messages remains one. *)
LEMMA KeepLastType ==
    ASSUME NEW S, NEW q \in Seq(S), Len(q) <= Depth, NEW m \in S
    PROVE  KeepLast(q, m) \in Seq(S) /\ Len(KeepLast(q, m)) <= Depth
<1>1. Depth \in Nat \ {0} /\ Len(q) \in Nat
  BY TopicAssumption DEF TopicAssumption
<1>2. CASE Len(q) < Depth
  <2>1. Append(q, m) \in Seq(S) /\ Len(Append(q, m)) = Len(q) + 1
    OBVIOUS
  <2> QED
    BY <1>1, <1>2, <2>1 DEF KeepLast
<1>3. CASE ~(Len(q) < Depth)
  <2> DEFINE t == Tail(q)
  <2>1. t \in Seq(S) /\ Len(t) = Len(q) - 1
    BY <1>1, <1>3
  <2> HIDE DEF t
  <2>2. Append(t, m) \in Seq(S) /\ Len(Append(t, m)) = Len(t) + 1
    BY <2>1
  <2>3. KeepLast(q, m) = Append(t, m)
    BY <1>3 DEF KeepLast, t
  <2> QED
    BY <1>1, <2>1, <2>2, <2>3
<1> QED
  BY <1>2, <1>3

(* No other handle publishes on the channel of a secluded one, and its own *)
(* node's publications it ignores: it does not hear the bridge.            *)
LEMMA BridgeIsNotHeard ==
    ASSUME NEW h \in Handles, NEW g \in targets[h], NEW m, NEW k \in Secluded
    PROVE  Distribute(channelOf[g], {g}, m)[k] = queue[k]
BY DEF Secluded, Distribute, Subscriptions

(* What a node outside publishes goes to the end of the histories on its   *)
(* channel.                                                                *)
LEMMA OutsideKeeps ==
    ASSUME TopicInv, NEW c \in Channels, OutsidePublishes(c)
    PROVE  TopicInv'
<1> USE TopicAssumption, SecludedAreHandles DEF TopicAssumption
<1> DEFINE n == Len(origin)
<1>1. Numbered
  BY TypedIsNumbered DEF TopicInv
<1>2. /\ origin \in Seq(Channels)
      /\ queue \in [Handles -> Seq(1 .. n)]
      /\ task \in [Handles -> 1 .. n \cup {0}]
      /\ todo \in [Handles -> SUBSET Handles]
      /\ relayed \in [Handles -> [Handles -> Seq(1 .. n)]]
      /\ \A h \in Handles : Len(queue[h]) <= Depth /\ (task[h] = 0 => todo[h] = {})
  BY DEF TopicInv, TopicTypeOK, Messages
<1>3. /\ origin' = Append(origin, c)
      /\ queue' = [h \in Handles |->
            IF h \in Subscriptions(c, {}) THEN KeepLast(queue[h], n + 1) ELSE queue[h]]
      /\ task' = task /\ todo' = todo /\ relayed' = relayed
  BY DEF OutsidePublishes, Distribute
<1>4. /\ origin' \in Seq(Channels)
      /\ Len(origin') = n + 1
      /\ origin'[n + 1] = c
      /\ \A i \in 1 .. n : origin'[i] = origin[i]
  BY <1>2, <1>3
<1>5. n \in Nat
  BY <1>1 DEF Numbered
<1> HIDE DEF n
<1>0. ASSUME NEW h \in Handles
      PROVE  queue'[h] \in Seq(1 .. (n + 1)) /\ Len(queue'[h]) <= Depth
  <2>1. queue[h] \in Seq(1 .. (n + 1)) /\ Len(queue[h]) <= Depth /\ n + 1 \in 1 .. (n + 1)
    BY <1>2, <1>5
  <2>2. queue'[h] = KeepLast(queue[h], n + 1) \/ queue'[h] = queue[h]
    BY <1>3
  <2> QED
    BY <2>1, <2>2, KeepLastType
<1>6. ASSUME NEW h \in Secluded
      PROVE  /\ queue'[h] \in Seq(1 .. (n + 1)) /\ Len(queue'[h]) <= Depth
             /\ Ordered(queue'[h])
             /\ \A i \in 1 .. Len(queue'[h]) :
                  \/ \E j \in 1 .. Len(queue[h]) : queue'[h][i] = queue[h][j]
                  \/ channelOf[h] = c /\ queue'[h][i] = n + 1
             /\ \A i \in 1 .. Len(queue[h]) :
                  \/ \E j \in 1 .. Len(queue'[h]) : queue'[h][j] = queue[h][i]
                  \/ /\ Len(queue'[h]) = Depth
                     /\ \A j \in 1 .. Len(queue'[h]) : queue[h][i] < queue'[h][j]
             /\ targets[h] # {} /\ channelOf[h] = c =>
                  \E i \in 1 .. Len(queue'[h]) : queue'[h][i] = n + 1
  <2>1. queue[h] \in Seq(1 .. n) /\ Len(queue[h]) <= Depth /\ Ordered(queue[h])
    BY <1>2 DEF TopicInv, OwnHistory
  <2>2. CASE h \in Subscriptions(c, {})
    <3>1. queue'[h] = KeepLast(queue[h], n + 1) /\ channelOf[h] = c
      BY <2>2, <1>3 DEF Subscriptions
    <3> DEFINE k == KeepLast(queue[h], n + 1)
    <3>2. /\ k \in Seq(1 .. (n + 1)) /\ Len(k) <= Depth /\ Ordered(k)
          /\ \A i \in 1 .. Len(k) :
              k[i] = n + 1 \/ \E j \in 1 .. Len(queue[h]) : k[i] = queue[h][j]
          /\ \E i \in 1 .. Len(k) : k[i] = n + 1
          /\ \A i \in 1 .. Len(queue[h]) :
              \/ \E j \in 1 .. Len(k) : k[j] = queue[h][i]
              \/ Len(k) = Depth /\ \A j \in 1 .. Len(k) : queue[h][i] < k[j]
      BY <2>1, <1>5, KeepLastKeeps
    <3> HIDE DEF k
    <3> QED
      BY <3>1, <3>2 DEF k
  <2>3. CASE h \notin Subscriptions(c, {})
    <3>1. queue'[h] = queue[h] /\ ~(targets[h] # {} /\ channelOf[h] = c)
      BY <2>3, <1>3 DEF Subscriptions
    <3>2. queue[h] \in Seq(1 .. (n + 1))
      BY <2>1, <1>5
    <3> QED
      BY <2>1, <3>1, <3>2
  <2> QED
    BY <2>2, <2>3
<1>7. TopicTypeOK'
  <2>1. queue' \in [Handles -> Seq(1 .. (n + 1))]
    BY <1>0, <1>3
  <2>2. \A h, g \in Handles : relayed[h][g] \in Seq(1 .. (n + 1))
    BY <1>2, <1>5
  <2>3. relayed \in [Handles -> [Handles -> Seq(1 .. (n + 1))]]
    <3>1. \A h \in Handles : relayed[h] \in [Handles -> Seq(1 .. (n + 1))]
      BY <1>2, <2>2
    <3> QED
      BY <1>2, <3>1
  <2>4. task' \in [Handles -> 1 .. (n + 1) \cup {0}]
    BY <1>2, <1>3, <1>5
  <2> QED
    BY <1>0, <1>2, <1>3, <1>4, <2>1, <2>3, <2>4 DEF TopicTypeOK, Messages
<1>8. /\ \A h \in Secluded : \A i \in 1 .. Len(queue[h]) :
            /\ queue[h][i] \in 1 .. n /\ origin[queue[h][i]] = channelOf[h]
            /\ task[h] < queue[h][i]
      /\ \A h \in Handles : task[h] \in 0 .. n
      /\ \A h, g \in Handles : \A i \in 1 .. Len(relayed[h][g]) :
            /\ relayed[h][g][i] \in 1 .. n
            /\ origin'[relayed[h][g][i]] = origin[relayed[h][g][i]]
  BY <1>1, <1>4 DEF Numbered, n, TopicInv, OwnHistory
<1>9. OwnHistory'
  <2> SUFFICES ASSUME NEW h \in Secluded
               PROVE  /\ \A i \in 1 .. Len(queue'[h]) :
                            /\ origin'[queue'[h][i]] = channelOf[h]
                            /\ task'[h] < queue'[h][i]
                      /\ Ordered(queue'[h])
    BY DEF OwnHistory, Ordered
  <2>1. ASSUME NEW i \in 1 .. Len(queue'[h]),
               NEW j \in 1 .. Len(queue[h]), queue'[h][i] = queue[h][j]
        PROVE  origin'[queue'[h][i]] = channelOf[h] /\ task'[h] < queue'[h][i]
    <3>1. /\ queue[h][j] \in 1 .. n /\ origin[queue[h][j]] = channelOf[h]
          /\ task[h] < queue[h][j]
      BY <1>8
    <3>2. origin'[queue[h][j]] = origin[queue[h][j]]
      BY <3>1, <1>4
    <3> QED
      BY <2>1, <3>1, <3>2, <1>3
  <2>2. task[h] < n + 1
    BY <1>5, <1>8
  <2>3. ASSUME NEW i \in 1 .. Len(queue'[h])
        PROVE  origin'[queue'[h][i]] = channelOf[h] /\ task'[h] < queue'[h][i]
    <3>1. CASE channelOf[h] = c /\ queue'[h][i] = n + 1
      BY <3>1, <2>2, <1>3, <1>4
    <3>2. CASE \E j \in 1 .. Len(queue[h]) : queue'[h][i] = queue[h][j]
      BY <3>2, <2>1
    <3> QED
      BY <3>1, <3>2, <1>6
  <2> QED
    BY <2>3, <1>6
<1>10. OwnTask'
  <2> SUFFICES ASSUME NEW h \in Handles
               PROVE  /\ h \in Secluded /\ task'[h] # 0 => origin'[task'[h]] = channelOf[h]
                      /\ todo'[h] \subseteq targets[h]
    BY DEF OwnTask
  <2>1. task[h] # 0 => task[h] \in 1 .. n
    BY <1>2
  <2> QED
    BY <2>1, <1>3, <1>4 DEF TopicInv, OwnTask
<1>11. NoEcho'
  <2> SUFFICES ASSUME NEW h \in Handles, NEW g \in Handles,
                      NEW i \in 1 .. Len(relayed'[h][g])
               PROVE  /\ g \in targets[h]
                      /\ h \in Secluded => origin'[relayed'[h][g][i]] = channelOf[h]
    BY DEF NoEcho
  <2>1. i \in 1 .. Len(relayed[h][g]) /\ relayed'[h][g][i] = relayed[h][g][i]
    BY <1>3
  <2>2. origin'[relayed[h][g][i]] = origin[relayed[h][g][i]]
    BY <2>1, <1>8
  <2> QED
    BY <2>1, <2>2 DEF TopicInv, NoEcho
<1>12. OrderIsKept'
  BY <1>3 DEF TopicInv, OrderIsKept
<1>13. Behind'
  <2> SUFFICES ASSUME NEW h \in Secluded, NEW g \in Handles,
                      NEW i \in 1 .. Len(relayed'[h][g])
               PROVE  /\ \A j \in 1 .. Len(queue'[h]) :
                            relayed'[h][g][i] < queue'[h][j]
                      /\ task'[h] # 0 => relayed'[h][g][i] <= task'[h]
                      /\ g \in todo'[h] => relayed'[h][g][i] < task'[h]
    BY DEF Behind
  <2> DEFINE m == relayed[h][g][i]
  <2>1. relayed'[h][g][i] = m /\ m \in 1 .. n /\ i \in 1 .. Len(relayed[h][g])
    BY <1>3, <1>8
  <2>2. /\ \A j \in 1 .. Len(queue[h]) : m < queue[h][j]
        /\ task[h] # 0 => m <= task[h]
        /\ g \in todo[h] => m < task[h]
    BY <2>1 DEF TopicInv, Behind
  <2> HIDE DEF m
  <2>3. m < n + 1
    BY <2>1, <1>5
  <2>4. ASSUME NEW j \in 1 .. Len(queue'[h]) PROVE m < queue'[h][j]
    <3>1. \/ \E x \in 1 .. Len(queue[h]) : queue'[h][j] = queue[h][x]
          \/ queue'[h][j] = n + 1
      BY <1>6
    <3> QED
      BY <3>1, <2>2, <2>3
  <2> QED
    BY <2>1, <2>2, <2>4, <1>3
<1>14. LossIsOverflow'
  <2> SUFFICES ASSUME NEW m \in 1 .. Len(origin'), NEW h \in Secluded,
                      NEW g \in targets[h], origin'[m] = channelOf[h]
               PROVE  \/ IsWaiting(m, h)'
                      \/ task'[h] = m /\ g \in todo'[h]
                      \/ IsRelayed(m, h, g)'
                      \/ Cardinality(Newer(m)') >= Depth
    BY DEF LossIsOverflow, Messages
  <2>1. CASE m = n + 1
    BY <2>1, <1>4, <1>6 DEF IsWaiting
  <2>2. CASE m # n + 1
    <3>1. m \in 1 .. n /\ origin[m] = channelOf[h]
      BY <2>2, <1>4, <1>5
    <3>2. IsFiniteSet(Newer(m)') /\ Cardinality(Newer(m)') \in Nat
      <4>1. IsFiniteSet(1 .. (n + 1))
        BY <1>5, FS_Interval
      <4>2. Newer(m)' \in SUBSET (1 .. (n + 1))
        BY <1>4 DEF Newer, Messages
      <4>3. IsFiniteSet(Newer(m)')
        BY <4>1, <4>2, FS_Subset
      <4> QED
        BY <4>3, FS_CardinalityType
    <3>3. CASE IsWaiting(m, h)
      <4>1. PICK i \in 1 .. Len(queue[h]) : queue[h][i] = m
        BY <3>3 DEF IsWaiting
      <4>2. CASE \E j \in 1 .. Len(queue'[h]) : queue'[h][j] = m
        BY <4>2 DEF IsWaiting
      <4>3. CASE /\ Len(queue'[h]) = Depth
                 /\ \A j \in 1 .. Len(queue'[h]) : m < queue'[h][j]
        <5> DEFINE q == queue'[h]
        <5>1. n + 1 \in Nat /\ q \in Seq(1 .. (n + 1)) /\ Ordered(q)
          BY <1>5, <1>6
        <5>2. ASSUME NEW j \in 1 .. Len(q) PROVE q[j] \in Newer(m)'
          <6>1. q[j] \in 1 .. (n + 1) /\ m < q[j]
            BY <5>1, <4>3, Elements
          <6>2. origin'[q[j]] = channelOf[h]
            BY <1>9 DEF OwnHistory
          <6> QED
            BY <6>1, <6>2, <1>4 DEF Newer, Messages
        <5>3. Cardinality(Newer(m)') >= Len(q)
          <6> DEFINE S == Newer(m)'
          <6>1. IsFiniteSet(S) /\ \A j \in 1 .. Len(q) : q[j] \in S
            BY <3>2, <5>2
          <6> HIDE DEF S, q
          <6>2. Cardinality(S) >= Len(q)
            BY <5>1, <6>1, HoldsAsMany
          <6> QED
            BY <6>2 DEF S
        <5> QED
          BY <5>3, <4>3
      <4> QED
        BY <4>1, <4>2, <4>3, <1>6
    <3>4. CASE task[h] = m /\ g \in todo[h]
      BY <3>4, <1>3
    <3>5. CASE IsRelayed(m, h, g)
      BY <3>5, <1>3 DEF IsRelayed
    <3>6. CASE Cardinality(Newer(m)) >= Depth
      <4>1. Newer(m) \in SUBSET (Newer(m)')
        BY <3>1, <1>4, <1>5 DEF Newer, Messages, n
      <4>2. Cardinality(Newer(m)) <= Cardinality(Newer(m)')
        BY <4>1, <3>2, FS_Subset
      <4>3. Cardinality(Newer(m)) \in Nat
        BY <1>5, NewerIsFinite DEF n
      <4> QED
        BY <4>2, <4>3, <3>2, <3>6
    <3> QED
      BY <3>1, <3>3, <3>4, <3>5, <3>6 DEF TopicInv, LossIsOverflow, Messages, n
  <2> QED
    BY <2>1, <2>2
<1> QED
  BY <1>7, <1>9, <1>10, <1>11, <1>12, <1>13, <1>14 DEF TopicInv

(* The subscription callback takes the oldest message of the history.      *)
LEMMA TakeKeeps ==
    ASSUME TopicInv, NEW h \in Handles, SubscriptionCallback(h)
    PROVE  TopicInv'
<1> USE TopicAssumption, SecludedAreHandles DEF TopicAssumption
<1> DEFINE q == queue[h]
<1>1. Numbered
  BY TypedIsNumbered DEF TopicInv
<1>2. /\ queue \in [Handles -> Seq(Messages)]
      /\ task \in [Handles -> Messages \cup {0}]
      /\ todo \in [Handles -> SUBSET Handles]
      /\ \A g \in Handles : Len(queue[g]) <= Depth /\ (task[g] = 0 => todo[g] = {})
  BY DEF TopicInv, TopicTypeOK
<1>3. /\ task[h] = 0 /\ q # <<>>
      /\ task' = [task EXCEPT ![h] = Head(q)]
      /\ todo' = [todo EXCEPT ![h] = targets[h]]
      /\ queue' = [queue EXCEPT ![h] = Tail(q)]
      /\ origin' = origin /\ relayed' = relayed
  BY DEF SubscriptionCallback, IsInternal
<1>4. /\ Head(q) \in Messages /\ Head(q) \in Nat \ {0}
      /\ Head(q) = q[1] /\ 1 \in 1 .. Len(q)
      /\ Tail(q) \in Seq(Messages) /\ Len(Tail(q)) = Len(q) - 1
  <2>1. q \in Seq(1 .. Len(origin)) /\ Len(origin) \in Nat
    BY <1>1 DEF Numbered
  <2>2. /\ Head(q) \in 1 .. Len(origin) /\ Head(q) = q[1] /\ 1 \in 1 .. Len(q)
        /\ Tail(q) \in Seq(1 .. Len(origin)) /\ Len(Tail(q)) = Len(q) - 1
    BY <2>1, <1>3, HeadAndTail
  <2>3. Head(q) \in Nat \ {0}
    BY <2>1, <2>2
  <2> HIDE DEF q
  <2> QED
    BY <2>2, <2>3 DEF Messages
<1>41. ASSUME h \in Secluded
       PROVE  /\ \A i \in 1 .. Len(Tail(q)) : Head(q) < Tail(q)[i]
              /\ \A i \in 1 .. Len(Tail(q)) : \E j \in 1 .. Len(q) : Tail(q)[i] = q[j]
              /\ \A i \in 1 .. Len(q) :
                   q[i] = Head(q) \/ \E j \in 1 .. Len(Tail(q)) : q[i] = Tail(q)[j]
              /\ Ordered(Tail(q))
  <2>1. q \in Seq(1 .. Len(origin)) /\ Len(origin) \in Nat /\ Ordered(q)
    BY <1>1, <1>41 DEF Numbered, TopicInv, OwnHistory
  <2> HIDE DEF q
  <2> QED
    BY <2>1, <1>3, TailKeeps
<1>5. /\ task'[h] = Head(q) /\ todo'[h] = targets[h] /\ queue'[h] = Tail(q)
      /\ \A g \in Handles : g # h =>
            task'[g] = task[g] /\ todo'[g] = todo[g] /\ queue'[g] = queue[g]
  BY <1>2, <1>3
<1>6. TopicTypeOK'
  <2>1. /\ queue' \in [Handles -> Seq(Messages)]
        /\ task' \in [Handles -> Messages \cup {0}]
        /\ todo' \in [Handles -> SUBSET Handles]
    BY <1>2, <1>3, <1>4
  <2>2. \A g \in Handles : Len(queue'[g]) <= Depth /\ (task'[g] = 0 => todo'[g] = {})
    <3>1. Len(q) \in Nat /\ Len(Tail(q)) \in Nat /\ Len(q) <= Depth
      BY <1>1, <1>2, <1>4 DEF Numbered
    <3> QED
      BY <3>1, <1>2, <1>4, <1>5
  <2> QED
    BY <2>1, <2>2, <1>3 DEF TopicInv, TopicTypeOK, Messages
<1> HIDE DEF q
<1>7. /\ h \in Secluded => \A i \in 1 .. Len(q) : origin[q[i]] = channelOf[h]
      /\ \A g \in Secluded : \A i \in 1 .. Len(queue[g]) :
            origin[queue[g][i]] = channelOf[g] /\ task[g] < queue[g][i]
      /\ \A g \in Secluded : Ordered(queue[g])
  BY DEF TopicInv, OwnHistory, q
<1>8. OwnHistory'
  <2> SUFFICES ASSUME NEW g \in Secluded
               PROVE  /\ \A i \in 1 .. Len(queue'[g]) :
                            /\ origin'[queue'[g][i]] = channelOf[g]
                            /\ task'[g] < queue'[g][i]
                      /\ Ordered(queue'[g])
    BY DEF OwnHistory, Ordered
  <2>1. CASE g # h
    BY <2>1, <1>3, <1>5, <1>7
  <2>2. CASE g = h
    <3>1. ASSUME NEW i \in 1 .. Len(Tail(q))
          PROVE  origin[Tail(q)[i]] = channelOf[h] /\ Head(q) < Tail(q)[i]
      BY <2>2, <1>4, <1>41, <1>7
    <3>2. /\ queue'[g] = Tail(q) /\ task'[g] = Head(q) /\ origin' = origin
          /\ channelOf[g] = channelOf[h]
      BY <2>2, <1>3, <1>5
    <3>3. Ordered(queue'[g])
      BY <2>2, <3>2, <1>41
    <3> QED
      BY <3>1, <3>2, <3>3
  <2> QED
    BY <2>1, <2>2
<1>9. OwnTask'
  <2> SUFFICES ASSUME NEW g \in Handles
               PROVE  /\ g \in Secluded /\ task'[g] # 0 => origin'[task'[g]] = channelOf[g]
                      /\ todo'[g] \subseteq targets[g]
    BY DEF OwnTask
  <2>1. CASE g # h
    BY <2>1, <1>3, <1>5 DEF TopicInv, OwnTask
  <2>2. CASE g = h
    BY <2>2, <1>3, <1>4, <1>5, <1>7
  <2> QED
    BY <2>1, <2>2
<1>10. NoEcho' /\ OrderIsKept'
  BY <1>3 DEF TopicInv, NoEcho, OrderIsKept
<1>11. Behind'
  <2> SUFFICES ASSUME NEW f \in Secluded, NEW g \in Handles,
                      NEW i \in 1 .. Len(relayed'[f][g])
               PROVE  /\ \A j \in 1 .. Len(queue'[f]) :
                            relayed'[f][g][i] < queue'[f][j]
                      /\ task'[f] # 0 => relayed'[f][g][i] <= task'[f]
                      /\ g \in todo'[f] => relayed'[f][g][i] < task'[f]
    BY DEF Behind
  <2> DEFINE m == relayed[f][g][i]
  <2>1. /\ \A j \in 1 .. Len(queue[f]) : m < queue[f][j]
        /\ task[f] # 0 => m <= task[f]
        /\ g \in todo[f] => m < task[f]
    BY <1>3 DEF TopicInv, Behind
  <2>2. m \in Nat /\ relayed'[f][g][i] = m
    BY <1>1, <1>3 DEF Numbered
  <2> HIDE DEF m
  <2>3. CASE f # h
    BY <2>1, <2>2, <2>3, <1>5
  <2>4. CASE f = h
    <3>1. \A j \in 1 .. Len(q) : m < q[j]
      BY <2>1, <2>4 DEF q
    <3> QED
      BY <2>2, <2>4, <3>1, <1>4, <1>41, <1>5
  <2> QED
    BY <2>3, <2>4
<1>12. LossIsOverflow'
  <2> SUFFICES ASSUME NEW m \in Messages, NEW f \in Secluded,
                      NEW g \in targets[f], origin[m] = channelOf[f]
               PROVE  \/ IsWaiting(m, f)'
                      \/ task'[f] = m /\ g \in todo'[f]
                      \/ IsRelayed(m, f, g)'
                      \/ Cardinality(Newer(m)') >= Depth
    BY <1>3 DEF LossIsOverflow, Messages
  <2>1. IsRelayed(m, f, g)' = IsRelayed(m, f, g) /\ Newer(m)' = Newer(m)
    BY <1>3 DEF IsRelayed, Newer, Messages
  <2>2. \/ IsWaiting(m, f)
        \/ task[f] = m /\ g \in todo[f]
        \/ IsRelayed(m, f, g)
        \/ Cardinality(Newer(m)) >= Depth
    BY DEF TopicInv, LossIsOverflow
  <2>3. CASE f # h
    <3>1. IsWaiting(m, f)' = IsWaiting(m, f)
      BY <2>3, <1>5 DEF IsWaiting
    <3> QED
      BY <2>1, <2>2, <2>3, <3>1, <1>5
  <2>4. CASE f = h
    <3>1. task[f] # m
      BY <2>4, <1>1, <1>3 DEF Messages, Numbered
    <3>2. IsWaiting(m, f) => IsWaiting(m, f)' \/ (task'[f] = m /\ g \in todo'[f])
      <4>1. ASSUME NEW i \in 1 .. Len(q), q[i] = m
            PROVE  m = Head(q) \/ \E j \in 1 .. Len(Tail(q)) : Tail(q)[j] = m
        BY <2>4, <4>1, <1>4, <1>41
      <4>2. queue'[h] = Tail(q) /\ task'[h] = Head(q) /\ g \in todo'[h]
        BY <2>4, <1>5
      <4> QED
        BY <2>4, <4>1, <4>2 DEF IsWaiting, q
    <3> QED
      BY <2>1, <2>2, <3>1, <3>2
  <2> QED
    BY <2>3, <2>4
<1> QED
  BY <1>6, <1>8, <1>9, <1>10, <1>11, <1>12 DEF TopicInv

(* A publication appends a message to what one route has published, and no *)
(* subscription of a secluded handle takes it.                             *)
LEMMA PublishKeeps ==
    ASSUME TopicInv, NEW h \in Handles, NEW g \in Handles, Publish(h, g)
    PROVE  TopicInv'
<1> USE TopicAssumption, SecludedAreHandles DEF TopicAssumption
<1> DEFINE t == task[h]
           r == relayed[h][g]
<1>1. Numbered
  BY TypedIsNumbered DEF TopicInv
<1>2. /\ task \in [Handles -> Messages \cup {0}]
      /\ todo \in [Handles -> SUBSET Handles]
      /\ relayed \in [Handles -> [Handles -> Seq(Messages)]]
      /\ \A f \in Handles : task[f] = 0 => todo[f] = {}
  BY DEF TopicInv, TopicTypeOK
<1>3. g \in todo[h] /\ g \in targets[h]
  BY DEF Publish, TopicInv, OwnTask
<1>4. /\ t \in Messages /\ t \in Nat /\ t # 0
      /\ todo' = [todo EXCEPT ![h] = @ \ {g}]
      /\ relayed' = [relayed EXCEPT ![h][g] = Append(@, t)]
      /\ origin' = origin /\ task' = task
      /\ queue' = Distribute(channelOf[g], {g}, t)
  BY <1>1, <1>2, <1>3 DEF Publish, TopicInv, Numbered
<1>41. \A k \in Secluded : queue'[k] = queue[k]
  BY <1>3, <1>4, BridgeIsNotHeard
<1>42. /\ queue' \in [Handles -> Seq(Messages)]
       /\ \A k \in Handles : Len(queue'[k]) <= Depth
  <2>1. ASSUME NEW k \in Handles
        PROVE  queue'[k] \in Seq(Messages) /\ Len(queue'[k]) <= Depth
    <3>1. queue[k] \in Seq(Messages) /\ Len(queue[k]) <= Depth
      BY DEF TopicInv, TopicTypeOK
    <3>2. queue'[k] = KeepLast(queue[k], t) \/ queue'[k] = queue[k]
      BY <1>4 DEF Distribute
    <3>3. KeepLast(queue[k], t) \in Seq(Messages) /\ Len(KeepLast(queue[k], t)) <= Depth
      BY <1>4, <3>1, KeepLastType
    <3> QED
      BY <3>1, <3>2, <3>3
  <2>2. queue' = [k \in Handles |-> queue'[k]]
    BY <1>4 DEF Distribute
  <2> QED
    BY <2>1, <2>2
<1>5. /\ r \in Seq(Messages) /\ Len(r) \in Nat
      /\ Append(r, t) \in Seq(Messages) /\ Len(Append(r, t)) = Len(r) + 1
      /\ Append(r, t)[Len(r) + 1] = t
      /\ \A i \in 1 .. Len(r) : Append(r, t)[i] = r[i]
  BY <1>2, <1>4
<1>6. /\ relayed'[h][g] = Append(r, t)
      /\ \A x, y \in Handles : ~(x = h /\ y = g) => relayed'[x][y] = relayed[x][y]
  BY <1>2, <1>4
<1>7. /\ todo'[h] = todo[h] \ {g}
      /\ \A f \in Handles : f # h => todo'[f] = todo[f]
  BY <1>2, <1>4
<1>8. TopicTypeOK'
  <2>1. relayed' \in [Handles -> [Handles -> Seq(Messages)]]
    BY <1>2, <1>4, <1>5
  <2>2. todo' \in [Handles -> SUBSET Handles]
    BY <1>2, <1>4
  <2>3. \A f \in Handles : task[f] = 0 => todo'[f] = {}
    BY <1>2, <1>7
  <2> QED
    BY <2>1, <2>2, <2>3, <1>4, <1>42 DEF TopicInv, TopicTypeOK, Messages
<1>9. \A f \in Handles : todo'[f] \subseteq todo[f]
  BY <1>7
<1>10. OwnHistory' /\ OwnTask'
  <2>1. ASSUME NEW k \in Secluded
        PROVE  /\ \A i \in 1 .. Len(queue'[k]) :
                    /\ origin'[queue'[k][i]] = channelOf[k]
                    /\ task'[k] < queue'[k][i]
               /\ Ordered(queue'[k])
    <3> DEFINE p == queue[k]
    <3>1. /\ \A i \in 1 .. Len(p) : origin[p[i]] = channelOf[k] /\ task[k] < p[i]
          /\ Ordered(p)
      BY DEF TopicInv, OwnHistory
    <3>2. queue'[k] = p /\ origin' = origin /\ task' = task
      BY <1>4, <1>41
    <3> HIDE DEF p
    <3> QED
      BY <3>1, <3>2
  <2>2. OwnTask'
    BY <1>4, <1>9 DEF TopicInv, OwnTask
  <2> QED
    BY <2>1, <2>2 DEF OwnHistory, Ordered
<1>11. h \in Secluded => origin[t] = channelOf[h]
  BY <1>4 DEF TopicInv, OwnTask
<1>12. h \in Secluded => \A i \in 1 .. Len(r) : r[i] < t
  BY <1>3 DEF TopicInv, Behind
<1> HIDE DEF t, r
<1>13. \A x, y \in Handles : \A i \in 1 .. Len(relayed'[x][y]) :
        \/ i \in 1 .. Len(relayed[x][y]) /\ relayed'[x][y][i] = relayed[x][y][i]
        \/ x = h /\ y = g /\ i = Len(r) + 1 /\ relayed'[x][y][i] = t
  <2> TAKE x, y \in Handles
  <2> TAKE i \in 1 .. Len(relayed'[x][y])
  <2>1. CASE ~(x = h /\ y = g)
    BY <2>1, <1>6
  <2>2. CASE x = h /\ y = g
    <3>1. i \in 1 .. (Len(r) + 1)
      BY <2>2, <1>5, <1>6
    <3>2. i \in 1 .. Len(r) \/ i = Len(r) + 1
      BY <3>1, <1>5
    <3> QED
      BY <2>2, <3>2, <1>5, <1>6 DEF r
  <2> QED
    BY <2>1, <2>2
<1>14. NoEcho'
  <2> SUFFICES ASSUME NEW x \in Handles, NEW y \in Handles,
                      NEW i \in 1 .. Len(relayed'[x][y])
               PROVE  /\ y \in targets[x]
                      /\ x \in Secluded => origin'[relayed'[x][y][i]] = channelOf[x]
    BY DEF NoEcho
  <2> QED
    BY <1>3, <1>4, <1>11, <1>13 DEF TopicInv, NoEcho
<1>15. OrderIsKept'
  <2> SUFFICES ASSUME NEW x \in Secluded, NEW y \in Handles,
                      NEW i \in 1 .. Len(relayed'[x][y]),
                      NEW j \in 1 .. Len(relayed'[x][y]), i < j
               PROVE  relayed'[x][y][i] < relayed'[x][y][j]
    BY DEF OrderIsKept
  <2>1. CASE i \in 1 .. Len(relayed[x][y]) /\ j \in 1 .. Len(relayed[x][y])
    <3>1. /\ relayed'[x][y][i] = relayed[x][y][i]
          /\ relayed'[x][y][j] = relayed[x][y][j]
      BY <2>1, <1>5, <1>6 DEF r
    <3> QED
      BY <2>1, <3>1 DEF TopicInv, OrderIsKept
  <2>2. CASE x = h /\ y = g /\ j = Len(r) + 1
    <3>1. i \in 1 .. Len(r)
      BY <2>2, <1>5
    <3> QED
      BY <2>2, <3>1, <1>5, <1>6, <1>12
  <2>3. ~(x = h /\ y = g /\ i = Len(r) + 1)
    BY <1>5, <1>6
  <2> QED
    BY <2>1, <2>2, <2>3, <1>13
<1>16. Behind'
  <2> SUFFICES ASSUME NEW x \in Secluded, NEW y \in Handles,
                      NEW i \in 1 .. Len(relayed'[x][y])
               PROVE  /\ \A j \in 1 .. Len(queue'[x]) :
                            relayed'[x][y][i] < queue'[x][j]
                      /\ task'[x] # 0 => relayed'[x][y][i] <= task'[x]
                      /\ y \in todo'[x] => relayed'[x][y][i] < task'[x]
    BY DEF Behind
  <2>1. CASE i \in 1 .. Len(relayed[x][y]) /\ relayed'[x][y][i] = relayed[x][y][i]
    BY <2>1, <1>4, <1>41, <1>9 DEF TopicInv, Behind
  <2>2. CASE x = h /\ y = g /\ relayed'[x][y][i] = t
    <3>1. \A j \in 1 .. Len(queue[h]) : t < queue[h][j]
      BY <2>2 DEF TopicInv, OwnHistory, t
    <3>2. t <= t /\ task'[h] = t
      BY <1>4 DEF t
    <3> QED
      BY <2>2, <3>1, <3>2, <1>4, <1>41, <1>7
  <2> QED
    BY <2>1, <2>2, <1>13
<1>17. LossIsOverflow'
  <2> SUFFICES ASSUME NEW m \in Messages, NEW x \in Secluded,
                      NEW y \in targets[x], origin[m] = channelOf[x]
               PROVE  \/ IsWaiting(m, x)'
                      \/ task'[x] = m /\ y \in todo'[x]
                      \/ IsRelayed(m, x, y)'
                      \/ Cardinality(Newer(m)') >= Depth
    BY <1>4 DEF LossIsOverflow, Messages
  <2>1. /\ IsWaiting(m, x)' = IsWaiting(m, x) /\ Newer(m)' = Newer(m)
        /\ task'[x] = task[x]
    BY <1>4, <1>41 DEF IsWaiting, Newer, Messages
  <2>2. IsRelayed(m, x, y) => IsRelayed(m, x, y)'
    <3>1. CASE x = h /\ y = g
      <4>1. \A i \in 1 .. Len(r) : i \in 1 .. Len(relayed'[h][g])
        BY <1>5, <1>6
      <4> QED
        BY <3>1, <4>1, <1>5, <1>6 DEF IsRelayed, r
    <3>2. CASE ~(x = h /\ y = g)
      BY <3>2, <1>6 DEF IsRelayed
    <3> QED
      BY <3>1, <3>2
  <2>3. task[x] = m /\ y \in todo[x] => y \in todo'[x] \/ IsRelayed(m, x, y)'
    <3>1. CASE x = h /\ y = g
      <4>1. Len(r) + 1 \in 1 .. Len(relayed'[h][g]) /\ relayed'[h][g][Len(r) + 1] = t
        BY <1>5, <1>6
      <4> QED
        BY <3>1, <4>1 DEF IsRelayed, t
    <3>2. CASE ~(x = h /\ y = g)
      BY <3>2, <1>7
    <3> QED
      BY <3>1, <3>2
  <2> QED
    BY <2>1, <2>2, <2>3 DEF TopicInv, LossIsOverflow
<1> QED
  BY <1>8, <1>10, <1>14, <1>15, <1>16, <1>17 DEF TopicInv

(* A callback that returns leaves nothing to publish. *)
LEMMA ReturnKeeps ==
    ASSUME TopicInv, NEW h \in Handles, CallbackReturns(h)
    PROVE  TopicInv'
<1> USE SecludedAreHandles
<1>1. Numbered
  BY TypedIsNumbered DEF TopicInv
<1>2. /\ task \in [Handles -> Messages \cup {0}]
      /\ \A g \in Handles : task[g] = 0 => todo[g] = {}
  BY DEF TopicInv, TopicTypeOK
<1>3. /\ task[h] # 0 /\ todo[h] = {}
      /\ task' = [task EXCEPT ![h] = 0]
      /\ origin' = origin /\ queue' = queue /\ todo' = todo /\ relayed' = relayed
  BY DEF CallbackReturns
<1>4. task'[h] = 0 /\ \A g \in Handles : g # h => task'[g] = task[g]
  BY <1>2, <1>3
<1>5. TopicTypeOK'
  <2>1. task' \in [Handles -> Messages \cup {0}]
    BY <1>2, <1>3
  <2> QED
    BY <2>1, <1>3, <1>4 DEF TopicInv, TopicTypeOK, Messages
<1>6. OwnHistory'
  <2> SUFFICES ASSUME NEW g \in Secluded
               PROVE  /\ \A i \in 1 .. Len(queue[g]) :
                            /\ origin[queue[g][i]] = channelOf[g]
                            /\ task'[g] < queue[g][i]
                      /\ Ordered(queue[g])
    BY <1>3 DEF OwnHistory, Ordered
  <2>1. \A i \in 1 .. Len(queue[g]) : queue[g][i] \in 1 .. Len(origin)
    BY <1>1 DEF Numbered
  <2>2. Len(origin) \in Nat
    BY <1>1 DEF Numbered
  <2> QED
    BY <2>1, <2>2, <1>4 DEF TopicInv, OwnHistory
<1>7. OwnTask' /\ NoEcho' /\ OrderIsKept'
  BY <1>3, <1>4 DEF TopicInv, OwnTask, NoEcho, OrderIsKept
<1>8. Behind'
  <2> SUFFICES ASSUME NEW f \in Secluded, NEW g \in Handles,
                      NEW i \in 1 .. Len(relayed'[f][g])
               PROVE  /\ \A j \in 1 .. Len(queue'[f]) :
                            relayed'[f][g][i] < queue'[f][j]
                      /\ task'[f] # 0 => relayed'[f][g][i] <= task'[f]
                      /\ g \in todo'[f] => relayed'[f][g][i] < task'[f]
    BY DEF Behind
  <2> QED
    BY <1>3, <1>4 DEF TopicInv, Behind
<1>9. LossIsOverflow'
  <2> SUFFICES ASSUME NEW m \in Messages, NEW x \in Secluded,
                      NEW y \in targets[x], origin[m] = channelOf[x]
               PROVE  \/ IsWaiting(m, x)'
                      \/ task'[x] = m /\ y \in todo'[x]
                      \/ IsRelayed(m, x, y)'
                      \/ Cardinality(Newer(m)') >= Depth
    BY <1>3 DEF LossIsOverflow, Messages
  <2>1. /\ IsWaiting(m, x)' = IsWaiting(m, x) /\ Newer(m)' = Newer(m)
        /\ IsRelayed(m, x, y)' = IsRelayed(m, x, y)
    BY <1>3 DEF IsWaiting, IsRelayed, Newer, Messages
  <2>2. y \in todo[x] => x # h
    BY <1>3
  <2> QED
    BY <2>1, <2>2, <1>3, <1>4 DEF TopicInv, LossIsOverflow
<1> QED
  BY <1>5, <1>6, <1>7, <1>8, <1>9 DEF TopicInv

(* The inductive invariant of a bridged topic. *)
THEOREM TopicInvariant == TopicSpec => []TopicInv
<1>1. TopicInit => TopicInv
  <2> SUFFICES ASSUME TopicInit PROVE TopicInv
    OBVIOUS
  <2> USE TopicAssumption, SecludedAreHandles DEF TopicAssumption
  <2>1. /\ origin = <<>>
        /\ \A h \in Handles : queue[h] = <<>> /\ task[h] = 0 /\ todo[h] = {}
        /\ \A h, g \in Handles : relayed[h][g] = <<>>
    BY DEF TopicInit
  <2>2. /\ queue \in [Handles -> Seq(Messages)]
        /\ relayed \in [Handles -> [Handles -> Seq(Messages)]]
        /\ task \in [Handles -> Messages \cup {0}] /\ todo \in [Handles -> SUBSET Handles]
        /\ origin \in Seq(Channels)
    BY DEF TopicInit
  <2>3. TopicTypeOK
    BY <2>1, <2>2 DEF TopicTypeOK
  <2>4. OwnHistory /\ OwnTask
    BY <2>1 DEF OwnHistory, OwnTask, Ordered
  <2>5. NoEcho /\ Behind /\ OrderIsKept /\ LossIsOverflow
    BY <2>1 DEF NoEcho, Behind, OrderIsKept, LossIsOverflow, Messages
  <2> QED
    BY <2>3, <2>4, <2>5 DEF TopicInv
<1>2. TopicInv /\ [TopicNext]_topicVars => TopicInv'
  <2> SUFFICES ASSUME TopicInv, [TopicNext]_topicVars PROVE TopicInv'
    OBVIOUS
  <2>1. ASSUME NEW c \in Channels, OutsidePublishes(c) PROVE TopicInv'
    BY <2>1, OutsideKeeps
  <2>2. ASSUME NEW h \in Handles, SubscriptionCallback(h) PROVE TopicInv'
    BY <2>2, TakeKeeps
  <2>3. ASSUME NEW h \in Handles, NEW g \in Handles, Publish(h, g) PROVE TopicInv'
    BY <2>3, PublishKeeps
  <2>4. ASSUME NEW h \in Handles, CallbackReturns(h) PROVE TopicInv'
    BY <2>4, ReturnKeeps
  <2>5. CASE UNCHANGED topicVars
    <3>1. /\ origin' = origin /\ queue' = queue /\ task' = task
          /\ todo' = todo /\ relayed' = relayed
      BY <2>5 DEF topicVars
    <3>2. LossIsOverflow' = LossIsOverflow
      BY <3>1, Zenon DEF LossIsOverflow, IsWaiting, IsRelayed, Newer, Messages
    <3> QED
      BY <3>1, <3>2 DEF TopicInv, TopicTypeOK, Messages, OwnHistory, OwnTask,
                        NoEcho, Behind, OrderIsKept
  <2> QED
    BY <2>1, <2>2, <2>3, <2>4, <2>5 DEF TopicNext, HandleThread
<1> QED
  BY <1>1, <1>2, PTL DEF TopicSpec

(* Every variable of a bridged topic has its type, no history is longer    *)
(* than its depth, and only a running callback has anything to publish.    *)
THEOREM TopicTypesHold == TopicSpec => []TopicTypeOK
<1>1. TopicInv => TopicTypeOK
  BY DEF TopicInv
<1> QED
  BY <1>1, TopicInvariant, PTL

(* However often histories overflow and however many threads publish on a  *)
(* channel, the messages of each secluded source arrive there in order.    *)
THEOREM OrderStays == TopicSpec => []OrderIsKept
<1>1. TopicInv => OrderIsKept
  BY DEF TopicInv
<1> QED
  BY <1>1, TopicInvariant, PTL

(* What a secluded handle takes is lost by overflow of its history only. *)
THEOREM OnlyOverflowLoses == TopicSpec => []LossIsOverflow
<1>1. TopicInv => LossIsOverflow
  BY DEF TopicInv
<1> QED
  BY <1>1, TopicInvariant, PTL

(* For any routes: a handle on whose channel no other handle publishes     *)
(* never forwards what came from the bridge itself, so for it              *)
(* ignore_local_publications is enough.  Of the handles that share a       *)
(* channel with a publishing one nothing of the kind holds.                *)
THEOREM NothingEchoes == TopicSpec => []NoEcho
<1>1. TopicInv => NoEcho
  BY DEF TopicInv
<1> QED
  BY <1>1, TopicInvariant, PTL

(* A publication hands its message on: all that it passes over has been    *)
(* lost by overflow, for what waits in the history is newer.               *)
LEMMA PublishHandsOn ==
    ASSUME TopicInv, NEW h \in Handles, NEW g \in Handles, Publish(h, g)
    PROVE  Relay!RelayNext
<1> USE TopicAssumption, SecludedAreHandles DEF TopicAssumption
<1> DEFINE m == task[h]
<1>1. Numbered
  BY TypedIsNumbered DEF TopicInv
<1>2. /\ g \in todo[h] /\ g \in targets[h] /\ m # 0
      /\ h \in Secluded => origin[m] = channelOf[h]
  BY DEF Publish, TopicInv, OwnTask
<1>3. m \in 1 .. Len(origin) /\ m \in Nat
  BY <1>1, <1>2 DEF Numbered
<1>4. h \in Secluded => \A n \in Relay!HandedOn(h, g) : n < m
  BY <1>2 DEF TopicInv, Behind, Relay!HandedOn
<1>5. ASSUME h \in Secluded,
             NEW n \in (1 .. m - 1) \ Relay!HandedOn(h, g), origin[n] = channelOf[h]
      PROVE  Relay!Overrun(n)
  <2>1. n \in Messages /\ n \in Nat /\ n < m
    BY <1>1, <1>3 DEF Messages, Numbered
  <2>2. ~IsWaiting(n, h)
    <3>1. ASSUME NEW i \in 1 .. Len(queue[h]), queue[h][i] = n PROVE FALSE
      <4>1. m < queue[h][i]
        BY <1>5 DEF TopicInv, OwnHistory
      <4> QED
        BY <4>1, <3>1, <2>1, <1>3
    <3> QED
      BY <3>1 DEF IsWaiting
  <2>3. ~IsRelayed(n, h, g)
    BY DEF IsRelayed, Relay!HandedOn
  <2>4. task[h] # n
    BY <2>1, <1>3
  <2>5. Cardinality(Newer(n)) >= Depth
    BY <1>2, <1>5, <2>1, <2>2, <2>3, <2>4 DEF TopicInv, LossIsOverflow
  <2>6. Newer(n) = {k \in 1 .. Len(origin) : origin[k] = origin[n] /\ n < k}
    BY DEF Newer, Messages
  <2>7. Relay!Cardinality(Newer(n)) = Cardinality(Newer(n))
    BY DEF Cardinality, Relay!Cardinality
  <2> QED
    BY <2>5, <2>6, <2>7, Zenon DEF Relay!Overrun
<1>6. Relay!HandOn(h, g, m)
  BY <1>2, <1>4, <1>5 DEF Relay!HandOn, Publish
<1> QED
  BY <1>2, <1>3, <1>6 DEF Relay!RelayNext

(* A bridged topic is a relay that, for secluded handles, keeps order and  *)
(* loses only by overflow.                                                 *)
THEOREM BridgeIsRelay == TopicSpec => ImplementsTopicRelay
<1>1. TopicInit => Relay!RelayInit
  BY DEF TopicInit, Relay!RelayInit
<1>2. TopicInv /\ [TopicNext]_topicVars => [Relay!RelayNext]_<<origin, relayed>>
  <2> SUFFICES ASSUME TopicInv, [TopicNext]_topicVars
               PROVE  Relay!RelayNext \/ UNCHANGED <<origin, relayed>>
    OBVIOUS
  <2>1. ASSUME NEW c \in Channels, OutsidePublishes(c) PROVE Relay!RelayNext
    BY <2>1 DEF OutsidePublishes, Relay!RelayNext, Relay!Send
  <2>2. ASSUME NEW h \in Handles, SubscriptionCallback(h)
        PROVE  UNCHANGED <<origin, relayed>>
    BY <2>2 DEF SubscriptionCallback
  <2>3. ASSUME NEW h \in Handles, NEW g \in Handles, Publish(h, g)
        PROVE  Relay!RelayNext
    BY <2>3, PublishHandsOn
  <2>4. ASSUME NEW h \in Handles, CallbackReturns(h)
        PROVE  UNCHANGED <<origin, relayed>>
    BY <2>4 DEF CallbackReturns
  <2>5. CASE UNCHANGED topicVars
    BY <2>5 DEF topicVars
  <2> QED
    BY <2>1, <2>2, <2>3, <2>4, <2>5 DEF TopicNext, HandleThread
<1> QED
  BY <1>1, <1>2, TopicInvariant, PTL
     DEF TopicSpec, ImplementsTopicRelay, Relay!RelaySpec, Relay!relayVars
=============================================================================
