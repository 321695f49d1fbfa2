----------------------------- MODULE QoSProfile -----------------------------
(***************************************************************************)
(* parse_rmw_qos_configuration (src/SystemHandle.cpp): from the `qos` map  *)
(* of a topic or service to the rclcpp::QoS its ROS 2 entity is made with. *)
(*                                                                         *)
(* The map is flattened to its leaf keys: a policy tag without leaves sets *)
(* the default.  A key is absent, well formed, or a text that the code     *)
(* cannot use: a bad number makes yaml-cpp throw, an unknown kind is       *)
(* logged and ignored.  The operator who runs the bridge edits one key at  *)
(* a time and the entity is made anew.                                     *)
(***************************************************************************)
EXTENDS Integers, FiniteSets

CONSTANTS
    Numbers,   \* well-formed values of numeric keys
    MaxKeys    \* bound on the keys that one configuration gives

ASSUME QoSAssumption == Numbers \subseteq Nat

VARIABLES
    kind,      \* the textual keys
    number,    \* the numeric keys
    profile    \* the profile parsed from them

qosVars == <<kind, number, profile>>

KindsOf == [history     |-> {"KEEP_LAST", "KEEP_ALL"},
            reliability |-> {"RELIABLE", "BEST_EFFORT"},
            durability  |-> {"VOLATILE", "TRANSIENT_LOCAL"},
            liveliness  |-> {"AUTOMATIC", "MANUAL_BY_TOPIC"}]

KindKeys == DOMAIN KindsOf

NumberKeys == {"depth", "deadline_sec", "deadline_nanosec", "lifespan_sec",
               "lifespan_nanosec", "liveliness_sec", "liveliness_nanosec"}

Absent    == "absent"
Unknown   == "unknown"
NoNumber  == -1
BadNumber == -2

KindValues(k) == KindsOf[k] \cup {Absent, Unknown}
NumberValues  == Numbers \cup {NoNumber, BadNumber}

Given(k) == IF k \in KindKeys THEN kind[k] # Absent ELSE number[k] # NoNumber

(* rclcpp::QoS(10). *)
DefaultProfile ==
    [history     |-> "KEEP_LAST",   depth      |-> 10,
     reliability |-> "RELIABLE",    durability |-> "VOLATILE",
     deadline    |-> <<0, 0>>,      lifespan   |-> <<0, 0>>,
     liveliness  |-> "SYSTEM_DEFAULT", lease   |-> <<0, 0>>]

(* What is left when a conversion throws: no entity is made. *)
NoProfile == [DefaultProfile EXCEPT !.history = "none"]

(***************************************************************************)
(* The parse of a configuration c, a record of its kinds and numbers, one  *)
(* operator per policy, each applied to the profile q so far.              *)
(***************************************************************************)
OrZero(n) == IF n = NoNumber THEN 0 ELSE n

(* qos.keep_last(depth) sets the history kind as well. *)
ParseHistory(c, q) ==
    LET k == IF c.kind.history \in KindsOf.history
             THEN [q EXCEPT !.history = c.kind.history]
             ELSE q
    IN  IF c.number.depth = NoNumber
        THEN k
        ELSE [k EXCEPT !.history = "KEEP_LAST", !.depth = c.number.depth]

ParseReliability(c, q) ==
    IF c.kind.reliability \in KindsOf.reliability
    THEN [q EXCEPT !.reliability = c.kind.reliability]
    ELSE q

ParseDurability(c, q) ==
    IF c.kind.durability \in KindsOf.durability
    THEN [q EXCEPT !.durability = c.kind.durability]
    ELSE q

ParseDeadline(c, q) ==
    [q EXCEPT !.deadline = <<OrZero(c.number.deadline_sec),
                             OrZero(c.number.deadline_nanosec)>>]

(* Deviation: the lifespan block, copied from the deadline, sets the       *)
(* deadline.                                                               *)
ParseLifespanAsDeadline(c, q) ==
    [q EXCEPT !.deadline = <<OrZero(c.number.lifespan_sec),
                             OrZero(c.number.lifespan_nanosec)>>]

ParseLifespan(c, q) ==
    [q EXCEPT !.lifespan = <<OrZero(c.number.lifespan_sec),
                             OrZero(c.number.lifespan_nanosec)>>]

(* The nanoseconds of the lease are read from "sec", whatever "nanosec" is. *)
ParseLiveliness(c, q) ==
    LET k == IF c.kind.liveliness \in KindsOf.liveliness
             THEN [q EXCEPT !.liveliness = c.kind.liveliness]
             ELSE q
        s == OrZero(c.number.liveliness_sec)
    IN  [k EXCEPT !.lease =
            <<s, IF c.number.liveliness_nanosec = NoNumber THEN 0 ELSE s>>]

(* as<size_t>() and as<uint64_t>() throw on what they are applied to:      *)
(* "nanosec" of the liveliness never is, but "sec" then must be there.     *)
Throws(c) ==
    \/ \E k \in NumberKeys \ {"liveliness_nanosec"} : c.number[k] = BadNumber
    \/ c.number.liveliness_nanosec # NoNumber /\ c.number.liveliness_sec = NoNumber

Parse(c) ==
    IF Throws(c)
    THEN NoProfile
    ELSE ParseLiveliness(c, ParseLifespan(c, ParseDeadline(c,
            ParseDurability(c, ParseReliability(c,
                ParseHistory(c, DefaultProfile))))))

QoSInit ==
    /\ kind    = [k \in KindKeys |-> Absent]
    /\ number  = [k \in NumberKeys |-> NoNumber]
    /\ profile = DefaultProfile

Configuration == [kind |-> kind, number |-> number]

EditKind(k, v) ==
    /\ kind' = [kind EXCEPT ![k] = v]
    /\ UNCHANGED number

EditNumber(k, n) ==
    /\ number' = [number EXCEPT ![k] = n]
    /\ UNCHANGED kind

QoSNext ==
    /\ \/ \E k \in KindKeys : \E v \in KindValues(k) : EditKind(k, v)
       \/ \E k \in NumberKeys, n \in NumberValues : EditNumber(k, n)
    /\ Cardinality({k \in KindKeys \cup NumberKeys : Given(k)'}) <= MaxKeys
    /\ profile' = Parse(Configuration')

QoSSpec == QoSInit /\ [][QoSNext]_qosVars
-----------------------------------------------------------------------------
Made(q) == q # NoProfile

(* The profile fields and the keys of each policy. *)
Policies == [history     |-> [fields |-> {"history", "depth"},
                              keys   |-> {"history", "depth"}],
             reliability |-> [fields |-> {"reliability"},
                              keys   |-> {"reliability"}],
             durability  |-> [fields |-> {"durability"},
                              keys   |-> {"durability"}],
             deadline    |-> [fields |-> {"deadline"},
                              keys   |-> {"deadline_sec", "deadline_nanosec"}],
             lifespan    |-> [fields |-> {"lifespan"},
                              keys   |-> {"lifespan_sec", "lifespan_nanosec"}],
             liveliness  |-> [fields |-> {"liveliness", "lease"},
                              keys   |-> {"liveliness", "liveliness_sec",
                                          "liveliness_nanosec"}]]

ValueOf(k) == IF k \in KindKeys THEN <<kind[k]>> ELSE <<number[k]>>

(* Editing the keys of one policy never changes another policy of the      *)
(* entity (parse_rmw_qos_configuration is six blocks copied from one       *)
(* pattern, and each works on the profile that the others left).           *)
PoliciesAreIndependent ==
    [][\A p \in DOMAIN Policies :
        (/\ Made(profile) /\ Made(profile')
         /\ \A k \in Policies[p].keys : ValueOf(k)' = ValueOf(k))
            => \A f \in Policies[p].fields : profile'[f] = profile[f]]_qosVars

(* README: "depth ... only has effect if the kind is set to KEEP_LAST". *)
KeepAllIsKept ==
    (Made(profile) /\ kind.history = "KEEP_ALL") => profile.history = "KEEP_ALL"

(* README: lease_duration "can be defined by means of the `sec` and        *)
(* `nanosec` tags".                                                        *)
LeaseIsTaken ==
    (/\ Made(profile)
     /\ number.liveliness_sec \in Numbers
     /\ number.liveliness_nanosec \in Numbers)
        => profile.lease = <<number.liveliness_sec, number.liveliness_nanosec>>
=============================================================================
