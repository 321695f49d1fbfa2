----------------------------- MODULE QoSProofs -----------------------------
(***************************************************************************)
(* What TLAPS proves of QoSProfile, for any numbers and any bound on the   *)
(* keys of a configuration.                                                *)
(***************************************************************************)
EXTENDS QoSProfile, TLAPS

(***************************************************************************)
(* What each of the six blocks of the parse leaves in the profile, in one  *)
(* record.                                                                 *)
(***************************************************************************)
KindOr(c, k) == IF c.kind[k] \in KindsOf[k] THEN c.kind[k] ELSE DefaultProfile[k]

Outcome(c) ==
    [history     |-> IF c.number.depth = NoNumber THEN KindOr(c, "history") ELSE "KEEP_LAST",
     depth       |-> IF c.number.depth = NoNumber THEN 10 ELSE c.number.depth,
     reliability |-> KindOr(c, "reliability"),
     durability  |-> KindOr(c, "durability"),
     deadline    |-> <<OrZero(c.number.deadline_sec), OrZero(c.number.deadline_nanosec)>>,
     lifespan    |-> <<OrZero(c.number.lifespan_sec), OrZero(c.number.lifespan_nanosec)>>,
     liveliness  |-> KindOr(c, "liveliness"),
     lease       |-> <<OrZero(c.number.liveliness_sec),
                       IF c.number.liveliness_nanosec = NoNumber
                       THEN 0 ELSE OrZero(c.number.liveliness_sec)>>]

(* A profile, field by field. *)
Profile(h, n, r, d, dl, ls, lv, le) ==
    [history  |-> h,  depth    |-> n,  reliability |-> r,  durability |-> d,
     deadline |-> dl, lifespan |-> ls, liveliness  |-> lv, lease      |-> le]

(* The blocks, each applied to what the others left, do not disturb one    *)
(* another.                                                                *)
LEMMA ParsedOutcome == \A c : ~Throws(c) => Parse(c) = Outcome(c)
<1> SUFFICES ASSUME NEW c, ~Throws(c) PROVE Parse(c) = Outcome(c)
  OBVIOUS
<1> DEFINE o  == Outcome(c)
           q1 == Profile(o.history, o.depth, "RELIABLE", "VOLATILE", <<0, 0>>,
                         <<0, 0>>, "SYSTEM_DEFAULT", <<0, 0>>)
           q2 == Profile(o.history, o.depth, o.reliability, "VOLATILE", <<0, 0>>,
                         <<0, 0>>, "SYSTEM_DEFAULT", <<0, 0>>)
           q3 == Profile(o.history, o.depth, o.reliability, o.durability, <<0, 0>>,
                         <<0, 0>>, "SYSTEM_DEFAULT", <<0, 0>>)
           q4 == Profile(o.history, o.depth, o.reliability, o.durability, o.deadline,
                         <<0, 0>>, "SYSTEM_DEFAULT", <<0, 0>>)
           q5 == Profile(o.history, o.depth, o.reliability, o.durability, o.deadline,
                         o.lifespan, "SYSTEM_DEFAULT", <<0, 0>>)
           q6 == Profile(o.history, o.depth, o.reliability, o.durability, o.deadline,
                         o.lifespan, o.liveliness, o.lease)
<1>1. ParseHistory(c, DefaultProfile) = q1
  <2>1. CASE c.number.depth = NoNumber
    BY <2>1 DEF ParseHistory, Outcome, KindOr, DefaultProfile, Profile, KindsOf
  <2>2. CASE c.number.depth # NoNumber
    BY <2>2 DEF ParseHistory, Outcome, KindOr, DefaultProfile, Profile, KindsOf
  <2> QED
    BY <2>1, <2>2
<1>2. ParseReliability(c, q1) = q2
  BY DEF ParseReliability, Outcome, KindOr, DefaultProfile, Profile, KindsOf
<1>3. ParseDurability(c, q2) = q3
  BY DEF ParseDurability, Outcome, KindOr, DefaultProfile, Profile, KindsOf
<1>4. ParseDeadline(c, q3) = q4
  BY DEF ParseDeadline, Outcome, Profile
<1>5. ParseLifespan(c, q4) = q5
  BY DEF ParseLifespan, Outcome, Profile
<1>6. ParseLiveliness(c, q5) = q6
  BY DEF ParseLiveliness, Outcome, KindOr, DefaultProfile, Profile, KindsOf
<1>7. q6 = Outcome(c)
  BY DEF Outcome, Profile
<1> HIDE DEF q1, q2, q3, q4, q5, q6
<1> QED
  BY <1>1, <1>2, <1>3, <1>4, <1>5, <1>6, <1>7 DEF Parse

(* The profile in use is always the one its configuration yields. *)
UpToDate ==
    /\ profile = IF Throws(Configuration) THEN NoProfile ELSE Outcome(Configuration)
    /\ DOMAIN kind = KindKeys /\ DOMAIN number = NumberKeys

(* The inductive invariant: after every edit the entity is made with what  *)
(* the whole configuration says, never with what an earlier one said.      *)
THEOREM ProfileIsUpToDate == QoSSpec => []UpToDate
<1>1. QoSInit => UpToDate
  <2> SUFFICES ASSUME QoSInit PROVE UpToDate
    OBVIOUS
  <2>1. ~Throws(Configuration)
    BY DEF QoSInit, Throws, Configuration, NumberKeys, NoNumber, BadNumber
  <2>2. Outcome(Configuration) = DefaultProfile
    BY DEF QoSInit, Outcome, Configuration, KindOr, KindKeys, KindsOf, NumberKeys,
           DefaultProfile, OrZero, NoNumber, Absent
  <2> QED
    BY <2>1, <2>2 DEF UpToDate, QoSInit
<1>2. UpToDate /\ [QoSNext]_qosVars => UpToDate'
  <2> SUFFICES ASSUME UpToDate, [QoSNext]_qosVars PROVE UpToDate'
    OBVIOUS
  <2>1. CASE QoSNext
    <3>1. DOMAIN kind' = KindKeys /\ DOMAIN number' = NumberKeys
      BY <2>1 DEF QoSNext, EditKind, EditNumber, UpToDate
    <3>2. profile' = Parse(Configuration')
      BY <2>1 DEF QoSNext
    <3>3. profile' = IF Throws(Configuration') THEN NoProfile ELSE Outcome(Configuration')
      BY <3>2, ParsedOutcome DEF Parse
    <3>4. /\ Throws(Configuration)' <=> Throws(Configuration')
          /\ Outcome(Configuration)' = Outcome(Configuration')
      BY DEF Throws, Outcome, KindOr
    <3> QED
      BY <3>1, <3>3, <3>4 DEF UpToDate
  <2>2. CASE UNCHANGED qosVars
    BY <2>2 DEF qosVars, UpToDate, Configuration, Throws, Outcome, KindOr
  <2> QED
    BY <2>1, <2>2
<1> QED
  BY <1>1, <1>2, PTL DEF QoSSpec

(* An edit of one policy's keys leaves all other policies as they were. *)
THEOREM PoliciesStayIndependent == QoSSpec => PoliciesAreIndependent
<1> DEFINE Independent ==
        \A p \in DOMAIN Policies :
            (/\ Made(profile) /\ Made(profile')
             /\ \A k \in Policies[p].keys : ValueOf(k)' = ValueOf(k))
                => \A f \in Policies[p].fields : profile'[f] = profile[f]
<1>1. UpToDate /\ UpToDate' => Independent
  <2> SUFFICES ASSUME UpToDate, UpToDate', Made(profile), Made(profile'),
                      NEW p \in DOMAIN Policies,
                      \A k \in Policies[p].keys : ValueOf(k)' = ValueOf(k),
                      NEW f \in Policies[p].fields
               PROVE  profile'[f] = profile[f]
    OBVIOUS
  <2>1. profile = Outcome(Configuration)
    BY DEF UpToDate, Made
  <2>2. profile' = Outcome(Configuration)'
    BY DEF UpToDate, Made
  <2>3. \A k \in Policies[p].keys :
            IF k \in KindKeys THEN kind'[k] = kind[k] ELSE number'[k] = number[k]
    BY DEF ValueOf
  <2> USE DEF Policies, KindKeys, KindsOf, Outcome, Configuration, KindOr
  <2>4. CASE p = "history"
    BY <2>1, <2>2, <2>3, <2>4
  <2>5. CASE p = "reliability"
    BY <2>1, <2>2, <2>3, <2>5
  <2>6. CASE p = "durability"
    BY <2>1, <2>2, <2>3, <2>6
  <2>7. CASE p = "deadline"
    BY <2>1, <2>2, <2>3, <2>7
  <2>8. CASE p = "lifespan"
    BY <2>1, <2>2, <2>3, <2>8
  <2>9. CASE p = "liveliness"
    BY <2>1, <2>2, <2>3, <2>9
  <2> QED
    BY <2>4, <2>5, <2>6, <2>7, <2>8, <2>9
<1> QED
  BY <1>1, ProfileIsUpToDate, PTL DEF PoliciesAreIndependent
=============================================================================
