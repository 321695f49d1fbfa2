--------------------------- MODULE RequestReply ---------------------------
(***************************************************************************)
(* What the ROS 2 clients of one bridged configuration may observe: every  *)
(* request gets at most one reply.  Until the first request of a group is  *)
(* given up (the wait of its service callback ran out), a reply to one of  *)
(* the group is the answer to its own request.  From then on a client may  *)
(* get an answer that was computed for an earlier request of its group,    *)
(* and something may break: the process dies, or answers cross groups too. *)
(* A group is the set of requests to one client proxy.                     *)
(***************************************************************************)
CONSTANTS Requests, Empty, Nothing, groupOf

VARIABLES
    asked,      \* requests that clients have sent
    outcome,    \* the reply a client got
    abandoned,  \* requests whose service callback gave up waiting
    broken,     \* an answer has gone where no request waited for one
    down        \* the process is gone

rrVars == <<asked, outcome, abandoned, broken, down>>

RRInit ==
    /\ asked     = {}
    /\ outcome   = [r \in Requests |-> Nothing]
    /\ abandoned = {}
    /\ broken    = FALSE
    /\ down      = FALSE

Ask(r) ==
    /\ ~down
    /\ r \notin asked
    /\ asked' = asked \cup {r}
    /\ UNCHANGED <<outcome, abandoned, broken, down>>

Abandon(r) ==
    /\ ~down
    /\ r \in asked \ abandoned
    /\ outcome[r] = Nothing
    /\ abandoned' = abandoned \cup {r}
    /\ UNCHANGED <<asked, outcome, broken, down>>

(* An answer to q may reach r long after q was replied to: within a group  *)
(* that has given up a request, or anywhere once something is broken.      *)
Stale(q, r) ==
    /\ q # r
    /\ outcome[q] # Nothing
    /\ \/ groupOf[q] = groupOf[r] /\ \E a \in abandoned : groupOf[a] = groupOf[r]
       \/ broken

Reply(r, v) ==
    /\ ~down
    /\ r \in asked
    /\ outcome[r] = Nothing
    /\ \/ r \in abandoned /\ v = Empty
       \/ r \notin abandoned /\ v \in Requests /\ (v = r \/ Stale(v, r))
    /\ outcome' = [outcome EXCEPT ![r] = v]
    /\ UNCHANGED <<asked, abandoned, broken, down>>

(* A late answer may be sent nowhere good, and it may end the process. *)
Fail ==
    /\ ~down
    /\ abandoned # {}
    /\ broken' \in {broken, TRUE}
    /\ down' \in BOOLEAN
    /\ UNCHANGED <<asked, outcome, abandoned>>

RRNext ==
    \/ \E r \in Requests :
        \/ Ask(r)
        \/ Abandon(r)
        \/ \E v \in Requests \cup {Empty} : Reply(r, v)
    \/ Fail

RRSpec == RRInit /\ [][RRNext]_rrVars
=============================================================================
