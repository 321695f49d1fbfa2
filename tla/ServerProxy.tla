---------------------------- MODULE ServerProxy ----------------------------
(***************************************************************************)
(* The ServerProxy class generated for every ROS 2 service                 *)
(* (resources/convert__srv.cpp.em): the core calls call_service with a     *)
(* request of some client system, on that system's thread; the request is  *)
(* sent to a ROS 2 service, and the answer comes back in a callback on the *)
(* thread that spins the handle of this proxy.                             *)
(*                                                                         *)
(* Several threads may be inside call_service of one proxy at a time.  A   *)
(* request message is borrowed from _request_pool for the whole exchange.  *)
(* The pool objects a proxy starts with are named after its service, an    *)
(* object made because the pool was empty after the call it was made for.  *)
(***************************************************************************)
EXTENDS ServiceRoutes, Integers

VARIABLES
    available,     \* services that a ROS 2 server offers now
    callState,     \* progress of the call made for a request
    held,          \* the pooled request message a call holds (ros2_request)
    content,       \* which request a pooled message carries
    wire,          \* what async_send_request sent for a call
    requestPool,   \* free messages of _request_pool
    responsePool,  \* number of free values in _response_pool
    delivering     \* the call whose response callback a proxy executes

serverVars == <<available, callState, held, content, wire, requestPool,
                responsePool, delivering>>

Messages == Services \cup Requests

CallStates == {"new", "popped", "filled", "sent", "answered", "delivering",
               "closed", "dropped"}

ServerInit ==
    /\ available    = {}
    /\ callState    = [r \in Requests |-> "new"]
    /\ held         = [r \in Requests |-> Nothing]
    /\ content      = [m \in Messages |-> Empty]
    /\ wire         = [r \in Requests |-> Nothing]
    /\ requestPool  = [s \in Services |-> {s}]
    /\ responsePool = [s \in Services |-> 1]
    /\ delivering   = [s \in Services |-> Nothing]

(* Deviation: response callbacks of one handle run in parallel. *)
NoDeliveries(h) == {}

(* Response callbacks that the thread of handle h executes: at most one.   *)
Deliveries(h) == {s \in Services : serverOf[s] = h /\ delivering[s] # Nothing}

(* The ROS 2 server of a service comes or goes. *)
ServerComes(s) ==
    /\ s \notin available
    /\ available' = available \cup {s}
    /\ UNCHANGED <<callState, held, content, wire, requestPool, responsePool,
                   delivering>>

ServerGoes(s) ==
    /\ s \in available
    /\ available' = available \ {s}
    /\ UNCHANGED <<callState, held, content, wire, requestPool, responsePool,
                   delivering>>

(***************************************************************************)
(* call_service, on the caller's thread                                    *)
(***************************************************************************)

(* Deviation: wait_for_service without a limit. *)
WaitsForService(r) == FALSE

(* wait_for_service(10 ms) fails: the call is dropped without a word. *)
ServiceUnavailable(r) ==
    /\ callState[r] = "new"
    /\ ServiceOfRequest(r) \notin available
    /\ callState' = [callState EXCEPT ![r] = "dropped"]
    /\ UNCHANGED <<available, held, content, wire, requestPool, responsePool,
                   delivering>>

(* Deviation: the message handed out stays in the pool. *)
KeepInPool(s, m) == UNCHANGED requestPool

(* The message handed out leaves the pool. *)
LeavePool(s, m) == requestPool' = [requestPool EXCEPT ![s] = @ \ {m}]

(* wait_for_service succeeds and _request_pool.pop() hands out a message,  *)
(* a new one when the pool is empty.                                       *)
PopRequest(r) ==
    LET s == ServiceOfRequest(r)
    IN  /\ callState[r] = "new"
        /\ s \in available
        /\ \E m \in IF requestPool[s] = {} THEN {r} ELSE requestPool[s] :
               /\ held' = [held EXCEPT ![r] = m]
               /\ LeavePool(s, m)
        /\ callState' = [callState EXCEPT ![r] = "popped"]
        /\ UNCHANGED <<available, content, wire, responsePool, delivering>>

(* Deviation: only a fresh message is written. *)
FillFreshRequest(r) ==
    /\ callState[r] = "popped"
    /\ content'   = [content EXCEPT ![held[r]] = IF @ = Empty THEN r ELSE @]
    /\ callState' = [callState EXCEPT ![r] = "filled"]
    /\ UNCHANGED <<available, held, wire, requestPool, responsePool,
                   delivering>>

(* request_to_ros2(request, *ros2_request) overwrites every field. *)
FillRequest(r) ==
    /\ callState[r] = "popped"
    /\ content'   = [content EXCEPT ![held[r]] = r]
    /\ callState' = [callState EXCEPT ![r] = "filled"]
    /\ UNCHANGED <<available, held, wire, requestPool, responsePool,
                   delivering>>

(* Deviation: the message goes back to the pool as soon as it is sent. *)
SendAndRecycle(r) ==
    /\ callState[r] = "filled"
    /\ wire'        = [wire EXCEPT ![r] = content[held[r]]]
    /\ callState'   = [callState EXCEPT ![r] = "sent"]
    /\ requestPool' = [requestPool EXCEPT ![ServiceOfRequest(r)] = @ \cup {held[r]}]
    /\ UNCHANGED <<available, held, content, responsePool, delivering>>

(* async_send_request; call_service returns. *)
SendRequest(r) ==
    /\ callState[r] = "filled"
    /\ wire'      = [wire EXCEPT ![r] = content[held[r]]]
    /\ callState' = [callState EXCEPT ![r] = "sent"]
    /\ UNCHANGED <<available, held, content, requestPool, responsePool,
                   delivering>>

CallService(r) ==
    \/ ServiceUnavailable(r)
    \/ PopRequest(r)
    \/ FillRequest(r)
    \/ SendRequest(r)

(* The ROS 2 server answers what it was sent, sooner or later or never. *)
ServerAnswers(r) ==
    /\ callState[r] = "sent"
    /\ ServiceOfRequest(r) \in available
    /\ callState' = [callState EXCEPT ![r] = "answered"]
    /\ UNCHANGED <<available, held, content, wire, requestPool, responsePool,
                   delivering>>

(***************************************************************************)
(* _wait_for_response, on the thread of the proxy's handle                 *)
(***************************************************************************)

(* Deviation: the pooled value is copied, not moved out. *)
CopyResponse(s) == UNCHANGED responsePool

(* _response_pool.pop() moves a value out, or makes one. *)
PopResponse(s) ==
    responsePool' = [responsePool EXCEPT ![s] = IF @ = 0 THEN 0 ELSE @ - 1]

(* The response callback starts: a value is taken from _response_pool, or  *)
(* made, and the answer translated into it.                                *)
TakeResponse(r) ==
    LET s == ServiceOfRequest(r)
    IN  /\ callState[r] = "answered"
        /\ Deliveries(serverOf[s]) = {}
        /\ delivering' = [delivering EXCEPT ![s] = r]
        /\ PopResponse(s)
        /\ callState'  = [callState EXCEPT ![r] = "delivering"]
        /\ UNCHANGED <<available, held, content, wire, requestPool>>

(* Deviation: the response value is recycled, the request message is not. *)
RecycleResponseOnly(s) ==
    LET r == delivering[s]
    IN  /\ r # Nothing
        /\ delivering'   = [delivering EXCEPT ![s] = Nothing]
        /\ responsePool' = [responsePool EXCEPT ![s] = @ + 1]
        /\ held'         = [held EXCEPT ![r] = Nothing]
        /\ callState'    = [callState EXCEPT ![r] = "closed"]
        /\ UNCHANGED <<available, content, wire, requestPool>>

(* After receive_response both pooled values are recycled. *)
Recycle(s) ==
    LET r == delivering[s]
    IN  /\ r # Nothing
        /\ delivering'   = [delivering EXCEPT ![s] = Nothing]
        /\ responsePool' = [responsePool EXCEPT ![s] = @ + 1]
        /\ requestPool'  = [requestPool EXCEPT ![s] = @ \cup {held[r]}]
        /\ held'         = [held EXCEPT ![r] = Nothing]
        /\ callState'    = [callState EXCEPT ![r] = "closed"]
        /\ UNCHANGED <<available, content, wire>>

ServerNext ==
    \/ \E r \in Requests :
           CallService(r) \/ ServerAnswers(r) \/ TakeResponse(r)
    \/ \E s \in Services : ServerComes(s) \/ ServerGoes(s) \/ Recycle(s)

ServerSpec == ServerInit /\ [][ServerNext]_serverVars
-----------------------------------------------------------------------------
(* Calls between pop and recycle: those that hold a pooled message. *)
Open(r) == callState[r] \in {"popped", "filled", "sent", "answered", "delivering"}

(* Every variable has its type, a call holds a message exactly while it is *)
(* open, and a proxy delivers exactly the calls whose callback runs.       *)
ServerTypeOK ==
    /\ available    \subseteq Services
    /\ callState    \in [Requests -> CallStates]
    /\ held         \in [Requests -> Messages \cup {Nothing}]
    /\ content      \in [Messages -> Answers]
    /\ wire         \in [Requests -> Answers \cup {Nothing}]
    /\ requestPool  \in [Services -> SUBSET Messages]
    /\ responsePool \in [Services -> Nat]
    /\ delivering   \in [Services -> Requests \cup {Nothing}]
    /\ \A r \in Requests :
        /\ held[r] # Nothing <=> Open(r)
        /\ callState[r] = "delivering" <=> delivering[ServiceOfRequest(r)] = r

(* A pooled request message has one user: no two calls in flight hold the  *)
(* same one, of whatever thread and whatever answer order, and none that a *)
(* call holds can be handed out again (_request_pool in call_service and   *)
(* _wait_for_response).                                                    *)
ExclusiveRequest ==
    /\ \A r, q \in Requests :
        (Open(r) /\ Open(q) /\ r # q) => held[r] # held[q]
    /\ \A r \in Requests, s \in Services :
        Open(r) => held[r] \notin requestPool[s]

(* The service whose proxy made a message. *)
HomeOf(m) == IF m \in Services THEN m ELSE ServiceOfRequest(m)

(* No request message leaks, and none moves to another proxy: whatever was *)
(* made and used is in the pool of its own proxy or with one of that       *)
(* proxy's calls.  So the pool of a proxy never needs more messages than   *)
(* it has calls that wait for their answers, those that wait for ever      *)
(* included (_request_pool in call_service and _wait_for_response).        *)
NoMessageIsLost ==
    \A m \in Messages :
        (m \in Services \/ content[m] # Empty) =>
            \/ m \in requestPool[HomeOf(m)]
            \/ \E r \in Requests : /\ ServiceOfRequest(r) = HomeOf(m)
                                  /\ held[r] = m

(* What a call sends to the ROS 2 server is its own request, although the  *)
(* message may be an old one and other threads fill theirs meanwhile.      *)
WireCarriesOwnRequest ==
    \A r \in Requests : wire[r] \in {Nothing, r}

(* _response_pool never needs a second value: all response callbacks of a  *)
(* proxy run on one thread, one after the other (_wait_for_response).      *)
OneResponseValue ==
    \A s \in Services :
        responsePool[s] = IF delivering[s] = Nothing THEN 1 ELSE 0

(* From the moment it is filled until its answer has been handed over, the *)
(* message that async_send_request keeps is not written again by a later   *)
(* call.                                                                   *)
SentRequestUntouched ==
    [][\A r \in Requests :
        callState[r] \in {"filled", "sent", "answered"} =>
            content'[held[r]] = content[held[r]]]_serverVars
=============================================================================
