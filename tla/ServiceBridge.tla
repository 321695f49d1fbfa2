--------------------------- MODULE ServiceBridge ---------------------------
(***************************************************************************)
(* Client proxies and server proxies of several handles, joined as the     *)
(* Integration Service core joins them: the RequestCallback of a client    *)
(* proxy is call_service of the server proxy its route names, and that     *)
(* proxy answers with receive_response.  Each handle has one thread        *)
(* (SystemHandle::spin_once, called in a loop), which executes the service *)
(* callbacks of its client proxies and the response callbacks of its       *)
(* server proxies, one after the other.                                    *)
(***************************************************************************)
EXTENDS ClientProxy, ServerProxy

vars == <<clientVars, serverVars>>

Init == ClientInit /\ ServerInit

(* spin_once executes one callback at a time. *)
ThreadFree(h) == Frames(h) = {} /\ Deliveries(h) = {}

(* The core's callback for the request r that proxy p is serving. *)
InCallback(r) ==
    LET p == proxyOf[r]
    IN  stage[p] = "calling" /\ current[p] = r

Sends(r) == ClientSends(r) /\ UNCHANGED serverVars

StartCallback(p, r) ==
    /\ ThreadFree(handleOf[p])
    /\ ServiceCallback(p, r)
    /\ UNCHANGED serverVars

(* call_service returns without a service, and the call handle is gone. *)
DropCall(r) ==
    /\ InCallback(r)
    /\ ServiceUnavailable(r)
    /\ ProviderDrops(r)

CallStep(r) ==
    /\ ~crashed
    /\ InCallback(r)
    /\ PopRequest(r) \/ FillRequest(r) \/ SendRequest(r)
    /\ UNCHANGED clientVars

ReturnFromCall(p) ==
    /\ stage[p] = "calling"
    /\ callState[current[p]] \notin {"new", "popped", "filled"}
    /\ CallbackReturned(p)
    /\ UNCHANGED serverVars

FinishCallback(p) ==
    /\ AnswerReady(p) \/ AnswerTimesOut(p) \/ ReturnFromCallback(p)
    /\ UNCHANGED serverVars

(* _wait_for_response up to its call of receive_response, and the first    *)
(* half of that.  The answer was computed for what the call had sent.      *)
DeliverResponse(r) ==
    /\ ThreadFree(serverOf[ServiceOfRequest(r)])
    /\ TakeResponse(r)
    /\ ReceiveResponse(r, wire[r])

FulfilPromise(p) == SetValue(p) /\ UNCHANGED serverVars

(* receive_response has returned. *)
RecycleAll(s) ==
    /\ ~crashed
    /\ delivering[s] # Nothing
    /\ receiving[proxyOf[delivering[s]]] # delivering[s]
    /\ Recycle(s)
    /\ UNCHANGED clientVars

(* What ROS 2 servers do. *)
Environment ==
    /\ ~crashed
    /\ \/ \E s \in Services : ServerComes(s) \/ ServerGoes(s)
       \/ \E r \in Requests : ServerAnswers(r)
    /\ UNCHANGED clientVars

Idle == ClientIdle /\ UNCHANGED serverVars

(* What the thread of handle h does in its service callbacks ... *)
ClientThread(h) ==
    \E p \in Proxies :
        /\ handleOf[p] = h
        /\ \/ \E r \in RequestsOf(p) :
                StartCallback(p, r) \/ DropCall(r) \/ CallStep(r)
           \/ ReturnFromCall(p)
           \/ FinishCallback(p)

(* ... and in its response callbacks. *)
ServerThread(h) ==
    \/ \E s \in Services : serverOf[s] = h /\ RecycleAll(s)
    \/ \E r \in Requests :
        /\ serverOf[ServiceOfRequest(r)] = h
        /\ DeliverResponse(r)
    \/ \E p \in Proxies :
        /\ serverOf[serviceOf[p]] = h
        /\ FulfilPromise(p)

Next ==
    \/ \E r \in Requests : Sends(r)
    \/ \E h \in Handles : ClientThread(h) \/ ServerThread(h)
    \/ Environment
    \/ Idle

Spec == Init /\ [][Next]_vars

(***************************************************************************)
(* The core keeps calling spin_once of every handle and 5000 ms pass, so   *)
(* the thread of a handle goes on while it has something to do; which of   *)
(* the waiting callbacks it takes is rclcpp's choice.  Nothing is assumed  *)
(* of the ROS 2 clients and servers.                                       *)
(***************************************************************************)
Fairness == \A h \in Handles : WF_vars(ClientThread(h) \/ ServerThread(h))

FairSpec == Spec /\ Fairness
-----------------------------------------------------------------------------
(* The provider that ClientProxy leaves open is what the server proxies    *)
(* are: they answer a call at most once, with the answer to the request    *)
(* it was made with, and a proxy is told of one answer at a time.          *)
ImplementsClientProxies == ClientSpec

(* An answer that has arrived from ROS 2 is handed to the client proxy,    *)
(* however long the thread that must do it waits in service callbacks of   *)
(* its own, or the process dies.                                           *)
EveryAnswerDelivered ==
    \A r \in Requests :
        callState[r] = "answered" ~> (callState[r] = "closed" \/ crashed)
=============================================================================
