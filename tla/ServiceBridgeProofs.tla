------------------------ MODULE ServiceBridgeProofs ------------------------
(***************************************************************************)
(* What TLAPS proves of ServiceBridge, for any handles, services, proxies  *)
(* and requests: it behaves like the server proxies, and like the client   *)
(* proxies with an open provider, so the theorems about each carry over.   *)
(***************************************************************************)
EXTENDS ServiceBridge, ClientProxyProofs, ServerProxyProofs

(* Every step of the bridge is a step of the server proxies or none to     *)
(* them (call_service, _wait_for_response).                                *)
THEOREM BridgeIsServerProxies == Spec => ServerSpec
<1>1. Init => ServerInit
  BY DEF Init
<1>2. [Next]_vars => [ServerNext]_serverVars
  <2> SUFFICES ASSUME Next PROVE [ServerNext]_serverVars
    BY DEF vars
  <2>1. ASSUME NEW r \in Requests, Sends(r) PROVE UNCHANGED serverVars
    BY <2>1 DEF Sends
  <2>2. ASSUME NEW h \in Handles, ClientThread(h) PROVE [ServerNext]_serverVars
    <3>1. PICK p \in Proxies :
            \/ \E r \in RequestsOf(p) : StartCallback(p, r) \/ DropCall(r) \/ CallStep(r)
            \/ ReturnFromCall(p)
            \/ FinishCallback(p)
      BY <2>2 DEF ClientThread
    <3>2. ASSUME NEW r \in Requests, DropCall(r) \/ CallStep(r) PROVE ServerNext
      BY <3>2 DEF DropCall, CallStep, ServerNext, CallService
    <3>3. ASSUME NEW r \in Requests, StartCallback(p, r) PROVE UNCHANGED serverVars
      BY <3>3 DEF StartCallback
    <3>4. CASE ReturnFromCall(p) \/ FinishCallback(p)
      BY <3>4 DEF ReturnFromCall, FinishCallback
    <3> QED
      BY <3>1, <3>2, <3>3, <3>4 DEF RequestsOf
  <2>3. ASSUME NEW h \in Handles, ServerThread(h) PROVE [ServerNext]_serverVars
    <3>1. ASSUME NEW s \in Services, RecycleAll(s) PROVE ServerNext
      BY <3>1 DEF RecycleAll, ServerNext
    <3>2. ASSUME NEW r \in Requests, DeliverResponse(r) PROVE ServerNext
      BY <3>2 DEF DeliverResponse, ServerNext
    <3>3. ASSUME NEW p \in Proxies, FulfilPromise(p) PROVE UNCHANGED serverVars
      BY <3>3 DEF FulfilPromise
    <3> QED
      BY <2>3, <3>1, <3>2, <3>3 DEF ServerThread
  <2>4. CASE Environment
    BY <2>4 DEF Environment, ServerNext
  <2>5. CASE Idle
    BY <2>5 DEF Idle
  <2> QED
    BY <2>1, <2>2, <2>3, <2>4, <2>5 DEF Next
<1> QED
  BY <1>1, <1>2, PTL DEF Spec, ServerSpec

(* Every step of the bridge is a step of the client proxies or none to     *)
(* them; above all, the answer that a server proxy delivers to a call is   *)
(* the one to the request of that call (_wait_for_response).               *)
THEOREM BridgeIsClientProxies == Spec => ImplementsClientProxies
<1>1. Init => ClientInit
  BY DEF Init
<1>2. ServerInv /\ [Next]_vars => [ClientNext]_clientVars
  <2> SUFFICES ASSUME ServerInv, Next PROVE [ClientNext]_clientVars
    BY DEF vars
  <2>1. ASSUME NEW r \in Requests, Sends(r) PROVE ClientNext
    BY <2>1 DEF Sends, ClientNext
  <2>2. ASSUME NEW h \in Handles, ClientThread(h) PROVE [ClientNext]_clientVars
    <3>1. PICK p \in Proxies :
            \/ \E r \in RequestsOf(p) : StartCallback(p, r) \/ DropCall(r) \/ CallStep(r)
            \/ ReturnFromCall(p)
            \/ FinishCallback(p)
      BY <2>2 DEF ClientThread
    <3>2. ASSUME NEW r \in RequestsOf(p), StartCallback(p, r) PROVE ClientNext
      BY <3>2 DEF StartCallback, ClientNext, CallbackThread
    <3>3. ASSUME NEW r \in Requests, DropCall(r) PROVE ClientNext
      BY <3>3 DEF DropCall, ClientNext
    <3>4. ASSUME NEW r \in Requests, CallStep(r) PROVE UNCHANGED clientVars
      BY <3>4 DEF CallStep
    <3>5. CASE ReturnFromCall(p) \/ FinishCallback(p)
      BY <3>5 DEF ReturnFromCall, FinishCallback, ClientNext, CallbackThread
    <3> QED
      BY <3>1, <3>2, <3>3, <3>4, <3>5 DEF RequestsOf
  <2>3. ASSUME NEW h \in Handles, ServerThread(h) PROVE [ClientNext]_clientVars
    <3>1. ASSUME NEW s \in Services, RecycleAll(s) PROVE UNCHANGED clientVars
      BY <3>1 DEF RecycleAll
    <3>2. ASSUME NEW r \in Requests, DeliverResponse(r) PROVE ClientNext
      <4>1. wire[r] = r
        BY <3>2 DEF DeliverResponse, TakeResponse, ServerInv, Ownership, OwnContent
      <4> QED
        BY <3>2, <4>1 DEF DeliverResponse, ClientNext
    <3>3. ASSUME NEW p \in Proxies, FulfilPromise(p) PROVE ClientNext
      BY <3>3 DEF FulfilPromise, ClientNext
    <3> QED
      BY <2>3, <3>1, <3>2, <3>3 DEF ServerThread
  <2>4. CASE Environment
    BY <2>4 DEF Environment
  <2>5. CASE Idle
    BY <2>5 DEF Idle, ClientNext
  <2> QED
    BY <2>1, <2>2, <2>3, <2>4, <2>5 DEF Next
<1> QED
  BY <1>1, <1>2, BridgeIsServerProxies, ServerInvariant, PTL
     DEF Spec, ClientSpec, ImplementsClientProxies

(* Whatever routes connect the handles, clients get their own answers      *)
(* until the first timeout of their proxy.                                 *)
THEOREM BridgedClientsGetOwnAnswers == Spec => []OwnAnswer
BY BridgeIsClientProxies, ClientsGetOwnAnswers, PTL DEF ImplementsClientProxies

(* The whole bridge keeps the promises of RequestReply. *)
THEOREM BridgeImplements == Spec => ImplementsRequestReply
BY BridgeIsClientProxies, ClientProxiesImplement, PTL DEF ImplementsClientProxies
(***************************************************************************)
(* A thread executes one callback at a time: a service callback of one of  *)
(* its client proxies, or a response callback of one of its server         *)
(* proxies.  And while receive_response is under way at a client proxy,    *)
(* the response callback that called it has not returned.                  *)
(***************************************************************************)
OneCallback ==
    /\ \A p \in Proxies, s \in Services :
        handleOf[p] = serverOf[s] => stage[p] = "idle" \/ delivering[s] = Nothing
    /\ \A s, t \in Services :
        (serverOf[s] = serverOf[t] /\ delivering[s] # Nothing /\ delivering[t] # Nothing)
            => s = t

CalledByDelivery ==
    \A p \in Proxies :
        receiving[p] # Nothing => delivering[serviceOf[p]] = receiving[p]

(* The types and facts of the two sides that the bridge relies on. *)
Sides == ClientTypeOK /\ OneFrame /\ Receiving /\ ServerTypeOK /\ OwnDelivery

(* The steps of a thread in its service callbacks ... *)
LEMMA ClientThreadKeepsOne ==
    ASSUME Sides, OneCallback, CalledByDelivery, NEW h \in Handles, ClientThread(h)
    PROVE  OneCallback' /\ CalledByDelivery'
<1> USE RoutesAssumption DEF RoutesAssumption, OneCallback, CalledByDelivery
<1>1. PICK p \in Proxies :
        /\ handleOf[p] = h
        /\ \/ \E r \in RequestsOf(p) :
                  StartCallback(p, r) \/ DropCall(r) \/ CallStep(r)
           \/ ReturnFromCall(p)
           \/ FinishCallback(p)
  BY DEF ClientThread
<1>2. UNCHANGED <<receiving, delivering>>
  BY <1>1 DEF StartCallback, ServiceCallback, DropCall, ServiceUnavailable,
              ProviderDrops, CallStep, PopRequest, FillRequest, SendRequest,
              clientVars, serverVars, ReturnFromCall, CallbackReturned,
              FinishCallback, AnswerReady, AnswerTimesOut, ReturnFromCallback
<1>3. ASSUME NEW r \in RequestsOf(p), StartCallback(p, r) PROVE OneCallback'
  BY <1>2, <1>3 DEF StartCallback, ServiceCallback, ThreadFree, Deliveries, Sides,
                    ClientTypeOK
<1>4. CASE ReturnFromCall(p) \/ FinishCallback(p)
  BY <1>2, <1>4 DEF ReturnFromCall, CallbackReturned, FinishCallback, AnswerReady,
                    AnswerTimesOut, ReturnFromCallback, Sides, ClientTypeOK
<1>5. ASSUME NEW r \in RequestsOf(p), DropCall(r) \/ CallStep(r) PROVE UNCHANGED stage
  BY <1>5 DEF DropCall, ProviderDrops, CallStep, clientVars
<1> QED
  BY <1>1, <1>2, <1>3, <1>4, <1>5

(* ... and in its response callbacks. *)
LEMMA ServerThreadKeepsOne ==
    ASSUME Sides, OneCallback, CalledByDelivery, NEW h \in Handles, ServerThread(h)
    PROVE  OneCallback' /\ CalledByDelivery'
<1> USE RoutesAssumption
    DEF RoutesAssumption, OneCallback, CalledByDelivery, Sides, ClientTypeOK, ServerTypeOK
<1>1. ASSUME NEW s \in Services, RecycleAll(s) PROVE OneCallback' /\ CalledByDelivery'
  <2>1. /\ delivering' = [delivering EXCEPT ![s] = Nothing]
        /\ UNCHANGED <<stage, receiving>>
        /\ delivering[s] # Nothing
        /\ receiving[proxyOf[delivering[s]]] # delivering[s]
    BY <1>1 DEF RecycleAll, Recycle, clientVars
  <2>2. ASSUME NEW p \in Proxies, receiving[p] # Nothing PROVE serviceOf[p] # s
    BY <2>1, <2>2 DEF Receiving
  <2> QED
    BY <2>1, <2>2
<1>2. ASSUME NEW r \in Requests, DeliverResponse(r) PROVE OneCallback' /\ CalledByDelivery'
  <2> DEFINE s == serviceOf[proxyOf[r]]
  <2>1. /\ s \in Services
        /\ ThreadFree(serverOf[s])
        /\ delivering' = [delivering EXCEPT ![s] = r]
        /\ receiving' = [receiving EXCEPT ![proxyOf[r]] = r]
        /\ UNCHANGED stage
    BY <1>2 DEF DeliverResponse, TakeResponse, ReceiveResponse, ServiceOfRequest
  <2>2. delivering[s] = Nothing
    BY <2>1 DEF ThreadFree, Deliveries
  <2>3. OneCallback'
    BY <2>1 DEF ThreadFree, Deliveries, Frames
  <2>4. CalledByDelivery'
    BY <2>1, <2>2
  <2> QED
    BY <2>3, <2>4
<1>3. ASSUME NEW p \in Proxies, FulfilPromise(p) PROVE OneCallback' /\ CalledByDelivery'
  BY <1>3 DEF FulfilPromise, SetValue, serverVars
<1> QED
  BY <1>1, <1>2, <1>3 DEF ServerThread

(* One callback at a time on every thread, of either kind (spin_once with  *)
(* its single-threaded executor, receive_response inside                   *)
(* _wait_for_response).                                                    *)
THEOREM OneCallbackAtATime == Spec => [](Sides /\ OneCallback /\ CalledByDelivery)
<1>1. Init => OneCallback /\ CalledByDelivery
  BY RoutesAssumption
     DEF RoutesAssumption, Init, ClientInit, ServerInit, OneCallback, CalledByDelivery
<1>2. Sides /\ OneCallback /\ CalledByDelivery /\ [Next]_vars
        => OneCallback' /\ CalledByDelivery'
  <2> SUFFICES ASSUME Sides, OneCallback, CalledByDelivery, [Next]_vars
               PROVE  OneCallback' /\ CalledByDelivery'
    OBVIOUS
  <2>1. ASSUME NEW h \in Handles, ClientThread(h) \/ ServerThread(h)
        PROVE  OneCallback' /\ CalledByDelivery'
    BY <2>1, ClientThreadKeepsOne, ServerThreadKeepsOne
  <2>2. CASE UNCHANGED <<stage, receiving, delivering>>
    BY <2>2 DEF OneCallback, CalledByDelivery
  <2> QED
    BY <2>1, <2>2
       DEF Next, Sends, ClientSends, Environment, ServerComes, ServerGoes,
           ServerAnswers, Idle, ClientIdle, vars, clientVars, serverVars
<1>3. Spec => []Sides
  <2>1. ClientInv => ClientTypeOK /\ OneFrame /\ Receiving
    BY DEF ClientInv, Exchange
  <2> QED
    BY <2>1, BridgeIsServerProxies, ServerTypeCorrect, BridgeIsClientProxies,
       ClientInvariant, PTL DEF Sides, ImplementsClientProxies
<1> QED
  BY <1>1, <1>2, <1>3, PTL DEF Spec
=============================================================================
