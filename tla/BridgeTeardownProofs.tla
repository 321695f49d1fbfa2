------------------------ MODULE BridgeTeardownProofs ------------------------
(***************************************************************************)
(* What TLAPS proves of BridgeTeardown, for any handles, services, proxies *)
(* and requests.                                                           *)
(***************************************************************************)
EXTENDS BridgeTeardown, ServiceBridgeProofs

(* Until the end and during it, the bridge does only what ServiceBridge    *)
(* allows, so that all its theorems hold of an instance that quits.        *)
THEOREM TeardownIsBridge == TeardownSpec => Spec
<1>1. TeardownInit => Init
  BY DEF TeardownInit
<1>2. [TeardownNext]_teardownVars => [Next]_vars
  <2> SUFFICES ASSUME TeardownNext PROVE [Next]_vars
    BY DEF teardownVars
  <2>1. ASSUME NEW h \in Handles, SpinOnce(h) PROVE Next
    BY <2>1 DEF SpinOnce, Next
  <2>2. ASSUME NEW h \in Handles, ContextShutDown(h) \/ ThreadEnds(h) \/ DestroyHandle(h)
        PROVE  UNCHANGED vars
    BY <2>2 DEF ContextShutDown, ThreadEnds, DestroyHandle
  <2>3. CASE Quit
    BY <2>3 DEF Quit
  <2>4. CASE Outside
    BY <2>4 DEF Outside, Next
  <2> QED
    BY <2>1, <2>2, <2>3, <2>4 DEF TeardownNext
<1> QED
  BY <1>1, <1>2, PTL DEF TeardownSpec, Spec

(* A client of an instance that quits gets no other's answer either,       *)
(* before the first timeout of its proxy.                                  *)
THEOREM EndingClientsGetOwnAnswers == TeardownSpec => []OwnAnswer
  BY TeardownIsBridge, BridgedClientsGetOwnAnswers, PTL

(* The teardown gives the client proxies no provider they do not allow for. *)
THEOREM EndingIsClientProxies == TeardownSpec => ImplementsClientProxies
  BY TeardownIsBridge, BridgeIsClientProxies, PTL

(***************************************************************************)
(* A thread that has ended has left its last callback, and no other        *)
(* thread starts one on its behalf.                                        *)
(***************************************************************************)
Ended ==
    /\ running \subseteq Handles
    /\ \A h \in Handles \ running : ThreadFree(h)
    /\ destroyed # {} => running = {}

(* A thread changes the callbacks of its own handle only. *)
LEMMA OthersStayFree ==
    ASSUME ClientTypeOK, ServerTypeOK, OwnDelivery, NEW h \in Handles, SpinOnce(h),
           NEW g \in Handles, g # h, ThreadFree(g)
    PROVE  ThreadFree(g)'
<1> USE RoutesAssumption DEF RoutesAssumption, ThreadFree, Frames, Deliveries
<1>1. ASSUME ClientThread(h) PROVE ThreadFree(g)'
  <2>1. PICK p \in Proxies :
          /\ handleOf[p] = h
          /\ \/ \E r \in RequestsOf(p) :
                    StartCallback(p, r) \/ DropCall(r) \/ CallStep(r)
             \/ ReturnFromCall(p)
             \/ FinishCallback(p)
    BY <1>1 DEF ClientThread
  <2>2. \A q \in Proxies : q # p => stage'[q] = stage[q]
    BY <2>1 DEF StartCallback, ServiceCallback, DropCall, ProviderDrops, CallStep,
                clientVars, ReturnFromCall, CallbackReturned, FinishCallback,
                AnswerReady, AnswerTimesOut, ReturnFromCallback, ClientTypeOK
  <2>3. UNCHANGED delivering
    BY <2>1 DEF StartCallback, DropCall, ServiceUnavailable, CallStep, PopRequest,
                FillRequest, SendRequest, ReturnFromCall, FinishCallback, serverVars
  <2> QED
    BY <2>1, <2>2, <2>3
<1>2. ASSUME ServerThread(h) PROVE ThreadFree(g)'
  <2>1. ASSUME NEW s \in Services, serverOf[s] = h, RecycleAll(s) PROVE ThreadFree(g)'
    BY <2>1 DEF RecycleAll, Recycle, clientVars, ServerTypeOK
  <2>2. ASSUME NEW r \in Requests, serverOf[ServiceOfRequest(r)] = h, DeliverResponse(r)
        PROVE  ThreadFree(g)'
    BY <2>2 DEF DeliverResponse, TakeResponse, ReceiveResponse, ServerTypeOK,
                ServiceOfRequest
  <2>3. ASSUME NEW p \in Proxies, FulfilPromise(p) PROVE ThreadFree(g)'
    BY <2>3 DEF FulfilPromise, SetValue, serverVars
  <2> QED
    BY <1>2, <2>1, <2>2, <2>3 DEF ServerThread
<1> QED
  BY <1>1, <1>2 DEF SpinOnce

(* No handle is destroyed under a callback that still uses it. *)
THEOREM DestroyedStaysUnused == TeardownSpec => []DestroyedIsUnused
<1> DEFINE TypesHold == ClientTypeOK /\ ServerTypeOK /\ OwnDelivery
<1>1. TeardownInit => Ended
  BY DEF TeardownInit, Ended
<1>2. Ended /\ TypesHold /\ [TeardownNext]_teardownVars => Ended'
  <2> SUFFICES ASSUME Ended, TypesHold, [TeardownNext]_teardownVars PROVE Ended'
    OBVIOUS
  <2>1. ASSUME NEW h \in Handles, SpinOnce(h) PROVE Ended'
    <3>1. UNCHANGED <<running, destroyed>> /\ h \in running
      BY <2>1 DEF SpinOnce
    <3>2. \A g \in Handles \ running : ThreadFree(g)'
      BY <2>1, <3>1, OthersStayFree DEF Ended
    <3> QED
      BY <3>1, <3>2 DEF Ended
  <2>2. ASSUME NEW h \in Handles, ThreadEnds(h) PROVE Ended'
    BY <2>2 DEF ThreadEnds, Ended, vars, clientVars, serverVars, ThreadFree, Frames,
                Deliveries
  <2>3. ASSUME NEW h \in Handles, DestroyHandle(h) PROVE Ended'
    BY <2>3 DEF DestroyHandle, Ended, vars, clientVars, serverVars, ThreadFree, Frames,
                Deliveries
  <2>4. CASE UNCHANGED <<stage, delivering, running, destroyed>>
    BY <2>4 DEF Ended, ThreadFree, Frames, Deliveries
  <2> QED
    BY <2>1, <2>2, <2>3, <2>4
       DEF TeardownNext, Quit, ContextShutDown, Outside, endVars, teardownVars, vars, clientVars,
           serverVars, Sends, ClientSends, Environment, ServerComes, ServerGoes,
           ServerAnswers, Idle, ClientIdle
<1>3. Ended /\ TypesHold => DestroyedIsUnused
  BY RoutesAssumption
     DEF RoutesAssumption, Ended, ThreadFree, Frames, Deliveries, DestroyedIsUnused
<1>4. TeardownSpec => []TypesHold
  BY TeardownIsBridge, BridgeIsServerProxies, BridgeIsClientProxies, ClientTypeCorrect,
     ServerTypeCorrect, PTL DEF ImplementsClientProxies
<1> QED
  BY <1>1, <1>2, <1>3, <1>4, PTL DEF TeardownSpec
-----------------------------------------------------------------------------
(***************************************************************************)
(* The steps that a thread has left.                                       *)
(***************************************************************************)
OneAtATime == Sides /\ OneCallback /\ CalledByDelivery

LEMMA TheOnly ==
    ASSUME NEW x
    PROVE  (CHOOSE y \in {x} : TRUE) = x
OBVIOUS

LEMMA FrameStepsRange ==
    ASSUME Sides, NEW p \in Proxies, stage[p] # "idle"
    PROVE  FrameSteps(p) \in 1 .. 6
BY DEF Sides, ClientTypeOK, Stages, FrameSteps

(* A service callback is the only callback of its thread ... *)
LEMMA OfFrame ==
    ASSUME OneAtATime, NEW h \in Handles, NEW p \in Proxies, handleOf[p] = h,
           stage[p] # "idle"
    PROVE  /\ Frames(h) = {p}
           /\ Deliveries(h) = {}
           /\ CallbackSteps(h) = FrameSteps(p)
<1>1. Frames(h) = {p}
  BY DEF OneAtATime, Sides, OneFrame, Frames
<1>2. Deliveries(h) = {}
  BY DEF OneAtATime, OneCallback, Deliveries
<1> QED
  BY <1>1, <1>2 DEF CallbackSteps

(* ... and so is a response callback. *)
LEMMA OfDelivery ==
    ASSUME OneAtATime, NEW h \in Handles, NEW s \in Services, serverOf[s] = h,
           delivering[s] # Nothing
    PROVE  /\ Frames(h) = {}
           /\ Deliveries(h) = {s}
           /\ CallbackSteps(h) = DeliverySteps(s)
<1>1. Deliveries(h) = {s}
  BY DEF OneAtATime, OneCallback, Deliveries
<1>2. Frames(h) = {}
  BY DEF OneAtATime, OneCallback, Frames
<1> QED
  BY <1>1, <1>2 DEF CallbackSteps

LEMMA CallbackStepsRange ==
    ASSUME OneAtATime, NEW h \in Handles
    PROVE  /\ CallbackSteps(h) \in 0 .. 6
           /\ ThreadFree(h) <=> CallbackSteps(h) = 0
<1>1. CASE ThreadFree(h)
  BY <1>1 DEF ThreadFree, CallbackSteps
<1>2. ASSUME NEW p \in Frames(h)
      PROVE  CallbackSteps(h) \in 1 .. 6 /\ ~ThreadFree(h)
  BY <1>2, OfFrame, FrameStepsRange DEF Frames, OneAtATime, ThreadFree
<1>3. ASSUME NEW s \in Deliveries(h)
      PROVE  CallbackSteps(h) \in 1 .. 6 /\ ~ThreadFree(h)
  BY <1>3, OfDelivery DEF Deliveries, DeliverySteps, ThreadFree
<1> QED
  BY <1>1, <1>2, <1>3 DEF ThreadFree

(* A step of a thread's callback is one of those it has left. *)
LEMMA CallbackAdvances ==
    ASSUME OneAtATime, OneAtATime', NEW h \in Handles, ClientThread(h) \/ ServerThread(h)
    PROVE  ThreadFree(h) \/ CallbackSteps(h)' < CallbackSteps(h)
<1> USE RoutesAssumption
    DEF RoutesAssumption, OneAtATime, Sides, ClientTypeOK, ServerTypeOK
<1> SUFFICES ASSUME ~ThreadFree(h)
             PROVE  CallbackSteps(h)' < CallbackSteps(h)
  OBVIOUS
<1>1. ASSUME NEW p \in Proxies, handleOf[p] = h, stage[p] # "idle",
             Frames(h)' = {p}, FrameSteps(p)' < FrameSteps(p)
      PROVE  CallbackSteps(h)' < CallbackSteps(h)
  <2>1. CallbackSteps(h) = FrameSteps(p)
    BY <1>1, OfFrame
  <2>2. CallbackSteps(h)' = FrameSteps(CHOOSE q \in Frames(h) : TRUE)'
    BY <1>1 DEF CallbackSteps
  <2>3. (CHOOSE q \in Frames(h) : TRUE)' = p
    BY <1>1, TheOnly
  <2>4. CallbackSteps(h)' = FrameSteps(p)'
    BY <2>2, <2>3 DEF FrameSteps
  <2> QED
    BY <1>1, <2>1, <2>4
<1>2. ASSUME NEW p \in Proxies, handleOf[p] = h,
             \/ \E r \in RequestsOf(p) :
                    StartCallback(p, r) \/ DropCall(r) \/ CallStep(r)
             \/ ReturnFromCall(p)
             \/ FinishCallback(p)
      PROVE  CallbackSteps(h)' < CallbackSteps(h)
  <2>1. ASSUME NEW r \in RequestsOf(p), DropCall(r) \/ CallStep(r)
        PROVE  CallbackSteps(h)' < CallbackSteps(h)
    <3>1. /\ r \in Requests
          /\ stage[p] = "calling"
          /\ current[p] = r
          /\ UNCHANGED <<stage, current>>
      BY <2>1 DEF RequestsOf, DropCall, CallStep, InCallback, ProviderDrops, clientVars
    <3>2. \/ callState[r] = "new" /\ callState'[r] \in {"popped", "dropped"}
          \/ callState[r] = "popped" /\ callState'[r] = "filled"
          \/ callState[r] = "filled" /\ callState'[r] = "sent"
      BY <2>1, <3>1 DEF DropCall, CallStep, ServiceUnavailable, PopRequest, FillRequest,
                        SendRequest
    <3>3. FrameSteps(p)' < FrameSteps(p)
      BY <3>1, <3>2 DEF FrameSteps
    <3>4. Frames(h)' = {p}
      BY <1>2, <3>1, OfFrame DEF Frames
    <3> QED
      BY <1>1, <1>2, <3>1, <3>3, <3>4
  <2>2. CASE ReturnFromCall(p) \/ AnswerReady(p) \/ AnswerTimesOut(p)
    <3>1. /\ stage[p] \in {"calling", "waiting"}
          /\ stage' = [stage EXCEPT ![p] = IF stage[p] = "calling" THEN "waiting"
                                           ELSE stage'[p]]
          /\ stage[p] = "waiting" => stage'[p] \in {"ready", "expired"}
          /\ stage[p] = "calling" =>
                callState[current[p]] \notin {"new", "popped", "filled"}
      BY <2>2 DEF ReturnFromCall, CallbackReturned, AnswerReady, AnswerTimesOut
    <3>2. FrameSteps(p)' < FrameSteps(p)
      BY <3>1 DEF FrameSteps
    <3>3. Frames(h) = {p}
      BY <1>2, <3>1, OfFrame
    <3>4. Frames(h)' = {p}
      BY <3>1, <3>3 DEF Frames
    <3> QED
      BY <1>1, <1>2, <3>1, <3>2, <3>4
  <2>3. CASE ReturnFromCallback(p) /\ UNCHANGED serverVars
    <3>1. /\ stage[p] # "idle"
          /\ stage' = [stage EXCEPT ![p] = "idle"]
          /\ UNCHANGED delivering
      BY <2>3 DEF ReturnFromCallback, serverVars
    <3>2. Frames(h) = {p} /\ Deliveries(h) = {} /\ CallbackSteps(h) \in 1 .. 6
      BY <1>2, <3>1, OfFrame, FrameStepsRange
    <3>3. Frames(h)' = {} /\ Deliveries(h)' = {}
      BY <3>1, <3>2 DEF Frames, Deliveries
    <3> QED
      BY <3>2, <3>3 DEF CallbackSteps
  <2>4. ASSUME NEW r \in RequestsOf(p), StartCallback(p, r) PROVE FALSE
    BY <1>2, <2>4 DEF StartCallback
  <2> QED
    BY <1>2, <2>1, <2>2, <2>3, <2>4 DEF FinishCallback
<1>3. ASSUME NEW s \in Services, serverOf[s] = h, RecycleAll(s)
      PROVE  CallbackSteps(h)' < CallbackSteps(h)
  <2>1. /\ delivering[s] # Nothing
        /\ delivering' = [delivering EXCEPT ![s] = Nothing]
        /\ UNCHANGED stage
    BY <1>3 DEF RecycleAll, Recycle, clientVars
  <2>2. Frames(h) = {} /\ Deliveries(h) = {s} /\ CallbackSteps(h) \in 1 .. 2
    BY <1>3, <2>1, OfDelivery DEF DeliverySteps
  <2>3. Frames(h)' = {} /\ Deliveries(h)' = {}
    BY <2>1, <2>2 DEF Frames, Deliveries
  <2> QED
    BY <2>2, <2>3 DEF CallbackSteps
<1>4. ASSUME NEW r \in Requests, serverOf[ServiceOfRequest(r)] = h, DeliverResponse(r)
      PROVE  FALSE
  BY <1>4 DEF DeliverResponse
<1>5. ASSUME NEW p \in Proxies, serverOf[serviceOf[p]] = h, FulfilPromise(p)
      PROVE  CallbackSteps(h)' < CallbackSteps(h)
  <2> DEFINE s == serviceOf[p]
  <2>1. /\ receiving[p] # Nothing
        /\ receiving' = [receiving EXCEPT ![p] = Nothing]
        /\ UNCHANGED <<stage, delivering>>
    BY <1>5 DEF FulfilPromise, SetValue, serverVars
  <2>2. delivering[s] = receiving[p] /\ proxyOf[delivering[s]] = p
    BY <2>1 DEF CalledByDelivery, Receiving
  <2>3. Frames(h) = {} /\ Deliveries(h) = {s} /\ CallbackSteps(h) = 2
    BY <1>5, <2>1, <2>2, OfDelivery DEF DeliverySteps
  <2>4. Frames(h)' = {} /\ Deliveries(h)' = {s} /\ DeliverySteps(s)' = 1
    BY <2>1, <2>2, <2>3 DEF Frames, Deliveries, DeliverySteps
  <2> QED
    BY <2>3, <2>4 DEF CallbackSteps
<1> QED
  BY <1>2, <1>3, <1>4, <1>5 DEF ClientThread, ServerThread

(* What a step that is not one of handle g's thread must leave alone for   *)
(* the callback of g to have as many steps left as before.                 *)
KeptFor(g) ==
    /\ Frames(g)' = Frames(g)
    /\ Deliveries(g)' = Deliveries(g)
    /\ \A p \in Frames(g) :
        /\ UNCHANGED <<stage[p], current[p]>>
        /\ \/ UNCHANGED callState[current[p]]
           \/ {callState[current[p]], callState'[current[p]]}
                \cap {"new", "popped", "filled"} = {}
    /\ \A s \in Deliveries(g) :
        UNCHANGED <<delivering[s], receiving[proxyOf[delivering[s]]]>>

LEMMA KeptSteps ==
    ASSUME OneAtATime, NEW g \in Handles, KeptFor(g)
    PROVE  CallbackSteps(g)' = CallbackSteps(g)
<1>1. CASE ThreadFree(g)
  BY <1>1 DEF KeptFor, ThreadFree, CallbackSteps
<1>2. ASSUME NEW p \in Frames(g) PROVE CallbackSteps(g)' = CallbackSteps(g)
  <2>1. Frames(g) = {p} /\ CallbackSteps(g) = FrameSteps(p)
    BY <1>2, OfFrame DEF Frames
  <2>2. FrameSteps(p)' = FrameSteps(p)
    BY <1>2 DEF KeptFor, FrameSteps
  <2>3. Frames(g)' = {p}
    BY <2>1 DEF KeptFor
  <2>4. CallbackSteps(g)' = FrameSteps(CHOOSE q \in Frames(g) : TRUE)'
    BY <2>3 DEF CallbackSteps
  <2>5. (CHOOSE q \in Frames(g) : TRUE)' = p
    BY <2>3, TheOnly
  <2>6. CallbackSteps(g)' = FrameSteps(p)'
    BY <2>4, <2>5 DEF FrameSteps
  <2> QED
    BY <2>1, <2>2, <2>6
<1>3. ASSUME NEW s \in Deliveries(g) PROVE CallbackSteps(g)' = CallbackSteps(g)
  <2>1. /\ Frames(g) = {}
        /\ Deliveries(g) = {s}
        /\ CallbackSteps(g) = DeliverySteps(s)
    BY <1>3, OfDelivery DEF Deliveries
  <2>2. DeliverySteps(s)' = DeliverySteps(s)
    BY <1>3 DEF KeptFor, DeliverySteps
  <2>3. Frames(g)' = {} /\ Deliveries(g)' = {s}
    BY <2>1 DEF KeptFor
  <2>4. CallbackSteps(g)' = DeliverySteps(CHOOSE t \in Deliveries(g) : TRUE)'
    BY <2>3 DEF CallbackSteps
  <2>5. (CHOOSE t \in Deliveries(g) : TRUE)' = s
    BY <2>3, TheOnly
  <2>6. CallbackSteps(g)' = DeliverySteps(s)'
    BY <2>4, <2>5 DEF DeliverySteps
  <2> QED
    BY <2>1, <2>2, <2>6
<1> QED
  BY <1>1, <1>2, <1>3 DEF ThreadFree

(* The thread of one handle neither helps nor hinders the callback of      *)
(* another.                                                                *)
LEMMA OthersKeep ==
    ASSUME OneAtATime, NEW h \in Handles, NEW g \in Handles, g # h,
           ClientThread(h) \/ ServerThread(h)
    PROVE  KeptFor(g)
<1> USE RoutesAssumption
    DEF RoutesAssumption, OneAtATime, Sides, ClientTypeOK, ServerTypeOK, KeptFor, Frames,
        Deliveries
<1>1. ASSUME NEW p \in Proxies, handleOf[p] = h,
             \/ \E r \in RequestsOf(p) :
                    StartCallback(p, r) \/ DropCall(r) \/ CallStep(r)
             \/ ReturnFromCall(p)
             \/ FinishCallback(p)
      PROVE  KeptFor(g)
  <2>1. UNCHANGED <<receiving, delivering>>
    BY <1>1 DEF StartCallback, ServiceCallback, DropCall, ServiceUnavailable,
                ProviderDrops, CallStep, PopRequest, FillRequest, SendRequest,
                clientVars, serverVars, ReturnFromCall, CallbackReturned,
                FinishCallback, AnswerReady, AnswerTimesOut, ReturnFromCallback
  <2>2. \A q \in Proxies : q # p => UNCHANGED <<stage[q], current[q]>>
    BY <1>1 DEF StartCallback, ServiceCallback, DropCall, ProviderDrops, CallStep,
                clientVars, ReturnFromCall, CallbackReturned, FinishCallback,
                AnswerReady, AnswerTimesOut, ReturnFromCallback
  <2>3. \A r \in Requests : proxyOf[r] # p => UNCHANGED callState[r]
    BY <1>1 DEF StartCallback, DropCall, CallStep, ServiceUnavailable, PopRequest,
                FillRequest, SendRequest, serverVars, ReturnFromCall, FinishCallback,
                RequestsOf
  <2>4. \A q \in Frames(g) : q # p /\ current[q] \in Requests /\ proxyOf[current[q]] # p
    BY <1>1
  <2>5. \A q \in Frames(g) :
            UNCHANGED <<stage[q], current[q], callState[current[q]]>>
    BY <2>2, <2>3, <2>4
  <2>6. Frames(g)' = Frames(g)
    BY <1>1, <2>2
  <2>7. Deliveries(g)' = Deliveries(g)
    BY <2>1
  <2> QED
    BY <2>1, <2>5, <2>6, <2>7
<1>2. ASSUME NEW s \in Services, serverOf[s] = h, RecycleAll(s) PROVE KeptFor(g)
  <2> DEFINE r == delivering[s]
  <2>1. /\ r # Nothing
        /\ callState' = [callState EXCEPT ![r] = "closed"]
        /\ delivering' = [delivering EXCEPT ![s] = Nothing]
        /\ UNCHANGED <<stage, current, receiving>>
    BY <1>2 DEF RecycleAll, Recycle, clientVars
  <2>2. r \in Requests /\ callState[r] = "delivering"
    BY <2>1 DEF OwnDelivery
  <2> QED
    BY <1>2, <2>1, <2>2
<1>3. ASSUME NEW r \in Requests, serverOf[ServiceOfRequest(r)] = h, DeliverResponse(r)
      PROVE  KeptFor(g)
  <2> DEFINE s == ServiceOfRequest(r)
  <2>1. /\ callState[r] = "answered"
        /\ callState' = [callState EXCEPT ![r] = "delivering"]
        /\ delivering' = [delivering EXCEPT ![s] = r]
        /\ receiving' = [receiving EXCEPT ![proxyOf[r]] = r]
        /\ UNCHANGED <<stage, current>>
    BY <1>3 DEF DeliverResponse, TakeResponse, ReceiveResponse
  <2>2. \A t \in Deliveries(g) : t # s /\ proxyOf[delivering[t]] # proxyOf[r]
    BY <1>3 DEF OwnDelivery, ServiceOfRequest
  <2> QED
    BY <1>3, <2>1, <2>2
<1>4. ASSUME NEW p \in Proxies, serverOf[serviceOf[p]] = h, FulfilPromise(p)
      PROVE  KeptFor(g)
  <2>1. /\ receiving' = [receiving EXCEPT ![p] = Nothing]
        /\ UNCHANGED <<stage, current, callState, delivering>>
    BY <1>4 DEF FulfilPromise, SetValue, serverVars
  <2>2. \A t \in Deliveries(g) : proxyOf[delivering[t]] # p
    BY <1>4 DEF OwnDelivery, ServiceOfRequest
  <2> QED
    BY <2>1, <2>2
<1> QED
  BY <1>1, <1>2, <1>3, <1>4 DEF ClientThread, ServerThread

(* Once its loop is to end, a thread uses up the steps it has left, at     *)
(* most fourteen, and gets no new ones.                                    *)
THEOREM EveryThreadRunsOut ==
    TeardownSpec => ThreadsRunOut /\ [](\A h \in Handles : StepsToEnd(h) \in 0 .. 14)
<1> DEFINE InRange == \A h \in Handles : StepsToEnd(h) \in 0 .. 14
           RunsOut == \A h \in Handles :
                        h \in ending =>
                            /\ StepsToEnd(h)' <= StepsToEnd(h)
                            /\ SpinOnce(h) => StepsToEnd(h)' < StepsToEnd(h)
           Range == \A h \in Handles : CallbackSteps(h) \in 0 .. 6
<1>1. OneAtATime => Range
  BY CallbackStepsRange
<1>2. OneAtATime => InRange
  <2>1. ASSUME NEW h \in Handles, CallbackSteps(h) \in 0 .. 6
        PROVE  StepsToEnd(h) \in 0 .. 14
    <3> DEFINE c == CallbackSteps(h)
    <3>1. StepsToEnd(h) = c + (IF h \in mayStart THEN 7 ELSE 0)
                            + (IF h \in running THEN 1 ELSE 0)
      BY DEF StepsToEnd
    <3> HIDE DEF c
    <3>2. c \in 0 .. 6
      BY <2>1 DEF c
    <3> QED
      BY <3>1, <3>2
  <2> QED
    BY <1>1, <2>1
<1>3. OneAtATime' => Range'
  BY <1>1, PTL
<1>4. OneAtATime /\ OneAtATime' /\ [TeardownNext]_teardownVars => RunsOut
  <2> SUFFICES ASSUME OneAtATime, OneAtATime', [TeardownNext]_teardownVars,
                      NEW g \in Handles, g \in ending
               PROVE  /\ StepsToEnd(g)' <= StepsToEnd(g)
                      /\ SpinOnce(g) => StepsToEnd(g)' < StepsToEnd(g)
    OBVIOUS
  <2>1. CallbackSteps(g) \in 0 .. 6 /\ (ThreadFree(g) <=> CallbackSteps(g) = 0)
    BY CallbackStepsRange
  <2>2. CallbackSteps(g)' \in 0 .. 6
    BY <1>3
  <2>3. ASSUME SpinOnce(g) PROVE StepsToEnd(g)' < StepsToEnd(g)
    <3>1. /\ ClientThread(g) \/ ServerThread(g)
          /\ mayStart' = mayStart \ {g}
          /\ UNCHANGED running
          /\ ThreadFree(g) => g \in mayStart
      BY <2>3 DEF SpinOnce
    <3>2. CASE ThreadFree(g)
      BY <2>1, <2>2, <3>1, <3>2 DEF StepsToEnd
    <3>3. CASE ~ThreadFree(g)
      <4>1. CallbackSteps(g)' < CallbackSteps(g)
        BY <3>1, <3>3, CallbackAdvances
      <4> QED
        BY <2>1, <2>2, <3>1, <4>1 DEF StepsToEnd
    <3> QED
      BY <3>2, <3>3
  <2>4. ASSUME CallbackSteps(g)' = CallbackSteps(g), mayStart' \subseteq mayStart,
               running' \subseteq running, ~SpinOnce(g)
        PROVE  StepsToEnd(g)' <= StepsToEnd(g)
    BY <2>1, <2>4 DEF StepsToEnd
  <2>5. ASSUME ~SpinOnce(g) PROVE StepsToEnd(g)' <= StepsToEnd(g)
    <3>1. ASSUME NEW h \in Handles, SpinOnce(h) PROVE StepsToEnd(g)' <= StepsToEnd(g)
      <4>1. h # g
        BY <2>5, <3>1
      <4>2. CallbackSteps(g)' = CallbackSteps(g)
        BY <3>1, <4>1, OthersKeep, KeptSteps DEF SpinOnce
      <4> QED
        BY <2>4, <2>5, <3>1, <4>2 DEF SpinOnce
    <3>2. ASSUME UNCHANGED <<stage, current, callState, receiving, delivering>>,
                 mayStart' \subseteq mayStart, running' \subseteq running
          PROVE  StepsToEnd(g)' <= StepsToEnd(g)
      BY <2>4, <2>5, <3>2, KeptSteps DEF KeptFor, Frames, Deliveries
    <3>3. ASSUME NEW h \in Handles, ThreadEnds(h) \/ DestroyHandle(h)
          PROVE  StepsToEnd(g)' <= StepsToEnd(g)
      BY <3>2, <3>3 DEF ThreadEnds, DestroyHandle, vars, clientVars, serverVars
    <3>4. ASSUME Quit \/ \E h \in Handles : ContextShutDown(h)
          PROVE  StepsToEnd(g)' <= StepsToEnd(g)
      BY <3>2, <3>4 DEF Quit, ContextShutDown, vars, clientVars, serverVars
    <3>5. ASSUME NEW r \in Requests, Sends(r), UNCHANGED endVars
          PROVE  StepsToEnd(g)' <= StepsToEnd(g)
      BY <3>2, <3>5 DEF Sends, ClientSends, serverVars, endVars
    <3>6. ASSUME NEW s \in Services, ServerComes(s) \/ ServerGoes(s),
                 UNCHANGED clientVars, UNCHANGED endVars
          PROVE  StepsToEnd(g)' <= StepsToEnd(g)
      BY <3>2, <3>6 DEF ServerComes, ServerGoes, clientVars, endVars
    <3>7. ASSUME NEW r \in Requests, ServerAnswers(r), UNCHANGED clientVars, UNCHANGED endVars
          PROVE  StepsToEnd(g)' <= StepsToEnd(g)
      <4>1. /\ callState[r] = "sent"
            /\ callState' = [callState EXCEPT ![r] = "answered"]
            /\ UNCHANGED <<stage, current, receiving, delivering, mayStart, running>>
        BY <3>7 DEF ServerAnswers, clientVars, endVars
      <4>2. callState \in [Requests -> CallStates]
        BY DEF OneAtATime, Sides, ServerTypeOK
      <4>3. \A q : \/ UNCHANGED callState[q]
                   \/ {callState[q], callState'[q]} \cap {"new", "popped", "filled"} = {}
        BY <4>1, <4>2
      <4>4. KeptFor(g)
        BY <4>1, <4>3 DEF KeptFor, Frames, Deliveries
      <4> QED
        BY <2>4, <2>5, <4>1, <4>4, KeptSteps
    <3>8. CASE UNCHANGED teardownVars
      <4>1. UNCHANGED <<stage, current, callState, receiving, delivering>>
        BY <3>8 DEF teardownVars, vars, clientVars, serverVars
      <4>2. mayStart' \subseteq mayStart /\ running' \subseteq running
        BY <3>8 DEF teardownVars, endVars
      <4> QED
        BY <3>2, <4>1, <4>2
    <3>9. CASE Outside
      <4>1. UNCHANGED endVars
        BY <3>9 DEF Outside
      <4>2. CASE Idle
        <5>1. UNCHANGED <<clientVars, serverVars>>
          BY <4>2 DEF Idle, ClientIdle
        <5> QED
          BY <3>8, <4>1, <5>1 DEF teardownVars, vars
      <4>3. CASE Environment
        <5>1. UNCHANGED clientVars
          BY <4>3 DEF Environment
        <5> QED
          BY <3>6, <3>7, <4>1, <4>3, <5>1 DEF Environment
      <4> QED
        BY <3>5, <3>9, <4>1, <4>2, <4>3 DEF Outside
    <3> QED
      BY <2>5, <3>1, <3>3, <3>4, <3>8, <3>9 DEF TeardownNext
  <2> QED
    BY <2>1, <2>2, <2>3, <2>5 DEF StepsToEnd
<1>5. TeardownSpec => []OneAtATime
  BY TeardownIsBridge, OneCallbackAtATime, PTL DEF OneAtATime
<1>6. RunsOut => [RunsOut]_teardownVars
  OBVIOUS
<1> HIDE DEF InRange
<1>7. TeardownSpec => []InRange
  BY <1>2, <1>5, PTL
<1>8. TeardownSpec => [][RunsOut]_teardownVars
  BY <1>4, <1>5, <1>6, PTL DEF TeardownSpec
<1> QED
  BY <1>7, <1>8 DEF InRange, ThreadsRunOut
=============================================================================
