------------------------- MODULE ClientProxyProofs -------------------------
(***************************************************************************)
(* What TLAPS proves of ClientProxy, for any handles, services, proxies    *)
(* and requests.                                                           *)
(***************************************************************************)
EXTENDS ClientProxy, TLAPS

(* Where a request is in its life shows in its promise, and nothing else   *)
(* knows a request that no callback has taken yet.                         *)
LifeCycle ==
    \A r \in Requests :
        /\ r \in inbox => promise[r] = "unborn"
        /\ promise[r] = "unborn" => r \notin owed \cup timedOut
        /\ promise[r] \in {"pending", "set"} => current[proxyOf[r]] = r
        /\ promise[r] = "dead" <=> reply[r] # Nothing
        /\ promise[r] # "unborn" => promisePtr[proxyOf[r]] # Nothing

(* A running callback owns a live promise, and _handle is aimed at it. *)
RunningCallback ==
    \A p \in Proxies :
        stage[p] # "idle" =>
            /\ promisePtr[p] = current[p]
            /\ promise[current[p]] \in {"pending", "set"}
            /\ stage[p] = "ready" => promise[current[p]] = "set"
            /\ stage[p] = "expired" <=> current[p] \in timedOut

(* One callback per handle. *)
OneFrame ==
    \A p, q \in Proxies :
        (stage[p] # "idle" /\ stage[q] # "idle" /\ handleOf[p] = handleOf[q])
            => p = q

(* The holder of a proxy keeps to promises of that proxy. *)
OwnPointer ==
    \A p \in Proxies :
        promisePtr[p] # Nothing =>
            /\ proxyOf[promisePtr[p]] = p
            /\ promise[promisePtr[p]] # "unborn"

(* The call whose answer is being received is one of this proxy, made      *)
(* before, its answer is in _response, and it is not owed any more.        *)
Receiving ==
    \A p \in Proxies :
        receiving[p] # Nothing =>
            /\ proxyOf[receiving[p]] = p
            /\ promise[receiving[p]] # "unborn"
            /\ receiving[p] \notin owed
            /\ response[p] = receiving[p]
            /\ promisePtr[p] # Nothing

(* Before the first timeout of its proxy, a call that is not answered is   *)
(* the one the callback waits for.                                         *)
PunctualCalls ==
    \A r \in Requests :
        (Punctual(proxyOf[r]) /\ (r \in owed \/ receiving[proxyOf[r]] = r))
            => /\ stage[proxyOf[r]] # "idle"
               /\ current[proxyOf[r]] = r
               /\ promise[r] = "pending"

(* What a request may be answered with: with its own answer, or with one   *)
(* that came late.                                                         *)
GoodAnswer(r, v) ==
    /\ v \in Requests
    /\ v # r =>
        /\ reply[v] # Nothing
        /\ dangled \/ (proxyOf[v] = proxyOf[r] /\ ~Punctual(proxyOf[r]))

GoodValues ==
    \A r \in Requests :
        /\ promise[r] = "set" => GoodAnswer(r, value[r])
        /\ reply[r] \in Requests => GoodAnswer(r, reply[r])
        /\ reply[r] = Empty => ~Punctual(proxyOf[r])

(* The inductive invariant. *)
Exchange ==
    /\ LifeCycle
    /\ RunningCallback
    /\ OneFrame
    /\ OwnPointer
    /\ Receiving
    /\ PunctualCalls
    /\ GoodValues
    /\ CrashNeedsTimeout

ClientInv == ClientTypeOK /\ Exchange
-----------------------------------------------------------------------------
(* The state types stay what they are, whatever the provider does. *)
THEOREM ClientTypeCorrect == ClientSpec => []ClientTypeOK
<1> USE RoutesAssumption
<1>1. ClientInit => ClientTypeOK
  BY DEF ClientInit, ClientTypeOK, Stages, Answers
<1>2. ClientTypeOK /\ [ClientNext]_clientVars => ClientTypeOK'
  <2> SUFFICES ASSUME ClientTypeOK, [ClientNext]_clientVars
               PROVE  ClientTypeOK'
    OBVIOUS
  <2> USE DEF ClientTypeOK, Stages, Answers
  <2>1. ASSUME NEW r \in Requests, ClientSends(r)
        PROVE  ClientTypeOK'
    BY <2>1 DEF ClientSends
  <2>2. ASSUME NEW r \in Requests, ProviderDrops(r)
        PROVE  ClientTypeOK'
    BY <2>2 DEF ProviderDrops
  <2>3. ASSUME NEW r \in Requests, ReceiveResponse(r, r)
        PROVE  ClientTypeOK'
    BY <2>3 DEF ReceiveResponse, SpendCall, StoreResponse
  <2>4. ASSUME NEW p \in Proxies, NEW r \in RequestsOf(p), ServiceCallback(p, r)
        PROVE  ClientTypeOK'
    BY <2>4 DEF ServiceCallback, AimHandle, RequestsOf, Frames
  <2>5. ASSUME NEW p \in Proxies, CallbackReturned(p)
        PROVE  ClientTypeOK'
    BY <2>5 DEF CallbackReturned
  <2>6. ASSUME NEW p \in Proxies, AnswerReady(p)
        PROVE  ClientTypeOK'
    BY <2>6 DEF AnswerReady
  <2>7. ASSUME NEW p \in Proxies, AnswerTimesOut(p)
        PROVE  ClientTypeOK'
    BY <2>7 DEF AnswerTimesOut
  <2>8. ASSUME NEW p \in Proxies, ReturnFromCallback(p)
        PROVE  ClientTypeOK'
    BY <2>8 DEF ReturnFromCallback, Outcome
  <2>9. ASSUME NEW p \in Proxies, SetValue(p)
        PROVE  ClientTypeOK'
    <3>1. response[p] \in Answers
      OBVIOUS
    <3>2. ASSUME NEW f, Fulfil(f, response[p])
          PROVE  /\ promise' \in [Requests -> {"unborn", "pending", "set", "dead"}]
                 /\ value' \in [Requests -> Answers]
                 /\ crashed' \in BOOLEAN
      BY <3>1, <3>2 DEF Fulfil
    <3>3. /\ promise' \in [Requests -> {"unborn", "pending", "set", "dead"}]
          /\ value' \in [Requests -> Answers]
          /\ crashed' \in BOOLEAN
      BY <2>9, <3>2 DEF SetValue, DanglingSetValue
    <3>4. dangled' \in BOOLEAN
      BY <2>9 DEF SetValue
    <3>5. QED
      BY <2>9, <3>3, <3>4 DEF SetValue
  <2>10. CASE ClientIdle
    BY <2>10 DEF ClientIdle, clientVars
  <2>11. CASE UNCHANGED clientVars
    BY <2>11 DEF clientVars
  <2>12. QED
    BY <2>1, <2>2, <2>3, <2>4, <2>5, <2>6, <2>7, <2>8, <2>9, <2>10, <2>11
       DEF ClientNext, CallbackThread
<1>3. QED
  BY <1>1, <1>2, PTL DEF ClientSpec
-----------------------------------------------------------------------------
USE DEF Punctual

LEMMA InvInit == ClientInit => ClientInv
<1> SUFFICES ASSUME ClientInit PROVE ClientInv
  OBVIOUS
<1>1. ClientTypeOK
  BY RoutesAssumption DEF ClientInit, ClientTypeOK, Stages, Answers
<1>2. LifeCycle /\ RunningCallback /\ OneFrame /\ OwnPointer /\ Receiving
  BY DEF ClientInit, LifeCycle, RunningCallback, OneFrame, OwnPointer, Receiving
<1>3. PunctualCalls /\ GoodValues /\ CrashNeedsTimeout
  BY RoutesAssumption
     DEF ClientInit, PunctualCalls, GoodValues, GoodAnswer, CrashNeedsTimeout
<1>4. QED
  BY <1>1, <1>2, <1>3 DEF ClientInv, Exchange

(* The step of a ROS 2 client. *)
LEMMA InvClientSends ==
    ASSUME ClientInv, NEW r \in Requests, ClientSends(r)
    PROVE  Exchange'
BY DEF ClientInv, Exchange, ClientSends, LifeCycle, RunningCallback, OneFrame,
       OwnPointer, Receiving, PunctualCalls, GoodValues, GoodAnswer,
       CrashNeedsTimeout

LEMMA InvProviderDrops ==
    ASSUME ClientInv, NEW r \in Requests, ProviderDrops(r)
    PROVE  Exchange'
BY DEF ClientInv, Exchange, ProviderDrops, LifeCycle, RunningCallback, OneFrame,
       OwnPointer, Receiving, PunctualCalls, GoodValues, GoodAnswer,
       CrashNeedsTimeout

(* A new callback has the thread of its handle for itself, so no call of   *)
(* its proxy is the one a callback waits for.                              *)
LEMMA InvServiceCallback ==
    ASSUME ClientInv, NEW p \in Proxies, NEW r \in Requests,
           ServiceCallback(p, r)
    PROVE  Exchange'
<1> USE RoutesAssumption DEF RoutesAssumption, ClientInv, Exchange, ClientTypeOK
<1>1. /\ proxyOf[r] = p
      /\ promise[r] = "unborn"
      /\ stage[p] = "idle"
      /\ current[p] = Nothing
      /\ \A q \in Proxies : handleOf[q] = handleOf[p] => stage[q] = "idle"
  BY DEF ServiceCallback, Frames, LifeCycle
<1>2. /\ stage' = [stage EXCEPT ![p] = "calling"]
      /\ current' = [current EXCEPT ![p] = r]
      /\ promise' = [promise EXCEPT ![r] = "pending"]
      /\ promisePtr' = [promisePtr EXCEPT ![p] = r]
      /\ owed' = owed \cup {r}
      /\ inbox' = inbox \ {r}
      /\ UNCHANGED <<value, response, receiving, reply, timedOut, crashed, dangled>>
  BY DEF ServiceCallback, AimHandle
<1>3. LifeCycle'
  BY <1>1, <1>2 DEF LifeCycle
<1>4. RunningCallback'
  BY <1>1, <1>2 DEF RunningCallback, LifeCycle
<1>5. OneFrame'
  BY <1>1, <1>2 DEF OneFrame
<1>6. OwnPointer' /\ Receiving'
  BY <1>1, <1>2 DEF OwnPointer, Receiving
<1>7. PunctualCalls'
  BY <1>1, <1>2 DEF PunctualCalls, Receiving
<1>8. GoodValues' /\ CrashNeedsTimeout'
  BY <1>1, <1>2 DEF GoodValues, GoodAnswer, CrashNeedsTimeout
<1>9. QED
  BY <1>3, <1>4, <1>5, <1>6, <1>7, <1>8

LEMMA InvCallbackReturned ==
    ASSUME ClientInv, NEW p \in Proxies,
           CallbackReturned(p) \/ AnswerReady(p)
    PROVE  Exchange'
<1> USE DEF ClientInv, Exchange, ClientTypeOK
<1>1. /\ stage[p] \in {"calling", "waiting"}
      /\ \E st \in {"waiting", "ready"} :
            /\ stage' = [stage EXCEPT ![p] = st]
            /\ st = "ready" => promise[current[p]] = "set"
      /\ UNCHANGED <<inbox, current, promisePtr, promise, value, response,
                     receiving, owed, reply, timedOut, crashed, dangled>>
  BY DEF CallbackReturned, AnswerReady
<1>2. LifeCycle' /\ OneFrame' /\ OwnPointer' /\ Receiving' /\ PunctualCalls'
  BY <1>1 DEF LifeCycle, OneFrame, OwnPointer, Receiving, PunctualCalls
<1>3. RunningCallback'
  BY <1>1 DEF RunningCallback
<1>4. GoodValues' /\ CrashNeedsTimeout'
  BY <1>1 DEF GoodValues, GoodAnswer, CrashNeedsTimeout
<1>5. QED
  BY <1>2, <1>3, <1>4

LEMMA InvAnswerTimesOut ==
    ASSUME ClientInv, NEW p \in Proxies, AnswerTimesOut(p)
    PROVE  Exchange'
<1> USE RoutesAssumption DEF RoutesAssumption, ClientInv, Exchange, ClientTypeOK
<1>1. /\ stage[p] = "waiting"
      /\ promise[current[p]] = "pending"
      /\ current[p] \in Requests
      /\ proxyOf[current[p]] = p
      /\ stage' = [stage EXCEPT ![p] = "expired"]
      /\ timedOut' = timedOut \cup {current[p]}
      /\ UNCHANGED <<inbox, current, promisePtr, promise, value, response,
                     receiving, owed, reply, crashed, dangled>>
  BY DEF AnswerTimesOut
<1>2. LifeCycle' /\ OneFrame' /\ OwnPointer' /\ Receiving' /\ PunctualCalls'
  BY <1>1 DEF LifeCycle, OneFrame, OwnPointer, Receiving, PunctualCalls
<1>3. RunningCallback'
  BY <1>1 DEF RunningCallback
<1>4. GoodValues' /\ CrashNeedsTimeout'
  BY <1>1 DEF GoodValues, GoodAnswer, CrashNeedsTimeout
<1>5. QED
  BY <1>2, <1>3, <1>4

(* What a callback that was answered returns is what its promise was set   *)
(* to; one that was not has made its proxy unpunctual.                     *)
LEMMA InvReturnFromCallback ==
    ASSUME ClientInv, NEW p \in Proxies, ReturnFromCallback(p)
    PROVE  Exchange'
<1> USE RoutesAssumption DEF RoutesAssumption, ClientInv, Exchange, ClientTypeOK
<1> DEFINE r == current[p]
           v == IF stage[p] = "ready" THEN value[r] ELSE Empty
<1>1. /\ stage[p] \in {"ready", "expired"}
      /\ r \in Requests
      /\ proxyOf[r] = p
      /\ reply' = [reply EXCEPT ![r] = v]
      /\ promise' = [promise EXCEPT ![r] = "dead"]
      /\ stage' = [stage EXCEPT ![p] = "idle"]
      /\ current' = [current EXCEPT ![p] = Nothing]
      /\ UNCHANGED <<inbox, promisePtr, value, response, receiving, owed,
                     timedOut, crashed, dangled>>
  BY DEF ReturnFromCallback, Outcome
<1>2. /\ stage[p] = "ready" => promise[r] = "set" /\ GoodAnswer(r, value[r])
      /\ stage[p] = "expired" => ~Punctual(p)
      /\ promise[r] \in {"pending", "set"}
      /\ reply[r] = Nothing
      /\ v # Nothing
  <2>1. /\ stage[p] = "ready" => promise[r] = "set"
        /\ stage[p] = "expired" => r \in timedOut
        /\ promise[r] \in {"pending", "set"}
    BY <1>1 DEF RunningCallback
  <2>2. stage[p] = "ready" => GoodAnswer(r, value[r])
    BY <1>1, <2>1 DEF GoodValues
  <2>3. reply[r] = Nothing
    BY <1>1, <2>1 DEF LifeCycle
  <2>4. QED
    BY <1>1, <2>1, <2>2, <2>3 DEF GoodAnswer
<1> HIDE DEF r, v
<1>3. LifeCycle'
  BY <1>1, <1>2 DEF LifeCycle, r
<1>4. RunningCallback'
  BY <1>1 DEF RunningCallback, r
<1>5. OneFrame' /\ OwnPointer' /\ Receiving'
  BY <1>1 DEF OneFrame, OwnPointer, Receiving
<1>6. PunctualCalls'
  BY <1>1, <1>2 DEF PunctualCalls, r
<1>7. \A q \in Requests : reply[q] # Nothing => reply'[q] # Nothing
  BY <1>1, <1>2
<1>8. GoodValues'
  <2> SUFFICES ASSUME NEW q \in Requests
               PROVE  /\ promise'[q] = "set" => GoodAnswer(q, value[q])'
                      /\ reply'[q] \in Requests => GoodAnswer(q, reply[q])'
                      /\ reply'[q] = Empty => ~Punctual(proxyOf[q])'
    BY <1>1 DEF GoodValues
  <2>1. ASSUME NEW x, GoodAnswer(q, x)
        PROVE  GoodAnswer(q, x)'
    BY <1>1, <1>7, <2>1 DEF GoodAnswer
  <2>2. CASE q = r
    BY <1>1, <1>2, <2>1, <2>2 DEF v, GoodAnswer
  <2>3. CASE q # r
    BY <1>1, <2>1, <2>3 DEF GoodValues
  <2>4. QED
    BY <2>2, <2>3
<1>9. CrashNeedsTimeout'
  BY <1>1 DEF CrashNeedsTimeout
<1>10. QED
  BY <1>3, <1>4, <1>5, <1>6, <1>8, <1>9

LEMMA InvReceiveResponse ==
    ASSUME ClientInv, NEW r \in Requests, ReceiveResponse(r, r)
    PROVE  Exchange'
<1> USE RoutesAssumption DEF RoutesAssumption, ClientInv, Exchange, ClientTypeOK
<1> DEFINE p == proxyOf[r]
<1>1. /\ p \in Proxies
      /\ r \in owed
      /\ receiving[p] = Nothing
      /\ owed' = owed \ {r}
      /\ response' = [response EXCEPT ![p] = r]
      /\ receiving' = [receiving EXCEPT ![p] = r]
      /\ UNCHANGED <<inbox, stage, current, promisePtr, promise, value, reply,
                     timedOut, crashed, dangled>>
  BY DEF ReceiveResponse, SpendCall, StoreResponse
<1>2. promise[r] # "unborn" /\ promisePtr[p] # Nothing
  BY <1>1 DEF LifeCycle
<1>3. LifeCycle' /\ RunningCallback' /\ OneFrame' /\ OwnPointer'
  BY <1>1 DEF LifeCycle, RunningCallback, OneFrame, OwnPointer
<1>4. Receiving'
  BY <1>1, <1>2 DEF Receiving
<1>5. PunctualCalls'
  BY <1>1 DEF PunctualCalls
<1>6. GoodValues' /\ CrashNeedsTimeout'
  BY <1>1 DEF GoodValues, GoodAnswer, CrashNeedsTimeout
<1>7. QED
  BY <1>3, <1>4, <1>5, <1>6
-----------------------------------------------------------------------------
(* A promise that is still pending or set belongs to a running callback.   *)
LEMMA LiveIsRunning ==
    ASSUME ClientInv, NEW r \in Requests, promise[r] \in {"pending", "set"}
    PROVE  /\ stage[proxyOf[r]] # "idle"
           /\ current[proxyOf[r]] = r
           /\ promisePtr[proxyOf[r]] = r
           /\ reply[r] = Nothing
BY RoutesAssumption
   DEF RoutesAssumption, ClientInv, Exchange, ClientTypeOK, LifeCycle, RunningCallback

(* The call whose answer is being received, seen from its proxy: it is the *)
(* one that the proxy's live promise was made for, or it is over; before   *)
(* the first timeout it is not over.                                       *)
LEMMA ReceivedCall ==
    ASSUME ClientInv, NEW p \in Proxies, receiving[p] # Nothing
    PROVE  /\ receiving[p] \in Requests
           /\ proxyOf[receiving[p]] = p
           /\ receiving[p] \notin owed
           /\ response[p] = receiving[p]
           /\ promisePtr[p] \in Requests
           /\ proxyOf[promisePtr[p]] = p
           /\ promisePtr[p] # receiving[p] => reply[receiving[p]] # Nothing
           /\ promise[promisePtr[p]] = "dead" => reply[receiving[p]] # Nothing
           /\ Punctual(p) => /\ promisePtr[p] = receiving[p]
                             /\ promise[promisePtr[p]] = "pending"
<1> DEFINE q == receiving[p]
<1>1. /\ q \in Requests
      /\ proxyOf[q] = p
      /\ q \notin owed
      /\ promise[q] # "unborn"
      /\ response[p] = q
      /\ promisePtr[p] \in Requests
      /\ proxyOf[promisePtr[p]] = p
  BY DEF ClientInv, Exchange, ClientTypeOK, Receiving, OwnPointer
<1>2. promise[q] \in {"pending", "set"} => promisePtr[p] = q
  BY <1>1, LiveIsRunning
<1>3. promise[q] = "dead" => reply[q] # Nothing
  BY <1>1 DEF ClientInv, Exchange, LifeCycle
<1>4. promise[q] \in {"pending", "set", "dead"}
  BY <1>1 DEF ClientInv, ClientTypeOK
<1>5. Punctual(p) => promise[q] = "pending"
  BY <1>1 DEF ClientInv, Exchange, PunctualCalls
<1>6. QED
  BY <1>1, <1>2, <1>3, <1>4, <1>5

(* set_value changes one promise at most: the one it is meant for, or a    *)
(* later one of its proxy once a request to it has timed out, or any one   *)
(* through a dead pointer.  Without a timeout it can neither fail nor      *)
(* dangle.                                                                 *)
LEMMA SetValueEffect ==
    ASSUME ClientInv, NEW p \in Proxies, SetValue(p)
    PROVE  /\ receiving[p] # Nothing
           /\ receiving' = [receiving EXCEPT ![p] = Nothing]
           /\ UNCHANGED <<inbox, stage, current, promisePtr, response, owed,
                          reply, timedOut>>
           /\ \/ UNCHANGED <<promise, value>>
              \/ \E f \in Requests :
                    /\ promise[f] = "pending"
                    /\ f # receiving[p] => reply[receiving[p]] # Nothing
                    /\ dangled' \/ proxyOf[f] = p
                    /\ dangled' \/ (Punctual(p) => f = receiving[p])
                    /\ promise' = [promise EXCEPT ![f] = "set"]
                    /\ value' = [value EXCEPT ![f] = receiving[p]]
           /\ dangled' \in {dangled, TRUE}
           /\ dangled => dangled'
           /\ crashed' \/ dangled' => timedOut # {}
<1>1. /\ receiving[p] # Nothing
      /\ receiving' = [receiving EXCEPT ![p] = Nothing]
      /\ ~crashed
      /\ UNCHANGED <<inbox, stage, current, promisePtr, response, owed, reply,
                     timedOut>>
  BY DEF SetValue
<1>2. /\ response[p] = receiving[p]
      /\ promisePtr[p] \in Requests
      /\ proxyOf[promisePtr[p]] = p
      /\ promisePtr[p] # receiving[p] => reply[receiving[p]] # Nothing
      /\ promise[promisePtr[p]] = "dead" => reply[receiving[p]] # Nothing
      /\ Punctual(p) => /\ promisePtr[p] = receiving[p]
                        /\ promise[promisePtr[p]] = "pending"
  BY <1>1, ReceivedCall
<1>3. \A g \in Proxies : stage[g] # "idle" => current[g] \in Requests
  BY DEF ClientInv, ClientTypeOK
<1>4. \/ /\ Fulfil(promisePtr[p], receiving[p])
         /\ UNCHANGED dangled
      \/ /\ promise[promisePtr[p]] = "dead"
         /\ dangled' = TRUE
         /\ \/ UNCHANGED <<promise, value>>
            \/ \E f \in Requests : Fulfil(f, receiving[p])
  BY <1>2, <1>3 DEF SetValue, DanglingSetValue
<1>5. \/ UNCHANGED <<promise, value>>
      \/ \E f \in Requests :
            /\ promise[f] = "pending"
            /\ f # receiving[p] => reply[receiving[p]] # Nothing
            /\ dangled' \/ proxyOf[f] = p
            /\ dangled' \/ (Punctual(p) => f = receiving[p])
            /\ promise' = [promise EXCEPT ![f] = "set"]
            /\ value' = [value EXCEPT ![f] = receiving[p]]
  BY <1>2, <1>4 DEF Fulfil
<1>6. timedOut = {} => Punctual(p)
  BY DEF ClientInv, Exchange, CrashNeedsTimeout
<1>7. crashed' \/ dangled' => timedOut # {}
  <2> SUFFICES ASSUME timedOut = {} PROVE ~crashed' /\ ~dangled'
    OBVIOUS
  <2>1. ~dangled
    BY DEF ClientInv, Exchange, CrashNeedsTimeout
  <2>2. promise[promisePtr[p]] = "pending"
    BY <1>2, <1>6
  <2>3. Fulfil(promisePtr[p], receiving[p]) /\ UNCHANGED dangled
    BY <1>4, <2>2
  <2>4. UNCHANGED crashed
    BY <2>2, <2>3 DEF Fulfil
  <2> QED
    BY <1>1, <2>1, <2>3, <2>4
<1>8. dangled' \in {dangled, TRUE} /\ (dangled => dangled')
  <2>1. dangled' = dangled \/ dangled' = TRUE
    BY <1>4
  <2>2. dangled => dangled'
    BY <2>1, Zenon
  <2> QED
    BY <2>1, <2>2
<1>9. QED
  BY <1>1, <1>5, <1>7, <1>8

LEMMA InvSetValue ==
    ASSUME ClientInv, NEW p \in Proxies, SetValue(p)
    PROVE  Exchange'
<1> USE RoutesAssumption DEF RoutesAssumption, ClientInv, Exchange, ClientTypeOK
<1>1. PICK q : q = receiving[p]
  OBVIOUS
<1>2. /\ q # Nothing
      /\ receiving' = [receiving EXCEPT ![p] = Nothing]
      /\ UNCHANGED <<inbox, stage, current, promisePtr, response, owed, reply,
                     timedOut>>
      /\ dangled => dangled'
      /\ crashed' \/ dangled' => timedOut # {}
  BY <1>1, SetValueEffect
<1>3. \A r \in Requests : Punctual(proxyOf[r])' => Punctual(proxyOf[r])
  BY <1>2
<1>4. CrashNeedsTimeout'
  BY <1>2 DEF CrashNeedsTimeout
<1>5. ASSUME NEW r \in Requests, NEW v, GoodAnswer(r, v)
      PROVE  GoodAnswer(r, v)'
  BY <1>2, <1>5 DEF GoodAnswer
<1>6. CASE UNCHANGED <<promise, value>>
  <2>1. LifeCycle' /\ RunningCallback' /\ OneFrame' /\ OwnPointer' /\ Receiving'
    BY <1>2, <1>6 DEF LifeCycle, RunningCallback, OneFrame, OwnPointer, Receiving
  <2>2. PunctualCalls'
    BY <1>2, <1>6, <1>3 DEF PunctualCalls
  <2>3. GoodValues'
    <3> SUFFICES ASSUME NEW r \in Requests
                 PROVE  /\ promise'[r] = "set" => GoodAnswer(r, value[r])'
                        /\ reply'[r] \in Requests => GoodAnswer(r, reply[r])'
                        /\ reply'[r] = Empty => ~Punctual(proxyOf[r])'
      BY DEF GoodValues
    <3> QED
      BY <1>2, <1>5, <1>6, <1>3 DEF GoodValues
  <2>4. QED
    BY <1>4, <2>1, <2>2, <2>3
<1>7. ASSUME NEW f \in Requests,
             promise[f] = "pending",
             f # q => reply[q] # Nothing,
             dangled' \/ proxyOf[f] = p,
             dangled' \/ (Punctual(p) => f = q),
             promise' = [promise EXCEPT ![f] = "set"],
             value' = [value EXCEPT ![f] = q]
      PROVE  Exchange'
  <2>1. LifeCycle'
    BY <1>2, <1>7 DEF LifeCycle
  <2>2. RunningCallback'
    BY <1>2, <1>7 DEF RunningCallback
  <2>3. OneFrame' /\ OwnPointer'
    BY <1>2, <1>7 DEF OneFrame, OwnPointer
  <2>4. Receiving'
    BY <1>2, <1>7 DEF Receiving
  <2>5. PunctualCalls'
    <3> SUFFICES ASSUME NEW r \in Requests, Punctual(proxyOf[r])',
                        r \in owed' \/ receiving'[proxyOf[r]] = r
                 PROVE  /\ stage'[proxyOf[r]] # "idle"
                        /\ current'[proxyOf[r]] = r
                        /\ promise'[r] = "pending"
      BY DEF PunctualCalls
    <3>1. q \in Requests /\ proxyOf[q] = p /\ q \notin owed
      BY <1>1, <1>2, ReceivedCall
    <3>2. r # f
      <4> SUFFICES ASSUME r = f PROVE FALSE
        OBVIOUS
      <4>1. ~dangled'
        OBVIOUS
      <4>2. proxyOf[r] = p
        BY <1>7, <4>1
      <4>3. Punctual(p)
        BY <1>3, <4>2
      <4>4. r = q
        BY <1>7, <4>1, <4>3
      <4> QED
        BY <1>2, <3>1, <4>2, <4>4
    <3> QED
      BY <1>2, <1>7, <1>3, <3>2 DEF PunctualCalls
  <2>6. GoodAnswer(f, q)'
    <3>1. q \in Requests /\ proxyOf[q] = p
      BY <1>1, <1>2, ReceivedCall
    <3>2. CASE dangled'
      BY <1>2, <1>7, <3>1, <3>2 DEF GoodAnswer
    <3>3. CASE ~dangled'
      <4>1. proxyOf[f] = p /\ (Punctual(p) => f = q)
        BY <1>7, <3>3
      <4>2. Punctual(p)' => Punctual(p)
        BY <1>3, <4>1
      <4> QED
        BY <1>2, <1>7, <3>1, <4>1, <4>2 DEF GoodAnswer
    <3>4. QED
      BY <3>2, <3>3
  <2>7. GoodValues'
    <3> SUFFICES ASSUME NEW r \in Requests
                 PROVE  /\ promise'[r] = "set" => GoodAnswer(r, value[r])'
                        /\ reply'[r] \in Requests => GoodAnswer(r, reply[r])'
                        /\ reply'[r] = Empty => ~Punctual(proxyOf[r])'
      BY DEF GoodValues
    <3>1. CASE r = f
      <4>1. value'[r] = q
        BY <1>7, <3>1
      <4>2. GoodAnswer(r, value[r])'
        BY <2>6, <3>1, <4>1 DEF GoodAnswer
      <4>3. reply'[r] = reply[r]
        BY <1>2
      <4>4. reply[r] \in Requests => GoodAnswer(r, reply[r])'
        BY <1>2, <1>5, <4>3 DEF GoodValues
      <4> QED
        BY <1>3, <4>2, <4>3, <4>4 DEF GoodValues
    <3>2. CASE r # f
      BY <1>2, <1>5, <1>7, <1>3, <3>2 DEF GoodValues
    <3> QED
      BY <3>1, <3>2
  <2>8. QED
    BY <1>4, <2>1, <2>2, <2>3, <2>4, <2>5, <2>7
<1>8. \/ UNCHANGED <<promise, value>>
      \/ \E f \in Requests :
            /\ promise[f] = "pending"
            /\ f # q => reply[q] # Nothing
            /\ dangled' \/ proxyOf[f] = p
            /\ dangled' \/ (Punctual(p) => f = q)
            /\ promise' = [promise EXCEPT ![f] = "set"]
            /\ value' = [value EXCEPT ![f] = q]
  BY <1>1, SetValueEffect
<1>9. QED
  BY <1>6, <1>7, <1>8

(* The inductive invariant holds throughout every behaviour. *)
THEOREM ClientInvariant == ClientSpec => []ClientInv
<1>1. ClientInit => ClientInv
  BY InvInit
<1>2. ClientInv /\ ClientTypeOK' /\ [ClientNext]_clientVars => ClientInv'
  <2> SUFFICES ASSUME ClientInv, ClientTypeOK', [ClientNext]_clientVars
               PROVE  ClientInv'
    OBVIOUS
  <2>1. ASSUME NEW r \in Requests, ClientSends(r)
        PROVE  Exchange'
    BY <2>1, InvClientSends
  <2>2. ASSUME NEW r \in Requests, ProviderDrops(r)
        PROVE  Exchange'
    BY <2>2, InvProviderDrops
  <2>3. ASSUME NEW r \in Requests, ReceiveResponse(r, r)
        PROVE  Exchange'
    BY <2>3, InvReceiveResponse
  <2>4. ASSUME NEW p \in Proxies, NEW r \in RequestsOf(p), ServiceCallback(p, r)
        PROVE  Exchange'
    BY <2>4, InvServiceCallback DEF RequestsOf
  <2>5. ASSUME NEW p \in Proxies, CallbackReturned(p)
        PROVE  Exchange'
    BY <2>5, InvCallbackReturned
  <2>6. ASSUME NEW p \in Proxies, AnswerReady(p)
        PROVE  Exchange'
    BY <2>6, InvCallbackReturned
  <2>7. ASSUME NEW p \in Proxies, AnswerTimesOut(p)
        PROVE  Exchange'
    BY <2>7, InvAnswerTimesOut
  <2>8. ASSUME NEW p \in Proxies, ReturnFromCallback(p)
        PROVE  Exchange'
    BY <2>8, InvReturnFromCallback
  <2>9. ASSUME NEW p \in Proxies, SetValue(p)
        PROVE  Exchange'
    BY <2>9, InvSetValue
  <2>10. ASSUME UNCHANGED clientVars
         PROVE  Exchange'
    BY <2>10 DEF clientVars, ClientInv, Exchange, LifeCycle, RunningCallback,
                 OneFrame, OwnPointer, Receiving, PunctualCalls, GoodValues,
                 GoodAnswer, CrashNeedsTimeout
  <2>11. Exchange'
    BY <2>1, <2>2, <2>3, <2>4, <2>5, <2>6, <2>7, <2>8, <2>9, <2>10
       DEF ClientNext, CallbackThread, ClientIdle
  <2>12. QED
    BY <2>11 DEF ClientInv
<1>3. ClientSpec => []ClientTypeOK
  BY ClientTypeCorrect
<1>4. QED
  BY <1>1, <1>2, <1>3, PTL DEF ClientSpec

(* Before its proxy's first timeout every ROS 2 client gets the answer to  *)
(* its own request, whatever happens to the requests to other proxies.     *)
THEOREM ClientsGetOwnAnswers == ClientSpec => []OwnAnswer
<1>1. ClientInv => OwnAnswer
  BY DEF ClientInv, Exchange, ClientTypeOK, GoodValues, GoodAnswer, OwnAnswer, Answers
<1>2. QED
  BY <1>1, ClientInvariant, PTL

(* set_value finds a live, unfulfilled promise before the first timeout,   *)
(* so that nothing but a late answer can end the process.                  *)
THEOREM PromiseIsLive == ClientSpec => []LivePromise
<1>1. ClientInv => LivePromise
  <2> SUFFICES ASSUME ClientInv, NEW p \in Proxies, Punctual(p),
                      receiving[p] # Nothing
               PROVE  /\ promisePtr[p] = receiving[p]
                      /\ promise[receiving[p]] = "pending"
    BY DEF LivePromise
  <2>1. promisePtr[p] = receiving[p] /\ promise[promisePtr[p]] = "pending"
    BY ReceivedCall
  <2>2. QED
    BY <2>1
<1>2. QED
  BY <1>1, ClientInvariant, PTL

THEOREM OnlyLateAnswersKill == ClientSpec => []CrashNeedsTimeout
<1>1. ClientInv => CrashNeedsTimeout
  BY DEF ClientInv, Exchange
<1>2. QED
  BY <1>1, ClientInvariant, PTL
-----------------------------------------------------------------------------
(* Every step of the client proxies is a step of RequestReply or changes   *)
(* nothing that the ROS 2 clients see.                                     *)
Asked == inbox \cup {r \in Requests : promise[r] # "unborn"}

Seen == <<Asked, reply, timedOut, dangled, crashed>>

LEMMA SeenUnchanged == UNCHANGED Seen => UNCHANGED RR!rrVars
BY DEF Seen, Asked, RR!rrVars

LEMMA SendIsAsk ==
    ASSUME ClientInv, NEW r \in Requests, ClientSends(r)
    PROVE  RR!Ask(r)
BY DEF ClientInv, ClientTypeOK, ClientSends, RR!Ask

LEMMA TimeoutIsAbandon ==
    ASSUME ClientInv, NEW p \in Proxies, AnswerTimesOut(p)
    PROVE  \E r \in Requests : RR!Abandon(r)
<1> DEFINE r == current[p]
<1>1. /\ ~crashed
      /\ stage[p] = "waiting"
      /\ r \in Requests
      /\ promise[r] = "pending"
      /\ timedOut' = timedOut \cup {r}
      /\ UNCHANGED <<inbox, promise, reply, crashed, dangled>>
  BY DEF AnswerTimesOut, ClientInv, ClientTypeOK
<1>2. r \notin timedOut /\ reply[r] = Nothing
  BY <1>1 DEF ClientInv, Exchange, RunningCallback, LifeCycle
<1>3. RR!Abandon(r)
  BY <1>1, <1>2 DEF RR!Abandon
<1>4. QED
  BY <1>1, <1>3

LEMMA ReturnIsReply ==
    ASSUME ClientInv, NEW p \in Proxies, ReturnFromCallback(p)
    PROVE  \E r \in Requests, v \in Requests \cup {Empty} : RR!Reply(r, v)
<1> DEFINE r == current[p]
           v == IF stage[p] = "ready" THEN value[r] ELSE Empty
<1>1. /\ ~crashed
      /\ stage[p] \in {"ready", "expired"}
      /\ r \in Requests
      /\ promise' = [promise EXCEPT ![r] = "dead"]
      /\ reply' = [reply EXCEPT ![r] = v]
      /\ UNCHANGED <<inbox, timedOut, crashed, dangled>>
  BY DEF ReturnFromCallback, Outcome, ClientInv, ClientTypeOK
<1>2. /\ promise[r] \in {"pending", "set"}
      /\ reply[r] = Nothing
      /\ stage[p] = "expired" <=> r \in timedOut
      /\ stage[p] = "ready" => GoodAnswer(r, value[r])
  BY <1>1 DEF ClientInv, Exchange, RunningCallback, LifeCycle, GoodValues
<1>3. Asked' = Asked
  BY <1>1, <1>2 DEF Asked, ClientInv, ClientTypeOK
<1>4. stage[p] = "ready" =>
        /\ v \in Requests
        /\ v = r \/ RR!Stale(v, r)
  <2> SUFFICES ASSUME stage[p] = "ready", v # r
               PROVE  v \in Requests /\ RR!Stale(v, r)
    BY <1>2 DEF GoodAnswer
  <2>1. GoodAnswer(r, v)
    BY <1>2
  <2>2. dangled \/ \E a \in timedOut : proxyOf[a] = proxyOf[r]
    BY <2>1 DEF GoodAnswer
  <2>3. timedOut \subseteq Requests
    BY DEF ClientInv, ClientTypeOK
  <2>4. QED
    BY <1>1, <2>1, <2>2, <2>3 DEF GoodAnswer, RR!Stale
<1>5. RR!Reply(r, v)
  BY <1>1, <1>2, <1>3, <1>4 DEF RR!Reply, Asked
<1>6. QED
  BY <1>1, <1>4, <1>5

LEMMA SetValueIsHidden ==
    ASSUME ClientInv, NEW p \in Proxies, SetValue(p)
    PROVE  RR!Fail \/ UNCHANGED RR!rrVars
<1>1. /\ UNCHANGED <<inbox, reply, timedOut>>
      /\ crashed' \/ dangled' => timedOut # {}
      /\ dangled' \in {dangled, TRUE}
      /\ \/ UNCHANGED promise
         \/ \E f \in Requests : /\ promise[f] = "pending"
                               /\ promise' = [promise EXCEPT ![f] = "set"]
  BY SetValueEffect
<1>2. \A r \in Requests : promise'[r] = "unborn" <=> promise[r] = "unborn"
  BY <1>1 DEF ClientInv, ClientTypeOK
<1>3. Asked' = Asked
  BY <1>1, <1>2 DEF Asked
<1>4. ~crashed /\ crashed' \in BOOLEAN
  <2>1. ASSUME NEW f, Fulfil(f, response[p]) PROVE crashed' \in BOOLEAN
    BY <2>1 DEF Fulfil, SetValue, ClientInv, ClientTypeOK
  <2>2. QED
    BY <2>1 DEF SetValue, DanglingSetValue, ClientInv, ClientTypeOK
<1>5. CASE crashed' \/ dangled'
  BY <1>1, <1>3, <1>4, <1>5 DEF RR!Fail, Asked
<1>6. CASE ~(crashed' \/ dangled')
  <2>1. UNCHANGED <<crashed, dangled>>
    BY <1>1, <1>4, <1>6 DEF ClientInv, ClientTypeOK
  <2>2. UNCHANGED Seen
    BY <1>1, <1>3, <2>1 DEF Seen
  <2>3. QED
    BY <2>2, SeenUnchanged
<1>7. QED
  BY <1>5, <1>6

(* The client proxies implement RequestReply. *)
THEOREM ClientProxiesImplement == ClientSpec => ImplementsRequestReply
<1>1. ClientInit => RR!RRInit
  BY DEF ClientInit, RR!RRInit
<1>2. ClientInv /\ [ClientNext]_clientVars => [RR!RRNext]_(RR!rrVars)
  <2> SUFFICES ASSUME ClientInv, [ClientNext]_clientVars
               PROVE  RR!RRNext \/ UNCHANGED RR!rrVars
    BY SeenUnchanged
  <2> USE DEF RR!RRNext
  <2>1. ASSUME NEW r \in Requests, ClientSends(r)
        PROVE  RR!RRNext
    BY <2>1, SendIsAsk
  <2>2. ASSUME NEW r \in Requests, ProviderDrops(r)
        PROVE  UNCHANGED RR!rrVars
    BY <2>2, SeenUnchanged DEF ProviderDrops, Seen, Asked
  <2>3. ASSUME NEW r \in Requests, ReceiveResponse(r, r)
        PROVE  UNCHANGED RR!rrVars
    BY <2>3, SeenUnchanged DEF ReceiveResponse, Seen, Asked
  <2>4. ASSUME NEW p \in Proxies, NEW r \in RequestsOf(p), ServiceCallback(p, r)
        PROVE  UNCHANGED RR!rrVars
    <3>1. /\ r \in Requests
          /\ r \in inbox
          /\ inbox' = inbox \ {r}
          /\ promise' = [promise EXCEPT ![r] = "pending"]
          /\ promise \in [Requests -> {"unborn", "pending", "set", "dead"}]
          /\ UNCHANGED <<reply, timedOut, crashed, dangled>>
      BY <2>4 DEF ServiceCallback, RequestsOf, ClientInv, ClientTypeOK
    <3>2. Asked' = Asked
      BY <3>1 DEF Asked
    <3>3. QED
      BY <3>1, <3>2, SeenUnchanged DEF Seen
  <2>5. ASSUME NEW p \in Proxies, CallbackReturned(p)
        PROVE  UNCHANGED RR!rrVars
    BY <2>5, SeenUnchanged DEF CallbackReturned, Seen, Asked
  <2>6. ASSUME NEW p \in Proxies, AnswerReady(p)
        PROVE  UNCHANGED RR!rrVars
    BY <2>6, SeenUnchanged DEF AnswerReady, Seen, Asked
  <2>7. ASSUME NEW p \in Proxies, AnswerTimesOut(p)
        PROVE  RR!RRNext
    BY <2>7, TimeoutIsAbandon
  <2>8. ASSUME NEW p \in Proxies, ReturnFromCallback(p)
        PROVE  RR!RRNext
    BY <2>8, ReturnIsReply
  <2>9. ASSUME NEW p \in Proxies, SetValue(p)
        PROVE  RR!RRNext \/ UNCHANGED RR!rrVars
    BY <2>9, SetValueIsHidden
  <2>10. ASSUME UNCHANGED clientVars
         PROVE  UNCHANGED RR!rrVars
    BY <2>10, SeenUnchanged DEF clientVars, Seen, Asked
  <2>11. QED
    BY <2>1, <2>2, <2>3, <2>4, <2>5, <2>6, <2>7, <2>8, <2>9, <2>10
       DEF ClientNext, CallbackThread, ClientIdle
<1>3. QED
  BY <1>1, <1>2, ClientInvariant, PTL
     DEF ClientSpec, ImplementsRequestReply, RR!RRSpec
=============================================================================
