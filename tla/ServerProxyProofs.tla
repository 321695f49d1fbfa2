------------------------- MODULE ServerProxyProofs -------------------------
(***************************************************************************)
(* What TLAPS proves of ServerProxy, for any handles, services, proxies    *)
(* and requests.                                                           *)
(***************************************************************************)
EXTENDS ServerProxy, TLAPS

(* A proxy delivers answers to calls of its own. *)
OwnDelivery ==
    \A s \in Services :
        delivering[s] # Nothing => ServiceOfRequest(delivering[s]) = s

(* A pooled message has one owner, a call or a pool. *)
OneOwner ==
    /\ ExclusiveRequest
    /\ \A s, t \in Services : s # t => requestPool[s] \cap requestPool[t] = {}

(* A message that is named after a call was made for that call, so nobody  *)
(* has it before the call does.                                            *)
MadeForItsCall ==
    \A r \in Requests :
        callState[r] \in {"new", "dropped"} =>
            /\ \A q \in Requests : held[q] # r
            /\ \A s \in Services : r \notin requestPool[s]

(* From the time it is filled, a call's message carries its request, and   *)
(* from the time it is sent that was sent.                                 *)
OwnContent ==
    \A r \in Requests :
        /\ callState[r] \in {"filled", "sent", "answered", "delivering"} =>
               content[held[r]] = r
        /\ callState[r] \in {"sent", "answered"} => wire[r] = r

Ownership == OneOwner /\ MadeForItsCall /\ OwnContent /\ WireCarriesOwnRequest

ServerInv == ServerTypeOK /\ OwnDelivery /\ OneResponseValue /\ Ownership

(* Every variable of the server proxies has its type, and calls, messages  *)
(* and deliveries go together; with it, the response pool is never short   *)
(* of the one value it has (call_service, _wait_for_response).             *)
THEOREM ServerTypeCorrect ==
    ServerSpec => [](ServerTypeOK /\ OwnDelivery /\ OneResponseValue)
<1> DEFINE TypeInv == ServerTypeOK /\ OwnDelivery /\ OneResponseValue
<1> USE RoutesAssumption DEF RoutesAssumption, Answers, Messages, CallStates,
        Open, ServiceOfRequest
<1>1. ServerInit => TypeInv
  BY DEF ServerInit, ServerTypeOK, OwnDelivery, OneResponseValue
<1>2. TypeInv /\ [ServerNext]_serverVars => TypeInv'
  <2> SUFFICES ASSUME TypeInv, [ServerNext]_serverVars PROVE TypeInv'
    OBVIOUS
  <2> USE DEF ServerTypeOK, OwnDelivery, OneResponseValue
  <2>1. ASSUME NEW s \in Services, ServerComes(s) PROVE TypeInv'
    BY <2>1 DEF ServerComes
  <2>2. ASSUME NEW s \in Services, ServerGoes(s) PROVE TypeInv'
    BY <2>2 DEF ServerGoes
  <2>3. ASSUME NEW r \in Requests, ServiceUnavailable(r) PROVE TypeInv'
    BY <2>3 DEF ServiceUnavailable
  <2>4. ASSUME NEW r \in Requests, PopRequest(r) PROVE TypeInv'
    <3> DEFINE s == ServiceOfRequest(r)
    <3>1. PICK m \in IF requestPool[s] = {} THEN {r} ELSE requestPool[s] :
            held' = [held EXCEPT ![r] = m] /\ LeavePool(s, m)
      BY <2>4 DEF PopRequest
    <3>2. s \in Services /\ requestPool[s] \subseteq Messages
      OBVIOUS
    <3>3. m \in Messages /\ m # Nothing
      BY <3>1, <3>2
    <3>4. requestPool' \in [Services -> SUBSET Messages]
      BY <3>1 DEF LeavePool
    <3>5. /\ callState[r] = "new"
          /\ callState' = [callState EXCEPT ![r] = "popped"]
          /\ UNCHANGED <<available, content, wire, responsePool, delivering>>
      BY <2>4 DEF PopRequest
    <3> QED
      BY <3>1, <3>3, <3>4, <3>5
  <2>5. ASSUME NEW r \in Requests, FillRequest(r) PROVE TypeInv'
    BY <2>5 DEF FillRequest
  <2>6. ASSUME NEW r \in Requests, SendRequest(r) PROVE TypeInv'
    BY <2>6 DEF SendRequest
  <2>7. ASSUME NEW r \in Requests, ServerAnswers(r) PROVE TypeInv'
    BY <2>7 DEF ServerAnswers
  <2>8. ASSUME NEW r \in Requests, TakeResponse(r) PROVE TypeInv'
    <3>1. delivering[ServiceOfRequest(r)] = Nothing
      BY <2>8 DEF TakeResponse, Deliveries
    <3> QED
      BY <2>8, <3>1 DEF TakeResponse, PopResponse
  <2>9. ASSUME NEW s \in Services, Recycle(s) PROVE TypeInv'
    BY <2>9 DEF Recycle
  <2>10. CASE UNCHANGED serverVars
    BY <2>10 DEF serverVars
  <2> QED
    BY <2>1, <2>2, <2>3, <2>4, <2>5, <2>6, <2>7, <2>8, <2>9, <2>10
       DEF ServerNext, CallService
<1> QED
  BY <1>1, <1>2, PTL DEF ServerSpec

(***************************************************************************)
(* Ownership of the request messages, one lemma per action that touches    *)
(* them.  Typed is what ServerTypeCorrect provides before and after.       *)
(***************************************************************************)
Typed == ServerTypeOK /\ OwnDelivery

(* pop() hands out a message that nobody has. *)
LEMMA PopKeepsOwnership ==
    ASSUME Typed, Typed', Ownership, NEW r \in Requests, PopRequest(r)
    PROVE  Ownership'
<1> USE RoutesAssumption DEF RoutesAssumption, Typed, ServerTypeOK, Messages,
        Answers, Open
<1> DEFINE s == ServiceOfRequest(r)
<1>1. PICK m \in IF requestPool[s] = {} THEN {r} ELSE requestPool[s] :
        held' = [held EXCEPT ![r] = m] /\ LeavePool(s, m)
  BY DEF PopRequest
<1>2. s \in Services
  BY DEF ServiceOfRequest
<1>3. /\ callState[r] = "new"
      /\ callState' = [callState EXCEPT ![r] = "popped"]
      /\ UNCHANGED <<content, wire>>
  BY DEF PopRequest
<1>4. m # Nothing /\ \A q \in Requests : q # r => held[q] # m
  BY <1>1, <1>2, <1>3 DEF Ownership, OneOwner, ExclusiveRequest, MadeForItsCall
<1>5. \A t \in Services : m \notin requestPool'[t]
  BY <1>1, <1>2, <1>3 DEF Ownership, OneOwner, MadeForItsCall, LeavePool
<1>6. \A t \in Services : requestPool'[t] \subseteq requestPool[t]
  BY <1>1, <1>2 DEF LeavePool
<1>7. OneOwner'
  BY <1>1, <1>3, <1>4, <1>5, <1>6 DEF Ownership, OneOwner, ExclusiveRequest
<1>8. ASSUME NEW q \in Requests, q # r, callState[q] \in {"new", "dropped"}
      PROVE  m # q
  BY <1>1, <1>2, <1>8 DEF Ownership, MadeForItsCall
<1>9. MadeForItsCall'
  BY <1>1, <1>3, <1>6, <1>8 DEF Ownership, MadeForItsCall
<1>10. OwnContent' /\ WireCarriesOwnRequest'
  BY <1>1, <1>3 DEF Ownership, OwnContent, WireCarriesOwnRequest
<1> QED
  BY <1>7, <1>9, <1>10 DEF Ownership

(* request_to_ros2 writes the caller's message and no other. *)
LEMMA FillKeepsOwnership ==
    ASSUME Typed, Typed', Ownership, NEW r \in Requests, FillRequest(r)
    PROVE  Ownership'
<1> USE RoutesAssumption DEF RoutesAssumption, Typed, ServerTypeOK, Messages,
        Answers, Open
<1>1. OneOwner' /\ MadeForItsCall' /\ WireCarriesOwnRequest'
  BY DEF FillRequest, Ownership, OneOwner, ExclusiveRequest, MadeForItsCall,
         WireCarriesOwnRequest
<1>2. OwnContent'
  BY DEF FillRequest, Ownership, OneOwner, ExclusiveRequest, OwnContent
<1> QED
  BY <1>1, <1>2 DEF Ownership

(* What is sent is what the message carries now. *)
LEMMA SendKeepsOwnership ==
    ASSUME Typed, Typed', Ownership, NEW r \in Requests, SendRequest(r)
    PROVE  Ownership'
<1> USE RoutesAssumption DEF RoutesAssumption, Typed, ServerTypeOK, Messages,
        Answers, Open
<1>1. OneOwner' /\ MadeForItsCall' /\ OwnContent'
  BY DEF SendRequest, Ownership, OneOwner, ExclusiveRequest, MadeForItsCall,
         OwnContent
<1>2. WireCarriesOwnRequest'
  BY DEF SendRequest, Ownership, OwnContent, WireCarriesOwnRequest
<1> QED
  BY <1>1, <1>2 DEF Ownership

(* recycle() gives the message back to the pool it came from, and the call *)
(* does not have it any more.                                              *)
LEMMA RecycleKeepsOwnership ==
    ASSUME Typed, Typed', Ownership, NEW s \in Services, Recycle(s)
    PROVE  Ownership'
<1> USE RoutesAssumption DEF RoutesAssumption, Typed, ServerTypeOK, Messages,
        Answers, Open
<1> DEFINE r == delivering[s]
<1>1. /\ r \in Requests
      /\ callState[r] = "delivering"
  BY DEF Recycle, OwnDelivery
<1>2. /\ requestPool' = [requestPool EXCEPT ![s] = @ \cup {held[r]}]
      /\ held' = [held EXCEPT ![r] = Nothing]
      /\ callState' = [callState EXCEPT ![r] = "closed"]
      /\ UNCHANGED <<content, wire>>
  BY DEF Recycle
<1>3. OneOwner'
  BY <1>1, <1>2 DEF Ownership, OneOwner, ExclusiveRequest
<1>4. MadeForItsCall'
  BY <1>1, <1>2 DEF Ownership, MadeForItsCall
<1>5. OwnContent' /\ WireCarriesOwnRequest'
  BY <1>1, <1>2 DEF Ownership, OwnContent, WireCarriesOwnRequest
<1> QED
  BY <1>3, <1>4, <1>5 DEF Ownership

(* The inductive invariant of the server proxies. *)
THEOREM ServerInvariant == ServerSpec => []ServerInv
<1>1. ServerInit => Ownership
  BY RoutesAssumption
     DEF RoutesAssumption, ServerInit, Ownership, OneOwner, ExclusiveRequest,
         MadeForItsCall, OwnContent, WireCarriesOwnRequest, Open
<1>2. Ownership /\ Typed /\ Typed' /\ [ServerNext]_serverVars => Ownership'
  <2> SUFFICES ASSUME Ownership, Typed, Typed', [ServerNext]_serverVars
               PROVE  Ownership'
    OBVIOUS
  <2> USE DEF Ownership, OneOwner, ExclusiveRequest, MadeForItsCall, OwnContent,
              WireCarriesOwnRequest, Open
  <2>1. ASSUME NEW s \in Services, ServerComes(s) PROVE Ownership'
    BY <2>1 DEF ServerComes
  <2>2. ASSUME NEW s \in Services, ServerGoes(s) PROVE Ownership'
    BY <2>2 DEF ServerGoes
  <2>3. ASSUME NEW r \in Requests, ServiceUnavailable(r) PROVE Ownership'
    BY <2>3 DEF ServiceUnavailable, Typed, ServerTypeOK
  <2>4. ASSUME NEW r \in Requests, PopRequest(r) PROVE Ownership'
    BY <2>4, PopKeepsOwnership
  <2>5. ASSUME NEW r \in Requests, FillRequest(r) PROVE Ownership'
    BY <2>5, FillKeepsOwnership
  <2>6. ASSUME NEW r \in Requests, SendRequest(r) PROVE Ownership'
    BY <2>6, SendKeepsOwnership
  <2>7. ASSUME NEW r \in Requests, ServerAnswers(r) PROVE Ownership'
    BY <2>7 DEF ServerAnswers, Typed, ServerTypeOK
  <2>8. ASSUME NEW r \in Requests, TakeResponse(r) PROVE Ownership'
    BY <2>8 DEF TakeResponse, Typed, ServerTypeOK
  <2>9. ASSUME NEW s \in Services, Recycle(s) PROVE Ownership'
    BY <2>9, RecycleKeepsOwnership
  <2>10. CASE UNCHANGED serverVars
    BY <2>10 DEF serverVars
  <2> QED
    BY <2>1, <2>2, <2>3, <2>4, <2>5, <2>6, <2>7, <2>8, <2>9, <2>10
       DEF ServerNext, CallService
<1> QED
  BY <1>1, <1>2, ServerTypeCorrect, PTL DEF ServerSpec, ServerInv, Typed

(* Type correctness of the server proxies. *)
THEOREM ServerTypesHold == ServerSpec => []ServerTypeOK
<1>1. ServerInv => ServerTypeOK
  BY DEF ServerInv
<1> QED
  BY <1>1, ServerInvariant, PTL

(* However many threads are inside call_service, no two calls share a      *)
(* request message, and the pool never hands out one that is in use.       *)
THEOREM RequestsAreExclusive == ServerSpec => []ExclusiveRequest
<1>1. ServerInv => ExclusiveRequest
  BY DEF ServerInv, Ownership, OneOwner
<1> QED
  BY <1>1, ServerInvariant, PTL

(* async_send_request sends the request of the call that makes it, never   *)
(* what a recycled message or another thread has left there.               *)
THEOREM CallsSendTheirRequest == ServerSpec => []WireCarriesOwnRequest
<1>1. ServerInv => WireCarriesOwnRequest
  BY DEF ServerInv, Ownership
<1> QED
  BY <1>1, ServerInvariant, PTL

(* One value is enough for _response_pool, however many calls are answered. *)
THEOREM OneValueIsEnough == ServerSpec => []OneResponseValue
<1>1. ServerInv => OneResponseValue
  BY DEF ServerInv
<1> QED
  BY <1>1, ServerInvariant, PTL

(***************************************************************************)
(* Where the request messages are.  A message is given to calls and pools  *)
(* of the proxy that made it only.                                         *)
(***************************************************************************)
AtHome ==
    /\ \A s \in Services : \A m \in requestPool[s] : HomeOf(m) = s
    /\ \A r \in Requests : held[r] # Nothing => HomeOf(held[r]) = ServiceOfRequest(r)

Kept == AtHome /\ NoMessageIsLost

(* pop() moves a message from the pool to the call, or makes one for it.   *)
LEMMA PopKeepsMessages ==
    ASSUME Typed, Kept, NEW r \in Requests, PopRequest(r)
    PROVE  Kept'
<1> USE RoutesAssumption DEF RoutesAssumption, Typed, ServerTypeOK, Messages,
        Answers
<1> DEFINE s == ServiceOfRequest(r)
<1>1. PICK m \in IF requestPool[s] = {} THEN {r} ELSE requestPool[s] :
        held' = [held EXCEPT ![r] = m] /\ LeavePool(s, m)
  BY DEF PopRequest
<1>2. s \in Services /\ requestPool' = [requestPool EXCEPT ![s] = @ \ {m}]
  BY <1>1 DEF ServiceOfRequest, LeavePool
<1>3. held[r] = Nothing /\ UNCHANGED content
  BY DEF PopRequest, Open
<1>4. HomeOf(m) = s
  BY <1>1, <1>2 DEF Kept, AtHome, HomeOf
<1>5. AtHome'
  BY <1>1, <1>2, <1>4 DEF Kept, AtHome, HomeOf, ServiceOfRequest
<1>6. NoMessageIsLost'
  <2> SUFFICES ASSUME NEW n \in Messages, n \in Services \/ content[n] # Empty
               PROVE  \/ n \in requestPool'[HomeOf(n)]
                      \/ \E q \in Requests : /\ ServiceOfRequest(q) = HomeOf(n)
                                            /\ held'[q] = n
    BY <1>3 DEF NoMessageIsLost, HomeOf, ServiceOfRequest
  <2>1. CASE n = m
    BY <2>1, <1>1, <1>4
  <2>2. CASE n # m /\ n \in requestPool[HomeOf(n)]
    BY <2>2, <1>2
  <2>3. ASSUME NEW q \in Requests, n # m, ServiceOfRequest(q) = HomeOf(n), held[q] = n
        PROVE  held'[q] = n
    BY <2>3, <1>1, <1>3
  <2> QED
    BY <2>1, <2>2, <2>3 DEF Kept, NoMessageIsLost
<1> QED
  BY <1>5, <1>6 DEF Kept

(* recycle() moves a message from the call to the pool of its own proxy.   *)
LEMMA RecycleKeepsMessages ==
    ASSUME Typed, Kept, NEW s \in Services, Recycle(s)
    PROVE  Kept'
<1> USE RoutesAssumption DEF RoutesAssumption, Typed, ServerTypeOK, Messages,
        Answers
<1> DEFINE r == delivering[s]
<1>1. r \in Requests /\ ServiceOfRequest(r) = s /\ held[r] # Nothing
  BY DEF Recycle, OwnDelivery, Open
<1>2. /\ requestPool' = [requestPool EXCEPT ![s] = @ \cup {held[r]}]
      /\ held' = [held EXCEPT ![r] = Nothing]
      /\ UNCHANGED content
  BY DEF Recycle
<1>3. HomeOf(held[r]) = s
  BY <1>1 DEF Kept, AtHome
<1>4. AtHome'
  BY <1>1, <1>2, <1>3 DEF Kept, AtHome, HomeOf, ServiceOfRequest
<1>5. NoMessageIsLost'
  <2> SUFFICES ASSUME NEW n \in Messages, n \in Services \/ content[n] # Empty
               PROVE  \/ n \in requestPool'[HomeOf(n)]
                      \/ \E q \in Requests : /\ ServiceOfRequest(q) = HomeOf(n)
                                            /\ held'[q] = n
    BY <1>2 DEF NoMessageIsLost, HomeOf, ServiceOfRequest
  <2>1. CASE n \in requestPool[HomeOf(n)]
    BY <2>1, <1>2
  <2>2. ASSUME NEW q \in Requests, ServiceOfRequest(q) = HomeOf(n), held[q] = n
        PROVE  n \in requestPool'[HomeOf(n)] \/ held'[q] = n
    BY <2>2, <1>1, <1>2
  <2> QED
    BY <2>1, <2>2 DEF Kept, NoMessageIsLost
<1> QED
  BY <1>4, <1>5 DEF Kept

(* However many calls are made and never answered, every request message   *)
(* is in the pool of its proxy or with one of that proxy's calls.          *)
THEOREM MessagesAreKept == ServerSpec => []NoMessageIsLost
<1>1. ServerInit => Kept
  BY RoutesAssumption
     DEF RoutesAssumption, ServerInit, Kept, AtHome, NoMessageIsLost, HomeOf,
         Messages, ServiceOfRequest
<1>2. Kept /\ Typed /\ Typed' /\ [ServerNext]_serverVars => Kept'
  <2> SUFFICES ASSUME Kept, Typed, [ServerNext]_serverVars PROVE Kept'
    OBVIOUS
  <2>1. ASSUME NEW r \in Requests, PopRequest(r) PROVE Kept'
    BY <2>1, PopKeepsMessages
  <2>2. ASSUME NEW s \in Services, Recycle(s) PROVE Kept'
    BY <2>2, RecycleKeepsMessages
  <2>3. ASSUME NEW r \in Requests, FillRequest(r) PROVE Kept'
    <3>1. held[r] # Nothing
      BY <2>3 DEF FillRequest, Typed, ServerTypeOK, Open
    <3>2. \A n \in Messages : n # held[r] => content'[n] = content[n]
      BY <2>3 DEF FillRequest, Typed, ServerTypeOK
    <3> QED
      BY <2>3, <3>1, <3>2
         DEF FillRequest, Kept, AtHome, NoMessageIsLost, HomeOf, ServiceOfRequest
  <2>4. CASE UNCHANGED <<held, content, requestPool>>
    BY <2>4 DEF Kept, AtHome, NoMessageIsLost, HomeOf, ServiceOfRequest
  <2> QED
    BY <2>1, <2>2, <2>3, <2>4
       DEF ServerNext, CallService, ServerComes, ServerGoes, ServiceUnavailable,
           SendRequest, ServerAnswers, TakeResponse, serverVars
<1>3. Kept => NoMessageIsLost
  BY DEF Kept
<1> QED
  BY <1>1, <1>2, <1>3, ServerTypeCorrect, PTL DEF ServerSpec, Typed

(* No step writes into a message between its filling and the delivery of   *)
(* its answer: only FillRequest writes, and it writes the message of a     *)
(* call that has not been filled yet.                                      *)
THEOREM SentRequestsStay == ServerSpec => SentRequestUntouched
<1> DEFINE Untouched ==
        \A r \in Requests :
            callState[r] \in {"filled", "sent", "answered"} =>
                content'[held[r]] = content[held[r]]
<1>1. ServerInv /\ [ServerNext]_serverVars => Untouched
  <2> SUFFICES ASSUME ServerInv, [ServerNext]_serverVars, NEW r \in Requests,
                      callState[r] \in {"filled", "sent", "answered"}
               PROVE  content'[held[r]] = content[held[r]]
    OBVIOUS
  <2>1. ASSUME NEW q \in Requests, FillRequest(q)
        PROVE  content'[held[r]] = content[held[r]]
    <3>1. q # r /\ Open(q) /\ Open(r)
      BY <2>1 DEF FillRequest, Open
    <3>2. held[q] # held[r]
      BY <3>1 DEF ServerInv, Ownership, OneOwner, ExclusiveRequest
    <3> QED
      BY <2>1, <3>2 DEF FillRequest
  <2>2. CASE UNCHANGED content
    BY <2>2
  <2> QED
    BY <2>1, <2>2
       DEF ServerNext, CallService, ServerComes, ServerGoes, ServiceUnavailable,
           PopRequest, SendRequest, ServerAnswers, TakeResponse, Recycle,
           serverVars
<1>2. ServerInv /\ [ServerNext]_serverVars => [Untouched]_serverVars
  BY <1>1
<1> QED
  BY <1>2, ServerInvariant, PTL DEF ServerSpec, SentRequestUntouched
=============================================================================
