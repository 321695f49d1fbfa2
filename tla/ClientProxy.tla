---------------------------- MODULE ClientProxy ----------------------------
(***************************************************************************)
(* The ClientProxy class generated for every ROS 2 service                 *)
(* (resources/convert__srv.cpp.em): it offers the service in ROS 2,        *)
(* forwards each request to the provider that the Integration Service core *)
(* connects, waits for the answer and lets rclcpp send it back.            *)
(*                                                                         *)
(* service_callback runs on the single thread that spins its handle and    *)
(* blocks it; receive_response runs on the provider's thread.  The two     *)
(* meet in _handle, ONE PromiseHolder per proxy whose raw pointer is aimed *)
(* at the std::promise on the stack of the callback that runs now, and is  *)
(* never cleared when that callback returns.                               *)
(*                                                                         *)
(* The provider is left open here: it may answer any call it was given, at *)
(* any time and in any order, once, or never.  It gives one proxy one      *)
(* answer at a time, as the ServerProxy does in ServiceBridge.             *)
(***************************************************************************)
EXTENDS ServiceRoutes

VARIABLES
    inbox,       \* requests in the rclcpp service, not yet taken
    stage,       \* progress of a proxy's service_callback
    current,     \* the request its service_callback works on
    promisePtr,  \* _handle->promise: the frame (request) it points into
    promise,     \* state of the std::promise of a request's frame
    value,       \* what that promise was fulfilled with
    response,    \* the _response member
    receiving,   \* the call whose receive_response is executing
    owed,        \* calls given to the provider and not yet answered
    reply,       \* what rclcpp sent to the ROS 2 client
    timedOut,    \* requests whose wait_for ended without an answer
    crashed,     \* the process is gone
    dangled      \* history: set_value has gone through a dead pointer

clientVars == <<inbox, stage, current, promisePtr, promise, value, response,
                receiving, owed, reply, timedOut, crashed, dangled>>

RequestsOf(p) == {r \in Requests : proxyOf[r] = p}

ClientInit ==
    /\ inbox      = {}
    /\ stage      = [p \in Proxies |-> "idle"]
    /\ current    = [p \in Proxies |-> Nothing]
    /\ promisePtr = [p \in Proxies |-> Nothing]
    /\ promise    = [r \in Requests |-> "unborn"]
    /\ value      = [r \in Requests |-> Empty]
    /\ response   = [p \in Proxies |-> Empty]
    /\ receiving  = [p \in Proxies |-> Nothing]
    /\ owed       = {}
    /\ reply      = [r \in Requests |-> Nothing]
    /\ timedOut   = {}
    /\ crashed    = FALSE
    /\ dangled    = FALSE

(* Deviation: an executor that runs the callbacks of a handle in parallel. *)
NoFrames(h) == {}

(* Callbacks of one handle share one thread: a callback that has not       *)
(* returned keeps every other callback of its handle waiting.              *)
Frames(h) == {p \in Proxies : handleOf[p] = h /\ stage[p] # "idle"}

(***************************************************************************)
(* The executor thread                                                     *)
(***************************************************************************)

(* A ROS 2 client calls the service. *)
ClientSends(r) ==
    /\ ~crashed
    /\ promise[r] = "unborn"
    /\ r \notin inbox
    /\ inbox' = inbox \cup {r}
    /\ UNCHANGED <<stage, current, promisePtr, promise, value, response,
                   receiving, owed, reply, timedOut, crashed, dangled>>

(* Deviation: _handle is aimed at a promise only while it is null.         *)
AimHandleOnce(p, r) ==
    promisePtr' = [promisePtr EXCEPT ![p] = IF @ = Nothing THEN r ELSE @]

(* _handle->promise = &response_promise. *)
AimHandle(p, r) == promisePtr' = [promisePtr EXCEPT ![p] = r]

(* service_callback up to the core's callback: the request is translated,  *)
(* a promise is made on the stack, _handle is aimed at it, and the call is *)
(* handed to the provider together with _handle.                           *)
ServiceCallback(p, r) ==
    /\ ~crashed
    /\ Frames(handleOf[p]) = {}
    /\ r \in inbox
    /\ proxyOf[r] = p
    /\ inbox'      = inbox \ {r}
    /\ stage'      = [stage EXCEPT ![p] = "calling"]
    /\ current'    = [current EXCEPT ![p] = r]
    /\ promise'    = [promise EXCEPT ![r] = "pending"]
    /\ AimHandle(p, r)
    /\ owed'       = owed \cup {r}
    /\ UNCHANGED <<value, response, receiving, reply, timedOut, crashed, dangled>>

(* Deviation: service_callback returns with the core's callback. *)
CallbackReturnsAtOnce(p) ==
    /\ ~crashed
    /\ stage[p] = "calling"
    /\ stage' = [stage EXCEPT ![p] = "idle"]
    /\ UNCHANGED <<inbox, current, promisePtr, promise, value, response,
                   receiving, owed, reply, timedOut, crashed, dangled>>

(* The core's callback returns and wait_for starts. *)
CallbackReturned(p) ==
    /\ ~crashed
    /\ stage[p] = "calling"
    /\ stage' = [stage EXCEPT ![p] = "waiting"]
    /\ UNCHANGED <<inbox, current, promisePtr, promise, value, response,
                   receiving, owed, reply, timedOut, crashed, dangled>>

(* wait_for reports ready. *)
AnswerReady(p) ==
    /\ ~crashed
    /\ stage[p] = "waiting"
    /\ promise[current[p]] = "set"
    /\ stage' = [stage EXCEPT ![p] = "ready"]
    /\ UNCHANGED <<inbox, current, promisePtr, promise, value, response,
                   receiving, owed, reply, timedOut, crashed, dangled>>

(* Deviation: wait() in the place of wait_for(). *)
WaitsForEver(p) == FALSE

(* wait_for reports timeout after 5000 ms; *response keeps its default. *)
AnswerTimesOut(p) ==
    /\ ~crashed
    /\ stage[p] = "waiting"
    /\ promise[current[p]] = "pending"
    /\ stage'    = [stage EXCEPT ![p] = "expired"]
    /\ timedOut' = timedOut \cup {current[p]}
    /\ UNCHANGED <<inbox, current, promisePtr, promise, value, response,
                   receiving, owed, reply, crashed, dangled>>

(* Deviation: without an answer the reply is the _response member. *)
OutcomeOrMember(p) ==
    IF stage[p] = "ready" THEN value[current[p]] ELSE response[p]

(* What service_callback leaves in *response. *)
Outcome(p) == IF stage[p] = "ready" THEN value[current[p]] ELSE Empty

(* service_callback returns: its promise is destroyed, _handle keeps the   *)
(* address, and rclcpp sends *response whatever the outcome was.           *)
ReturnFromCallback(p) ==
    LET r == current[p]
    IN  /\ ~crashed
        /\ stage[p] \in {"ready", "expired"}
        /\ reply'   = [reply EXCEPT ![r] = Outcome(p)]
        /\ promise' = [promise EXCEPT ![r] = "dead"]
        /\ stage'   = [stage EXCEPT ![p] = "idle"]
        /\ current' = [current EXCEPT ![p] = Nothing]
        /\ UNCHANGED <<inbox, promisePtr, value, response, receiving, owed,
                       timedOut, crashed, dangled>>

(***************************************************************************)
(* The provider's thread                                                   *)
(***************************************************************************)

(* The provider will never answer the call of r. *)
ProviderDrops(r) ==
    /\ ~crashed
    /\ r \in owed
    /\ owed' = owed \ {r}
    /\ UNCHANGED <<inbox, stage, current, promisePtr, promise, value, response,
                   receiving, reply, timedOut, crashed, dangled>>

(* Deviation: the provider keeps the call and may answer it again. *)
KeepCall(r) == UNCHANGED owed

(* The provider gives the call handle away with its answer. *)
SpendCall(r) == owed' = owed \ {r}

(* response_to_ros2(result, _response). *)
StoreResponse(p, v) == response' = [response EXCEPT ![p] = v]

(* receive_response(call_handle, result), first half: the result v of call *)
(* r is translated into _response.                                         *)
ReceiveResponse(r, v) ==
    LET p == proxyOf[r]
    IN  /\ ~crashed
        /\ r \in owed
        /\ receiving[p] = Nothing
        /\ SpendCall(r)
        /\ StoreResponse(p, v)
        /\ receiving' = [receiving EXCEPT ![p] = r]
        /\ UNCHANGED <<inbox, stage, current, promisePtr, promise, value,
                       reply, timedOut, crashed, dangled>>

(* std::promise::set_value on the promise of frame f: a second one throws  *)
(* std::future_error, which nothing on the way to the thread catches.      *)
Fulfil(f, v) ==
    \/ /\ promise[f] = "pending"
       /\ promise' = [promise EXCEPT ![f] = "set"]
       /\ value'   = [value EXCEPT ![f] = v]
       /\ UNCHANGED crashed
    \/ /\ promise[f] = "set"
       /\ crashed' = TRUE
       /\ UNCHANGED <<promise, value>>

(* set_value through a pointer to a promise whose frame has returned is    *)
(* undefined behaviour: nothing visible happens, the process dies, or the  *)
(* write hits a promise that lives now, of whatever proxy and handle - the *)
(* frame and the shared state on the heap may both have been used again.   *)
DanglingSetValue(p) ==
    \/ UNCHANGED <<promise, value, crashed>>
    \/ crashed' = TRUE /\ UNCHANGED <<promise, value>>
    \/ \E q \in Proxies : stage[q] # "idle" /\ Fulfil(current[q], response[p])

(* receive_response, second half: handle->promise->set_value(_response). *)
SetValue(p) ==
    /\ ~crashed
    /\ receiving[p] # Nothing
    /\ receiving' = [receiving EXCEPT ![p] = Nothing]
    /\ \/ Fulfil(promisePtr[p], response[p]) /\ UNCHANGED dangled
       \/ /\ promise[promisePtr[p]] = "dead"
          /\ DanglingSetValue(p)
          /\ dangled' = TRUE
    /\ UNCHANGED <<inbox, stage, current, promisePtr, response, owed, reply,
                   timedOut>>

(* spin_once without work, and a process that is gone. *)
ClientIdle ==
    /\ \/ crashed
       \/ inbox = {} /\ \A p \in Proxies : stage[p] = "idle"
    /\ UNCHANGED clientVars

CallbackThread(p) ==
    \/ \E r \in RequestsOf(p) : ServiceCallback(p, r)
    \/ CallbackReturned(p)
    \/ AnswerReady(p)
    \/ AnswerTimesOut(p)
    \/ ReturnFromCallback(p)

ClientNext ==
    \/ \E r \in Requests : \/ ClientSends(r)
                           \/ ProviderDrops(r)
                           \/ ReceiveResponse(r, r)
    \/ \E p \in Proxies : CallbackThread(p) \/ SetValue(p)
    \/ ClientIdle

ClientSpec == ClientInit /\ [][ClientNext]_clientVars

(***************************************************************************)
(* The core calls spin_once of every handle again and again, and 5000 ms   *)
(* pass: the thread of a handle keeps going, with whichever of its         *)
(* callbacks rclcpp takes.  Nothing is assumed of the provider.            *)
(***************************************************************************)
HandleCallbacks(h) == \E p \in Proxies : handleOf[p] = h /\ CallbackThread(p)

ClientFairness == \A h \in Handles : WF_clientVars(HandleCallbacks(h))

FairClientSpec == ClientSpec /\ ClientFairness
-----------------------------------------------------------------------------
Stages == {"idle", "calling", "waiting", "ready", "expired"}

(* Every variable has its type; a proxy works on a request of its own, and *)
(* does so exactly while its callback has not returned.                    *)
ClientTypeOK ==
    /\ inbox      \subseteq Requests
    /\ stage      \in [Proxies -> Stages]
    /\ current    \in [Proxies -> Requests \cup {Nothing}]
    /\ promisePtr \in [Proxies -> Requests \cup {Nothing}]
    /\ promise    \in [Requests -> {"unborn", "pending", "set", "dead"}]
    /\ value      \in [Requests -> Answers]
    /\ response   \in [Proxies -> Answers]
    /\ receiving  \in [Proxies -> Requests \cup {Nothing}]
    /\ owed       \subseteq Requests
    /\ reply      \in [Requests -> Answers \cup {Nothing}]
    /\ timedOut   \subseteq Requests
    /\ crashed    \in BOOLEAN
    /\ dangled    \in BOOLEAN
    /\ \A p \in Proxies :
        /\ stage[p] = "idle" <=> current[p] = Nothing
        /\ current[p] # Nothing => proxyOf[current[p]] = p

(* No request to this proxy has run into the 5000 ms limit, and no         *)
(* set_value, of any proxy, has had undefined behaviour.                   *)
Punctual(p) == ~dangled /\ \A r \in timedOut : proxyOf[r] # p

(* As long as no request to its own proxy has timed out, whatever a ROS 2  *)
(* client receives is the answer to its own request: the single            *)
(* PromiseHolder per proxy is enough for clients that are served one after *)
(* the other, and other proxies can spoil it only through a dead pointer   *)
(* (service_callback, receive_response).                                   *)
OwnAnswer ==
    \A r \in Requests :
        Punctual(proxyOf[r]) => reply[r] \in {Nothing, r}

(* As long as no request to its proxy has timed out, receive_response      *)
(* finds the promise it was called for alive and not yet fulfilled, so     *)
(* set_value neither throws nor writes to a dead stack frame.              *)
LivePromise ==
    \A p \in Proxies :
        (Punctual(p) /\ receiving[p] # Nothing) =>
            /\ promisePtr[p] = receiving[p]
            /\ promise[receiving[p]] = "pending"

(* The process dies of a late answer only: set_value can throw or go       *)
(* through a dead pointer only after some request has timed out.           *)
CrashNeedsTimeout == (crashed \/ dangled) => timedOut # {}

(* The client proxies keep the promises of RequestReply: one reply per     *)
(* request, the own answer before the first timeout of its proxy, then an  *)
(* answer to an earlier request to the same proxy at worst - until a       *)
(* set_value goes through a dead pointer.                                  *)
RR == INSTANCE RequestReply WITH
        asked     <- inbox \cup {r \in Requests : promise[r] # "unborn"},
        outcome   <- reply,
        abandoned <- timedOut,
        broken    <- dangled,
        down      <- crashed,
        groupOf   <- proxyOf

ImplementsRequestReply == RR!RRSpec

(* Every request a ROS 2 client sends is replied to, unless the process    *)
(* dies: no provider, slow, silent or blocked itself, holds a handle's     *)
(* thread for ever (the wait_for in service_callback).                     *)
EveryRequestReplied ==
    \A r \in Requests : (r \in inbox) ~> (reply[r] # Nothing \/ crashed)

(* What the integration tests expect of a reply: the answer the server     *)
(* gave to that request (EXPECT_EQ( *response, plan_response )), as long   *)
(* as the behaviour of the process is defined.                             *)
ReplyMatchesRequest ==
    ~dangled => \A r, q \in Requests : reply[r] = q => q = r
=============================================================================
