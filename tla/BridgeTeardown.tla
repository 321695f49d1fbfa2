--------------------------- MODULE BridgeTeardown ---------------------------
(***************************************************************************)
(* ServiceBridge with its end.  The core is told to quit, or a handle's    *)
(* ROS 2 context is shut down (by a signal, say) so that its spin_once     *)
(* returns false.  The thread returns from the spin_once it is in, which   *)
(* may execute one callback more, and ends; the core waits for all threads *)
(* and then destroys the handles, one after the other.                     *)
(*                                                                         *)
(* The response callback of a ServerProxy has only the address of the      *)
(* ClientProxy that waits for it, and the promise of a ClientProxy is      *)
(* fulfilled by another handle's thread, which may have ended already.     *)
(***************************************************************************)
EXTENDS ServiceBridge

VARIABLES
    ending,     \* handles whose loop ends when spin_once returns next
    mayStart,   \* handles whose thread may start another callback
    running,    \* handles whose thread has not ended
    destroyed   \* handles that are gone, with their proxies

endVars == <<ending, mayStart, running, destroyed>>

teardownVars == <<vars, endVars>>

TeardownInit ==
    /\ Init
    /\ ending    = {}
    /\ mayStart  = Handles
    /\ running   = Handles
    /\ destroyed = {}

(* Deviation: a thread that calls spin() goes on taking callbacks. *)
SpinOn(h) ==
    /\ h \in running
    /\ ClientThread(h) \/ ServerThread(h)
    /\ UNCHANGED endVars

(* A step of the thread that calls spin_once of h.  A thread that has not  *)
(* noticed the end yet may be inside spin_once, waiting, and start one     *)
(* callback more.                                                          *)
SpinOnce(h) ==
    /\ h \in running
    /\ ThreadFree(h) => h \in mayStart
    /\ ClientThread(h) \/ ServerThread(h)
    /\ mayStart' = IF h \in ending THEN mayStart \ {h} ELSE mayStart
    /\ UNCHANGED <<ending, running, destroyed>>

(* InstanceHandle::quit(). *)
Quit ==
    /\ ~crashed
    /\ ending # Handles
    /\ ending' = Handles
    /\ UNCHANGED <<vars, mayStart, running, destroyed>>

(* rclcpp::shutdown, by a signal handler or by other code in the process,  *)
(* of the context of handle h.                                             *)
ContextShutDown(h) ==
    /\ ~crashed
    /\ h \notin ending
    /\ ending' = ending \cup {h}
    /\ UNCHANGED <<vars, mayStart, running, destroyed>>

(* spin_once has returned rclcpp::ok(_context), and the loop around it     *)
(* ends because of that or because the core has been told to quit.         *)
ThreadEnds(h) ==
    /\ ~crashed
    /\ h \in ending
    /\ h \in running
    /\ ThreadFree(h)
    /\ running' = running \ {h}
    /\ UNCHANGED <<vars, ending, mayStart, destroyed>>

(* The core has joined the threads and lets go of handle h, whose          *)
(* destructor gives up its proxies and its context.                        *)
DestroyHandle(h) ==
    /\ ~crashed
    /\ running = {}
    /\ h \notin destroyed
    /\ destroyed' = destroyed \cup {h}
    /\ UNCHANGED <<vars, ending, mayStart, running>>

(* What happens outside the handles' threads.  A service that is gone      *)
(* receives no request.                                                    *)
Outside ==
    /\ \/ \E r \in Requests : HandleOfRequest(r) \notin destroyed /\ Sends(r)
       \/ Environment
       \/ Idle
    /\ UNCHANGED endVars

TeardownNext ==
    \/ \E h \in Handles :
        SpinOnce(h) \/ ContextShutDown(h) \/ ThreadEnds(h) \/ DestroyHandle(h)
    \/ Quit
    \/ Outside

TeardownSpec == TeardownInit /\ [][TeardownNext]_teardownVars

(* As in ServiceBridge, a thread goes on while it has something to do, and *)
(* the core goes on with the teardown.                                     *)
TeardownFairness ==
    \A h \in Handles :
        /\ WF_teardownVars(SpinOnce(h) \/ ThreadEnds(h))
        /\ WF_teardownVars(DestroyHandle(h))

FairTeardownSpec == TeardownSpec /\ TeardownFairness
-----------------------------------------------------------------------------
(* A handle is destroyed only when no service callback of any handle is    *)
(* left waiting, no response callback holds the address of one of its      *)
(* client proxies, and nobody is inside the call_service of its server     *)
(* proxies (spin_once, ~SystemHandle; the address is call_service's        *)
(* ptr_to_is_client).                                                      *)
DestroyedIsUnused ==
    \A h \in destroyed :
        /\ \A p \in Proxies :
            handleOf[p] = h \/ serverOf[serviceOf[p]] = h => stage[p] = "idle"
        /\ \A s \in Services :
            delivering[s] # Nothing =>
                h \notin {serverOf[s], HandleOfRequest(delivering[s])}

(* How many steps of its own thread the running service callback of proxy  *)
(* p takes to return, at most: three in call_service, fewer when the       *)
(* request finds no server, then its return, wait_for and the end.         *)
FrameSteps(p) ==
    CASE stage[p] = "calling" /\ callState[current[p]] = "new"    -> 6
      [] stage[p] = "calling" /\ callState[current[p]] = "popped" -> 5
      [] stage[p] = "calling" /\ callState[current[p]] = "filled" -> 4
      [] stage[p] = "calling"
            /\ callState[current[p]] \notin {"new", "popped", "filled"} -> 3
      [] stage[p] = "waiting" -> 2
      [] stage[p] \in {"ready", "expired"} -> 1

(* And the response callback of service s: set_value, if it is still to    *)
(* come, and the recycling.                                                *)
DeliverySteps(s) ==
    IF receiving[proxyOf[delivering[s]]] = delivering[s] THEN 2 ELSE 1

(* The steps that the callback of handle h has left, if one runs. *)
CallbackSteps(h) ==
    IF Frames(h) # {} THEN FrameSteps(CHOOSE p \in Frames(h) : TRUE)
    ELSE IF Deliveries(h) # {} THEN DeliverySteps(CHOOSE s \in Deliveries(h) : TRUE)
    ELSE 0

(* The steps that the thread of handle h has left once its loop is to end: *)
(* those of its callback, those of one callback more that the spin_once it *)
(* is in may take, and the end of the loop.                                *)
StepsToEnd(h) ==
    CallbackSteps(h) + (IF h \in mayStart THEN 7 ELSE 0)
                     + (IF h \in running THEN 1 ELSE 0)

(* After quit(), or once its own context is shut down, a thread has a      *)
(* bounded number of steps left: each one that it takes uses some up, and  *)
(* nothing that other threads, ROS 2 clients or servers do ever gives it   *)
(* more (spin_once, service_callback, call_service and _wait_for_response  *)
(* never wait for another thread).                                         *)
ThreadsRunOut ==
    [][\A h \in Handles :
          h \in ending =>
            /\ StepsToEnd(h)' <= StepsToEnd(h)
            /\ SpinOnce(h) => StepsToEnd(h)' < StepsToEnd(h)]_teardownVars

(* The end of the instance waits for nobody for ever: not for a thread     *)
(* whose answer would have come from one that has ended (service_callback, *)
(* spin_once).  The integration tests wait one minute for it.              *)
QuitEnds == ending = Handles ~> (destroyed = Handles \/ crashed)
=============================================================================
