--------------------------- MODULE ServiceRoutes ---------------------------
(***************************************************************************)
(* The static part of a service configuration: which system handles run,   *)
(* which services they bridge, and which requests ROS 2 clients send.      *)
(*                                                                         *)
(* A service route of the YAML configuration names one server system and   *)
(* some client systems.  On each client system's handle the core asks for  *)
(* a client proxy (SystemHandle::create_client_proxy), on the server       *)
(* system's handle for a service proxy (create_service_proxy).             *)
(***************************************************************************)
CONSTANTS
    Handles,    \* system handles; each is driven by one thread in spin_once
    Services,   \* bridged services, one ServerProxy each
    Proxies,    \* ClientProxy objects
    Requests,   \* requests ROS 2 clients send, each at most once
    serverOf,   \* the handle that owns a service's ServerProxy
    handleOf,   \* the handle whose node hosts a ClientProxy
    serviceOf,  \* the service a ClientProxy forwards its requests to
    proxyOf,    \* the ClientProxy that receives a request
    Empty,      \* a default-constructed Ros2_Response
    Nothing     \* a null pointer, or an absent value

ASSUME RoutesAssumption ==
    /\ serverOf  \in [Services -> Handles]
    /\ handleOf  \in [Proxies -> Handles]
    /\ serviceOf \in [Proxies -> Services]
    /\ proxyOf   \in [Requests -> Proxies]
    /\ Empty \notin Requests
    /\ Nothing \notin Requests \cup Services \cup {Empty}
    /\ Services \cap Requests = {}

(***************************************************************************)
(* The answer to a request is named after the request, so an answer shows  *)
(* which request it was computed for.                                      *)
(***************************************************************************)
Answers == Requests \cup {Empty}

ServiceOfRequest(r) == serviceOf[proxyOf[r]]
HandleOfRequest(r)  == handleOf[proxyOf[r]]
=============================================================================
