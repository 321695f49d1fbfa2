---------------------------- MODULE SystemHandle ----------------------------
(***************************************************************************)
(* The life of the ROS 2 system handles of one process: configure, the     *)
(* entities the core then asks for, and the end of a handle                *)
(* (src/SystemHandle.cpp), with the Factory singleton that all handles     *)
(* share and that fills as conversion libraries are loaded                 *)
(* (src/Factory.cpp, resources/convert__msg.cpp.em, convert__srv.cpp.em).  *)
(*                                                                         *)
(* The core configures its handles one after the other on one thread.  It  *)
(* asks a configured handle for entities of types it knows: types that     *)
(* configure put into the registry, and types its own YAML declares.       *)
(***************************************************************************)
EXTENDS FiniteSets

CONSTANTS
    Handles,
    MessageTypes,     \* required message types
    RequestTypes,     \* required types "<library>:request"
    ResponseTypes,    \* required types "<library>:response"
    Declared,         \* types that the YAML file declares itself
    Libraries,        \* conversion libraries (mix files)
    libraryOf,        \* the library a type is looked for in
    Nothing

Types == MessageTypes \cup RequestTypes \cup ResponseTypes

ASSUME HandleAssumption ==
    /\ libraryOf \in [Types -> Libraries]
    /\ Declared \subseteq Types
    /\ MessageTypes \cap (RequestTypes \cup ResponseTypes) = {}
    /\ RequestTypes \cap ResponseTypes = {}
    /\ Nothing \notin Handles

VARIABLES
    mix,            \* what the installation has for a library
    phase,          \* how far a handle is
    pending,        \* required types configure has not looked at yet
    success,        \* the variable success of configure
    context,        \* the rclcpp context of a handle's node
    valid,          \* contexts that rclcpp::ok() confirms
    factory,        \* the keys of the Factory's maps
    registry,       \* the TypeRegistry of a handle
    subscriptions,  \* MetaSubscribers, by type, with their deserialiser or none
    publishers,     \* MetaPublishers, by type, with their serialiser or none
    proxies,        \* ClientProxies and ServerProxies, by type
    crashed         \* the process is gone

handleVars == <<mix, phase, pending, success, context, valid, factory, registry,
                subscriptions, publishers, proxies, crashed>>

Maps == {"type", "serialiser", "deserialiser", "subscription", "publisher",
         "client", "server"}

(* The context that rclcpp::init makes for the process; a null context     *)
(* stands for it in rclcpp::ok and rclcpp::shutdown.                       *)
Global == Nothing

HandleInit ==
    /\ mix \in [Libraries -> {"none", "broken", "foreign", "good"}]
    /\ phase         = [h \in Handles |-> "new"]
    /\ pending       = [h \in Handles |-> {}]
    /\ success       = [h \in Handles |-> TRUE]
    /\ context       = [h \in Handles |-> Global]
    /\ valid         = {}
    /\ factory       = [m \in Maps |-> {}]
    /\ registry      = [h \in Handles |-> {}]
    /\ subscriptions = [h \in Handles |-> {}]
    /\ publishers    = [h \in Handles |-> {}]
    /\ proxies       = [h \in Handles |-> {}]
    /\ crashed       = FALSE

Configuring == {h \in Handles : phase[h] \in {"messages", "services"}}

(***************************************************************************)
(* configure                                                               *)
(***************************************************************************)

(* Deviation: every node lives in the global context. *)
SharedContext(h) == Global

(* create_node makes a context of its own for the node of handle h. *)
NodeContext(h) == h

(* configure up to its loops: rclcpp::init unless the global context is up *)
(* already, then create_node.                                              *)
BeginConfigure(h) ==
    /\ ~crashed
    /\ phase[h] = "new"
    /\ Configuring = {}
    /\ phase'   = [phase EXCEPT ![h] = "messages"]
    /\ pending' = [pending EXCEPT ![h] = MessageTypes]
    /\ success' = [success EXCEPT ![h] = TRUE]
    /\ context' = [context EXCEPT ![h] = NodeContext(h)]
    /\ valid'   = valid \cup {Global, NodeContext(h)}
    /\ UNCHANGED <<mix, factory, registry, subscriptions, publishers, proxies,
                   crashed>>

(* Deviation: a message library registers no deserialiser. *)
TypeAndSerialiser(m) == IF m \in {"type", "serialiser"} THEN MessageTypes ELSE {}

(* The names that the FactoryRegistrar objects of the message libraries    *)
(* register in map m ...                                                   *)
MessageKeys(m) ==
    IF m \in {"type", "serialiser", "deserialiser"} THEN MessageTypes ELSE {}

(* Deviation: a service library registers no response type. *)
RequestTypeOnly(m) == IF m = "type" THEN RequestTypes ELSE {}

(* ... those of the service libraries: both types, the client proxy under  *)
(* g_response_name and the server proxy under g_request_name.              *)
ServiceKeys(m) == IF m = "type" THEN RequestTypes \cup ResponseTypes ELSE {}

(* Deviation: the client proxy is registered under g_request_name. *)
ClientUnderRequest(m) == IF m = "client" THEN RequestTypes ELSE {}

ClientKeys(m) == IF m = "client" THEN ResponseTypes ELSE {}

ServerKeys(m) == IF m = "server" THEN RequestTypes ELSE {}

(* What library l registers in map m when it is loaded. *)
KeysOf(m, l) ==
    {t \in MessageKeys(m) \cup ServiceKeys(m) \cup ClientKeys(m) \cup ServerKeys(m) :
        libraryOf[t] = l}

(* The maps after the registrars of library l have run: a key that is       *)
(* registered again keeps its place, and none is ever removed.             *)
Registrations(l) == [m \in Maps |-> factory[m] \cup KeysOf(m, l)]

(* A library that was built for something else registers none of our types. *)
LoadMix(l) ==
    factory' = IF mix[l] = "good" THEN Registrations(l) ELSE factory

(* What Factory's create_... and get_... functions answer for type t in    *)
(* the map m: its entry, or null.                                          *)
Found(m, t) == t \in factory[m]

(* success = register_type(t), with the type that Factory::create_type     *)
(* finds once the library is loaded.                                       *)
RegisterType(h, t) ==
    /\ registry' = [registry EXCEPT ![h] =
                        IF Found("type", t)' THEN @ \cup {t} ELSE @]
    /\ success'  = [success EXCEPT ![h] = Found("type", t)']

(* One round of the loop over the messages, or over the services. *)
ConfigureType(h, t) ==
    LET l == libraryOf[t]
    IN  /\ ~crashed
        /\ phase[h] \in {"messages", "services"}
        /\ t \in pending[h]
        /\ pending' = [pending EXCEPT ![h] = @ \ {t}]
        /\ \/ /\ mix[l] \in {"none", "broken"}
              /\ success' = [success EXCEPT ![h] = FALSE]
              /\ UNCHANGED <<factory, registry>>
           \/ /\ mix[l] \notin {"none", "broken"}
              /\ LoadMix(l)
              /\ RegisterType(h, t)
        /\ UNCHANGED <<mix, phase, context, valid, subscriptions, publishers,
                       proxies, crashed>>

MessagesDone(h) ==
    /\ ~crashed
    /\ phase[h] = "messages"
    /\ pending[h] = {}
    /\ phase'   = [phase EXCEPT ![h] = "services"]
    /\ pending' = [pending EXCEPT ![h] = RequestTypes \cup ResponseTypes]
    /\ UNCHANGED <<mix, success, context, valid, factory, registry,
                   subscriptions, publishers, proxies, crashed>>

(* return success. *)
EndConfigure(h) ==
    /\ ~crashed
    /\ phase[h] = "services"
    /\ pending[h] = {}
    /\ phase' = [phase EXCEPT ![h] = IF success[h] THEN "configured" ELSE "failed"]
    /\ UNCHANGED <<mix, pending, success, context, valid, factory, registry,
                   subscriptions, publishers, proxies, crashed>>

(***************************************************************************)
(* The entities of a configured handle                                     *)
(***************************************************************************)
Knows(h, t) == t \in registry[h] \cup Declared

Running(h) == ~crashed /\ phase[h] = "configured" /\ Configuring = {}

(* subscribe: make_meta_subscriber looks its deserialiser up, and never    *)
(* returns null.                                                           *)
Subscribe(h, t) ==
    /\ Running(h)
    /\ t \in MessageTypes /\ Knows(h, t)
    /\ subscriptions' = [subscriptions EXCEPT ![h] = @ \cup
            {[type |-> t, converter |-> Found("deserialiser", t)]}]
    /\ UNCHANGED <<mix, phase, pending, success, context, valid, factory,
                   registry, publishers, proxies, crashed>>

(* advertise, likewise with a serialiser. *)
Advertise(h, t) ==
    /\ Running(h)
    /\ t \in MessageTypes /\ Knows(h, t)
    /\ publishers' = [publishers EXCEPT ![h] = @ \cup
            {[type |-> t, converter |-> Found("serialiser", t)]}]
    /\ UNCHANGED <<mix, phase, pending, success, context, valid, factory,
                   registry, subscriptions, proxies, crashed>>

(* create_client_proxy, for a reply type, and create_service_proxy, for a  *)
(* request type; both report a type that the Factory cannot find.          *)
CreateProxy(h, t) ==
    /\ Running(h)
    /\ Knows(h, t)
    /\ \/ t \in ResponseTypes /\ Found("client", t)
       \/ t \in RequestTypes /\ Found("server", t)
    /\ proxies' = [proxies EXCEPT ![h] = @ \cup {t}]
    /\ UNCHANGED <<mix, phase, pending, success, context, valid, factory,
                   registry, subscriptions, publishers, crashed>>

(* A message arrives on a subscription, or is published, for which the     *)
(* Factory had no converter: a null std::function is called.               *)
UseNullConverter(h) ==
    /\ Running(h)
    /\ \E e \in subscriptions[h] \cup publishers[h] : ~e.converter
    /\ crashed' = TRUE
    /\ UNCHANGED <<mix, phase, pending, success, context, valid, factory,
                   registry, subscriptions, publishers, proxies>>

(* Deviation: the subscriptions of a handle outlive it. *)
DestroyLater(h) ==
    /\ ~crashed
    /\ Configuring = {}
    /\ phase[h] # "destroyed"
    /\ phase'      = [phase EXCEPT ![h] = "destroyed"]
    /\ publishers' = [publishers EXCEPT ![h] = {}]
    /\ proxies'    = [proxies EXCEPT ![h] = {}]
    /\ valid'      = valid \ {context[h]}
    /\ UNCHANGED <<mix, pending, success, context, factory, registry,
                   subscriptions, crashed>>

(* ~SystemHandle, also of a handle that was never configured.  The core    *)
(* owns publishers and server proxies and lets go of them with the handle. *)
Destroy(h) ==
    /\ ~crashed
    /\ Configuring = {}
    /\ phase[h] # "destroyed"
    /\ phase'         = [phase EXCEPT ![h] = "destroyed"]
    /\ subscriptions' = [subscriptions EXCEPT ![h] = {}]
    /\ publishers'    = [publishers EXCEPT ![h] = {}]
    /\ proxies'       = [proxies EXCEPT ![h] = {}]
    /\ valid'         = valid \ {context[h]}
    /\ UNCHANGED <<mix, pending, success, context, factory, registry, crashed>>

HandleNext ==
    \E h \in Handles :
        \/ BeginConfigure(h)
        \/ MessagesDone(h)
        \/ EndConfigure(h)
        \/ UseNullConverter(h)
        \/ Destroy(h)
        \/ \E t \in Types : \/ ConfigureType(h, t)
                            \/ Subscribe(h, t)
                            \/ Advertise(h, t)
                            \/ CreateProxy(h, t)

HandleSpec == HandleInit /\ [][HandleNext]_handleVars
-----------------------------------------------------------------------------
(* okay(): there is a node and its context has not been shut down. *)
Okay(h) == phase[h] \notin {"new", "destroyed"} /\ context[h] \in valid

Entities == [type : MessageTypes, converter : BOOLEAN]

(* Every variable has its type, a handle has a context of its own from the *)
(* time it has a node, and keeps entities only while it is configured.     *)
HandleTypeOK ==
    /\ mix           \in [Libraries -> {"none", "broken", "foreign", "good"}]
    /\ phase         \in [Handles -> {"new", "messages", "services",
                                      "configured", "failed", "destroyed"}]
    /\ pending       \in [Handles -> SUBSET Types]
    /\ success       \in [Handles -> BOOLEAN]
    /\ context       \in [Handles -> Handles \cup {Global}]
    /\ valid         \subseteq Handles \cup {Global}
    /\ factory       \in [Maps -> SUBSET Types]
    /\ registry      \in [Handles -> SUBSET Types]
    /\ subscriptions \in [Handles -> SUBSET Entities]
    /\ publishers    \in [Handles -> SUBSET Entities]
    /\ proxies       \in [Handles -> SUBSET (RequestTypes \cup ResponseTypes)]
    /\ crashed       \in BOOLEAN
    /\ \A h \in Handles :
        /\ phase[h] \notin {"new", "destroyed"} => context[h] = NodeContext(h)
        /\ phase[h] # "configured" =>
                subscriptions[h] \cup publishers[h] \cup proxies[h] = {}

(* The end of one handle never takes another one down, be it configured or *)
(* not: the comment in create_node promises isolation between the nodes.   *)
HandlesAreIsolated ==
    [][\A h \in Handles :
        (Okay(h) /\ phase'[h] # "destroyed") => Okay(h)']_handleVars

(* configure does not fail on a sound installation: if it reports a        *)
(* failure, the library of some required type is missing, broken or not    *)
(* the right one.                                                          *)
FailureHasReason ==
    \A h \in Handles :
        phase[h] = "failed" => \E t \in Types : mix[libraryOf[t]] # "good"

(* The process calls a null converter only if some configured handle lacks *)
(* a type it was required to have: configure had met that failure, and a   *)
(* later round of its loops overwrote success.                             *)
CrashNeedsLostFailure ==
    crashed => \E h \in Handles :
        phase[h] = "configured" /\ MessageTypes \ registry[h] # {}

(* What configure has registered can be used: the Factory has converters   *)
(* for every message type in a registry, and finds the proxy of a service  *)
(* type under the name that the core asks with (SystemHandle.hpp passes    *)
(* the reply type to one factory and the request type to the other).       *)
RegisteredTypesAreUsable ==
    \A h \in Handles : \A t \in registry[h] :
        /\ t \in MessageTypes =>
                Found("serialiser", t) /\ Found("deserialiser", t)
        /\ t \in ResponseTypes => Found("client", t)
        /\ t \in RequestTypes => Found("server", t)

(* "Configured!" (SystemHandle.cpp:416): a handle that reports success has *)
(* registered the required messages and services within the TypeRegistry.  *)
ConfiguredHasTypes ==
    \A h \in Handles : phase[h] = "configured" => Types \subseteq registry[h]
=============================================================================
