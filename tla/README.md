# ROS2-SH: formal models

TLA+ models of the ROS 2 System Handle of the Integration Service: the plugin
that connects ROS 2 to the Integration Service core. The models are checked
with TLC on small instances, and every safety property that holds is also proved
with TLAPS for all instances. `PROJECT.json` lists the runs, the mutated
definitions that show each property can fail, the lines of code behind every
definition, the hazards and the findings.

## 1. The system

A process of the Integration Service core loads one **system handle** per
middleware named in its YAML file. Each ROS 2 handle has a node, a context and a
single-threaded executor of its own, and the core drives each handle on its own
thread by calling `spin_once` in a loop. Handles of several ROS 2 domains may
live in one process.

| Component | State | Operations | Talks to |
|---|---|---|---|
| `SystemHandle` (`ros2/src/SystemHandle.cpp`) | context, node, executor, subscriptions, client proxies | `configure`, `spin_once`, `okay`, `subscribe`, `advertise`, `create_client_proxy`, `create_service_proxy`, destructor | core (called by), Factory, rclcpp |
| QoS parsing (same file, 39-195) | none: from a YAML map to an `rclcpp::QoS` | `parse_rmw_qos_configuration` | every entity that is made |
| `Factory` (`ros2/src/Factory.cpp`) | seven maps from type names to functions, one per process | `register_…`, `create_…`, `get_…` | conversion libraries (register when loaded), SystemHandle |
| `MetaPublisher`, `MetaSubscriber` (`ros2/src/MetaPublisher.cpp`) | topic, type, converter pointer | `publish`, `subscription_callback` | rclcpp, the core's callbacks |
| `ClientProxy` (`resources/convert__srv.cpp.em`) | `_handle` (one promise pointer), `_response`, `_request_data` | `service_callback`, `receive_response` | rclcpp service, any service provider |
| `ServerProxy` (same file) | request pool, response pool | `call_service`, `_wait_for_response` | rclcpp client, any service client |
| Conversion libraries (`resources/*.em`) | none | registrars on load, field by field conversion | Factory |
| Library generation (`scripts/`, `cmake/`, `utils/`) | a stack of packages and what was found of them; files | package traversal (`is_ros2_rosidl_find_package_info.py`), template expansion | build system |

How a service call crosses the bridge: a ROS 2 client calls the service that a
`ClientProxy` offers; its `service_callback`, on the thread of its handle, puts a
promise on the stack, aims `_handle` at it and calls the core, which calls
`call_service` of the route's provider on the same thread; the callback then
blocks for up to 5000 ms. If the provider is a `ServerProxy` of another handle,
the answer comes on that handle's thread in `_wait_for_response`, which calls
`receive_response` of the client proxy, which fulfils the promise that `_handle`
points at. How a message crosses it: `subscription_callback` on the thread of
the subscribing handle calls `publish` of every target of the route.

What is hard here: one promise pointer serves all calls of a proxy and outlives
the promise; threads of several handles meet in a `ServerProxy`; a handle's only
thread blocks in a callback while its answers, and those of others, wait for it;
`configure` goes on after failures and keeps one flag; one `Factory` serves all
handles; routes may lead both ways between domains; histories overflow; when the
core quits or contexts are shut down, threads end one by one while answers are
still on their way to callbacks of others; packages of message definitions may
depend on each other. What makes each part correct is stated in section 3; the
list of hazards, each at its line, is in `PROJECT.json`.

## 2. Modules

- `ServiceRoutes` – the constants of a service configuration (handles,
  services, proxies, requests and who belongs to whom) and their assumptions.
- `ClientProxy` – the client proxies of all handles against *any* provider:
  it may answer a call once, at any time, in any order, or never.
- `RequestReply` – the abstract specification: what ROS 2 clients observe, before
  and after the first timeout of a proxy and after something has broken.
- `ServerProxy` – the server proxies with their pools, called from any thread.
- `ServiceBridge` – both, joined the way the core joins them, one thread per
  handle for the callbacks of both kinds.
- `BridgeTeardown` – `ServiceBridge` until its end: the core quits, or contexts are
  shut down; each thread returns from its last `spin_once`, and the handles are
  destroyed.
- `QoSProfile` – the parse of a QoS map, key by key.
- `SystemHandle` – the life cycle of several handles with the shared Factory.
- `TopicBridge` – a topic bridged between handles, possibly both ways.
- `TopicRelay` – the abstract specification of that: per secluded handle (one that
  hears no publication of the bridge) and target of its route, messages in their
  order, each at most once, none skipped unless `Depth` newer ones of its channel
  exist. No histories, callbacks or threads.
- `PackageTraversal` – the search for the packages a conversion library needs.
- `ClientProxyProofs`, `ServerProxyProofs`, `ServiceBridgeProofs`,
  `BridgeTeardownProofs`, `QoSProofs`, `SystemHandleProofs`, `TopicBridgeProofs`,
  `PackageTraversalProofs` – the theorems about the module each is named after.
- `MCClientProxy`, `MCServerProxy`, `MCServiceBridge`, `MCBridgeTeardown`,
  `MCSystemHandle`, `MCTopicBridge`, `MCPackageTraversal` – the instances that TLC
  checks (`QoSProfile` needs none).

`BridgeTeardown` EXTENDS `ServiceBridge`, which EXTENDS `ClientProxy` and
`ServerProxy`, whose variables are disjoint: every action of it is a conjunction
of one action of each, or an action of one and a stutter of the other.
Definitions marked "Deviation" are not part of the model: each is a definition
of the model with a plausible bug in it, and replaces it to show that a property
notices.

### From code to model

| Model | Code |
|---|---|
| `ServiceCallback(p, r)` | `service_callback` up to the core's callback; the request leaves the rclcpp queue, `promise[r]` is the `std::promise` on its stack |
| `stage[p]` | where the callback is: in the core (`calling`), in `wait_for`, after it |
| `promisePtr[p]` | `_handle->promise`, as the request whose frame it points into; never reset, as in the code |
| `ReceiveResponse`, `SetValue` | `receive_response`, split between the write of `_response` and `set_value`, where other threads may step in |
| `Fulfil`, `DanglingSetValue` | `std::promise::set_value`: fulfils, throws (and ends the process, for nothing catches), or goes through a pointer to a dead promise |
| `dangled` | history variable: such a `set_value` has happened, somewhere in the process |
| `owed` | call handles that a provider still has |
| `PopRequest`, `FillRequest`, `SendRequest` | `call_service`, split where another thread may step in |
| `content[m]`, `held[r]` | a pooled request message and the call that uses it |
| `TakeResponse`, `Recycle` | `_wait_for_response` before and after its call of `receive_response` |
| `BeginConfigure` … `EndConfigure` | `configure`: context and node, one `ConfigureType` per required type, the result |
| `context`, `valid` | rclcpp contexts; `Global` is the one that a null `_context` stands for |
| `factory[m]` | the keys of a map of the Factory; libraries register when loaded |
| `UseNullConverter` | the first message for an entity whose converter is null |
| `queue[h]`, `KeepLast` | the history of a handle's subscription |
| `relayed[h][g]` | what handle `g` has published for messages that `h` received (`publish`, called from `subscription_callback` through the core) |
| `IsInternal(h)` | `is_internal_message`, which the core asks before it forwards |
| `SpinOnce(h)`, `mayStart` | a step of the thread that calls `spin_once` of `h`; once its loop is to end, it may still start the callback of the `spin_once` it is in |
| `Quit`, `ContextShutDown(h)`, `ending` | why a loop ends: `InstanceHandle::quit()`, or `spin_once` returns `rclcpp::ok(_context)` (`SystemHandle.cpp:437`), false once a signal or other code has shut the context of `h` down |
| `ThreadEnds`, `DestroyHandle` | the core's loop around `spin_once` ends; the core lets go of a handle after all threads have been joined (both external) |
| `queue`, `inspected` | `package_queue` (its end first) and the keys of `inspected_packages` |
| `Hidden(f)` | a field that `find_package_info` passes over: in an `.idl` file anything but a `NamespacedType` member, so every sequence and array |
| `Entries(p)`, `Listings(E)` | `info.dependencies` of a package: one entry per field, also for fields of one type or package; in any order, for `glob` yields the files in any |
| `PackageNotFound` | `get_package_share_directory` raises, which nothing catches |
| `Subscriptions(c, own)` | who hears a publication on channel `c`: handles with a route that starts there, and not the publishing handle itself (`ignore_local_publications`) |

Abstractions. An answer is named after the request it was computed for, a
default-constructed response is `Empty`; field values are left out, so a
conversion is the overwriting of its target. `_request_data` is written and read
within one uninterrupted callback of one thread and is left out. The value of
`get()` is read from the promise directly. A late `set_value` through a dangling
pointer is undefined behaviour; the model lets it do nothing visible, end the
process, or hit any promise that is alive then, of whatever proxy and handle:
the stack frame may have been used again, and so may the promise's shared state
on the heap. This is still a choice of outcomes (the memory could also belong to
something that is not modelled), so `dangled` remembers that it has happened,
and what the properties say of the answers after it is no more than
`RequestReply` allows when `broken`. Pools are atomic, as
`utils::SharedResourcePool` promises. A library is absent, not loadable,
loadable but built for something else (`foreign`), or `good`, and does not
change while the process runs. rclcpp, the middleware, the core and ROS 2 nodes
outside the bridge are external and are modelled by what this code relies on:
one callback per executor at a time; an answer to `async_send_request` at most
once; handles configured one after the other; entities asked for only with types
that are in the registry or declared in the YAML file; at the end, all threads
joined before any handle is destroyed. `PackageTraversal` leaves primitive
fields out, and treats the fields of a package as given: parsing the files
cannot fail. Its lists of dependencies may mix the fields of several files,
which the code does not do; that only adds behaviours. `TopicBridge` allows
every route. `ignore_local_publications` hides a publication from the
subscriptions of its own participant only, so of two handles that share a domain
one hears what the bridge publishes through the other, and nothing in the code
prevents it (the comment at `SystemHandle.cpp:486-488` speaks of one
participant). Handles on whose channel no other handle publishes are `Secluded`;
the properties of the relay are about those, and the instance has one that is
not.

## 3. Runs

TLC needs no symmetry in any run. `CHECK_DEADLOCK FALSE` stands only where the
system really ends: all handles destroyed or the process gone (`SystemHandle`),
all `MaxMessages` messages through (`TopicBridge`), the script finished
(`PackageTraversal`). In the other models idling
is an action or there is always something to do.

| Run | Shows |
|---|---|
| `client_proxy` | `OwnAnswer`: until the first timeout of its proxy, and as long as no `set_value` anywhere has gone through a dead promise, a client only gets its own answer. `LivePromise`: until then `receive_response` finds its own promise alive and unfulfilled. `CrashNeedsTimeout`: the process dies of late answers only, and they alone go through dead promises. `ImplementsRequestReply`: what clients may get, then and afterwards, as a refinement. `EveryRequestReplied`: no silent provider holds a client for ever. |
| `client_proxy_replies` | violated: `ReplyMatchesRequest`, what the integration test expects. Counterexample: r1 times out; r2 is taken; the answer to r1 arrives and is sent to r2's client. |
| `server_proxy` | `ExclusiveRequest`: no two open calls share a request message and none is in the pool. `WireCarriesOwnRequest`, `SentRequestUntouched`: a message is sent with its own call's content and not written before its answer. `NoMessageIsLost`: every message made is in its own proxy's pool or with one of that proxy's calls, so a pool never needs more messages than there are calls without an answer. `OneResponseValue`: the response pool never grows. |
| `bridge_crossed` | Two handles that serve each other. `ImplementsClientProxies`: the composition is a `ClientSpec`, so its properties, `OwnAnswer` among them, hold of the real provider. `EveryRequestReplied`, `EveryAnswerDelivered`: the mutual wait ends. |
| `bridge_teardown` | Two handles that call one service proxy at once while all three handles end, at any moment, told to by the core or each because its context is shut down. `ImplementsClientProxies`: the clients still get what they get otherwise. `DestroyedIsUnused`: no handle is destroyed while a callback waits for it or holds a pointer to one of its client proxies (`ptr_to_is_client` in `call_service`). `QuitEnds`: the end waits for nobody for ever. `ThreadsRunOut`: once its loop is to end, a thread has a bounded number of steps left, which each of its steps lowers and nothing that others do raises. |
| `qos_profile` | `PoliciesAreIndependent`: over every edit of a configuration, a policy's fields change only if one of its own keys does. |
| `qos_keep_all` | violated: `KeepAllIsKept`, by a `depth` next to `KEEP_ALL`. |
| `qos_lease` | violated: `LeaseIsTaken`, by any lease whose `sec` and `nanosec` differ, the README's example among them. |
| `system_handle` | `HandlesAreIsolated`: the end of a handle, configured or not, leaves the others okay. `FailureHasReason`: `configure` fails only for a bad library. `CrashNeedsLostFailure`: a null converter is called only where `configure` lost a failure. `RegisteredTypesAreUsable`: what is in the registry can be converted and its proxies found under the names the core uses. |
| `handle_configured` | violated: `ConfiguredHasTypes`; a library is missing, a later one is there, and `configure` returns true. |
| `topic_bridge` | For handles that are secluded, with another one beside them that echoes. `NoEcho`: what is published for a handle entered the system in its own domain, so nothing that the bridge published goes on or back through it. `OrderIsKept`: per handle and target, order survives overflow and parallel publishers, and nothing is published twice. `LossIsOverflow`: a message that is neither waiting, being forwarded nor forwarded has been overtaken by `Depth` newer ones of its channel. `NewestIsHeard`: the newest message gets through. `ImplementsTopicRelay`: the safety side as a refinement. |
| `package_traversal` | `FindsNeeded`: what is printed is needed, by fields of whatever form, and a needed package is missed only where every field that leads to it from a printed one is a sequence or array in an `.idl` file. `FailsForMissing`: the script fails if and only if a package that its search reaches is missing, in whatever order it reads. `FilesCoverTypes`: with each file that CMake watches it watches that of every field's type, with the same exception. `TraversalEnds`: also for packages that depend on each other. `StepsRunOut`: every step, also one that makes the list of packages longer, lowers a bound on the steps left. |

Each module with several variables has one type invariant (`ClientTypeOK`,
`ServerTypeOK`, `HandleTypeOK`, `TopicTypeOK`, `TraversalTypeOK`) that also states
which variables go together.

Met while modelling, and without a run:

- `subscribe` reports "has not been registered within the subscription factory" when
  `make_meta_subscriber` returns null (`SystemHandle.cpp:461-467`), which it never
  does, so a type without deserialiser is accepted and ends the process with its
  first message (`UseNullConverter`).
- A package that only sequences or arrays of `.idl` definitions refer to is neither
  printed as a dependency nor are its files watched
  (`is_ros2_rosidl_find_package_info.py:57, 85`), although
  `is_ros2_rosidl_mix.cmake:37-40` says that any package a message depends on is
  searched for. `FindsNeeded` and `FilesCoverTypes` state this exception; without it
  both are false.
- A liveliness lease given by `nanosec` alone, which the repository's
  `README.md:116-117` allows, makes `SystemHandle.cpp:182` throw; `Throws` of
  `QoSProfile` has it, and the run `qos_lease` shows what the same line does otherwise.
- A handle that shares its domain with another one, to which a route leads, sends
  back what the bridge publishes there (see Abstractions). `NoEcho` without its
  restriction to `Secluded` is false in the instance of `topic_bridge`.

### Bounds

- `client_proxy`: two handles and three proxies, two of them on one handle; two
  requests to the first proxy and one to each of the others. A late answer needs
  one request to expire and one to meet it; the others let it go through a dead
  promise while a callback of another proxy runs on the same handle, or on another.
  `client_proxy_replies` does without the fourth request.
- `server_proxy`: two services on one handle, three calls from two handles on
  one pool that starts with one message (so the pool runs empty, grows and hands
  out old messages), and one call whose answer competes for the thread.
- `bridge_crossed`: two proxies and three requests, two of them of one proxy; the
  smallest instance in which two threads wait for each other, and a late answer
  meets a later call.
- `bridge_teardown`: two proxies of two handles with a request each, to one
  service of a third handle. The requests meet in the pool of one server proxy;
  the server's handle may end before, between and after its two answers, and each
  of the callers before the other.
- `qos_profile`: two numbers besides "absent" and "malformed", and at most
  `MaxKeys` = 4 keys given at once. A policy has at most three keys, so every
  policy is complete together with a key of another.
- `system_handle`: two handles, two message types in two libraries and one
  service; a failure can come before or after a success, in one loop or across
  both. One message type is also declared in YAML.
- `topic_bridge`: three domains and four handles. Routes lead both ways between ha
  and hb, where an echo could arise, from ha to hc, where nobody subscribes, and
  from hd, which shares the domain of hb, to ha: two threads publish copies of one
  message through one handle, and hd, the only handle that is not secluded, hears
  what hb publishes and sends it back. `Depth` 2 and `MaxMessages` bound the rest; a
  history overflows while a callback runs.
- `package_traversal`: three packages with five definitions, two of them `.idl`
  files alone, and every choice of `MaxFields` = 4 fields, several of which may be
  alike, or none. Four fields are enough for a cycle through all three packages and
  one more dependency, for two ways to one package, for a package entered more often
  than there are packages, and for one only a service or a sequence refers to.

### Fairness

`FairClientSpec` and `FairSpec` assume weak fairness of the thread of each
handle: the core calls `spin_once` for ever and 5000 ms pass. Nothing is assumed
of ROS 2 clients and servers, or of which waiting callback the executor takes.
Requests are finitely many in a run; with an endless stream of requests a
callback could wait longer, which the code does not rule out either.
`FairTopicSpec` assumes the same of the threads of `TopicBridge`.
`FairTeardownSpec` assumes that each thread goes on with its callback and then
ends, and that the core destroys the handles once all threads are joined; it
does not assume that the core ever quits or that a context is ever shut down.
`FairTraversalSpec` assumes that the script runs; it has one thread and waits
for nothing.

## 4. Proofs

Each theorem assumes the named assumption of its module and nothing else.
`RoutesAssumption` (proxies, bridge, teardown): the route maps are functions
between the right sets, and `Empty`, `Nothing` are nobody's name.
`HandleAssumption`: every type is looked for in one library, and messages,
requests and responses are different types. `QoSAssumption`: numbers are
natural. `TopicAssumption`: channels and routes are maps of handles, and a
history holds at least one message; any route is allowed. `TraversalAssumption`:
the packages are finitely many, a definition belongs to one of them, and what
the definitions may look like are finite sets of fields.

| Theorem | States |
|---|---|
| `ClientTypeCorrect` | `[]ClientTypeOK` |
| `ClientInvariant` | `[]ClientInv`, the inductive invariant |
| `ClientsGetOwnAnswers` | `[]OwnAnswer` |
| `PromiseIsLive` | `[]LivePromise` |
| `OnlyLateAnswersKill` | `[]CrashNeedsTimeout` |
| `ClientProxiesImplement` | `ClientSpec => ImplementsRequestReply` |
| `ServerInvariant` | `[]ServerInv`, the inductive invariant of `ServerSpec` |
| `ServerTypesHold`, `RequestsAreExclusive`, `CallsSendTheirRequest`, `OneValueIsEnough`, `MessagesAreKept` | `[]` of `ServerTypeOK`, `ExclusiveRequest`, `WireCarriesOwnRequest`, `OneResponseValue`, `NoMessageIsLost` |
| `SentRequestsStay` | `ServerSpec => SentRequestUntouched` |
| `BridgeIsServerProxies` | `Spec => ServerSpec` |
| `BridgeIsClientProxies` | `Spec => ImplementsClientProxies` |
| `BridgedClientsGetOwnAnswers` | `Spec => []OwnAnswer` |
| `BridgeImplements` | `Spec => ImplementsRequestReply` |
| `OneCallbackAtATime` | `Spec => [](Sides /\ OneCallback /\ CalledByDelivery)`: each thread is in one callback of either kind |
| `TeardownIsBridge` | `TeardownSpec => Spec` |
| `EndingClientsGetOwnAnswers`, `EndingIsClientProxies` | `TeardownSpec` implies `[]OwnAnswer`, `ImplementsClientProxies` |
| `DestroyedStaysUnused` | `TeardownSpec => []DestroyedIsUnused` |
| `EveryThreadRunsOut` | `TeardownSpec => ThreadsRunOut`, and at most 14 steps are left to a thread |
| `HandleInvariant` | `[]HandleInv`, the inductive invariant of `HandleSpec` |
| `HandleTypesHold`, `FailuresHaveReasons`, `CrashesNeedLostFailures`, `RegisteredTypesWork` | `[]` of `HandleTypeOK`, `FailureHasReason`, `CrashNeedsLostFailure`, `RegisteredTypesAreUsable` |
| `HandlesStayIsolated` | `HandleSpec => HandlesAreIsolated` |
| `ProfileIsUpToDate` | `[]UpToDate`, the inductive invariant of `QoSSpec` |
| `PoliciesStayIndependent` | `QoSSpec => PoliciesAreIndependent` |
| `TopicInvariant` | `[]TopicInv`, the inductive invariant of `TopicSpec` |
| `TopicTypesHold`, `OrderStays`, `OnlyOverflowLoses`, `NothingEchoes` | `[]` of `TopicTypeOK`, `OrderIsKept`, `LossIsOverflow`, `NoEcho` |
| `BridgeIsRelay` | `TopicSpec => ImplementsTopicRelay` |
| `TraversalInvariant` | `[]TraversalInv`, the inductive invariant of `TraversalSpec` |
| `TraversalTypesHold`, `TraversalFindsNeeded`, `TraversalFailsForMissing`, `TraversalFilesCover` | `[]` of `TraversalTypeOK`, `FindsNeeded`, `FailsForMissing`, `FilesCoverTypes` |
| `TraversalIsExact` | where no field is hidden, the dependencies printed are exactly the packages needed |
| `TraversalStepsRunOut` | `TraversalSpec => StepsRunOut /\ [](StepsLeft \in Nat)` |

**Client proxies.** None of their safety invariants is inductive: that a client
gets its own answer depends on where `_handle` points, on whose promise is
alive, and on which calls may still be answered. `ClientInv` ties them together:
a request's promise shows where it is in its life (`LifeCycle`); a running
callback owns a live promise and `_handle` is aimed at it (`RunningCallback`); a
handle has one callback (`OneFrame`); a pointer stays within its proxy
(`OwnPointer`); an answer being received was owed and is in `_response`
(`Receiving`); before the first timeout of its proxy, a call that is owed or
being answered is the one its callback waits for (`PunctualCalls`); and every
value stored or sent is the own answer or one of a finished exchange: of the
same proxy after a timeout, of any once a `set_value` has gone through a dead
promise (`GoodValues`). There is one lemma per action; `SetValueEffect` first
reduces the many outcomes of `set_value` to what they can do to a promise, which
the invariant and the refinement both use. The refinement maps the sent requests
to `asked`, the replies to `outcome`, the expired waits to `abandoned`:
`ClientSends` is `Ask`, `AnswerTimesOut` is `Abandon`, `ReturnFromCallback` is
`Reply`, a `SetValue` that ends the process or goes through a dead promise is
`Fail` (with `broken` as `dangled`), and all else is invisible.

**Server proxies.** That messages are exclusive is not inductive either: a new
message is named after its call, so nobody may have had it before
(`MadeForItsCall`), and a message goes back to one pool only (`OneOwner`). With one
owner per message, a message keeps what its call has filled in (`OwnContent`),
and `Recycle` frees the message of a call of its own proxy (`OwnDelivery`). That no
message is lost needs, besides, that pools and calls hold messages of their own
proxy only (`AtHome`).

**Bridge.** Every step of the composition is a step of the server proxies or
none to them, so `ServerInv` holds of it; and then also a step of the client
proxies or none to them. Only `DeliverResponse` needs more than the definitions:
the answer that arrives is the one to `wire[r]`, and `OwnContent` says that is `r`.
The theorems about `ClientSpec` thus hold of the bridge, for any routes. What only
the composition has is one thread per handle for both kinds of callbacks:
`OneCallback`, which together with `CalledByDelivery` (while an answer is being
received, the response callback that brought it runs) is inductive.

**Teardown.** Every step of the teardown is one of the bridge, or leaves the bridge
alone, so all theorems about the bridge hold to the end. That a destroyed handle
is unused follows from `Ended`: a thread that has ended is in no callback, and
handles are destroyed only when no thread is left. It is kept because a step of
one handle's thread never starts a callback on another's (`OthersStayFree`): a
callback starts on the thread of its own handle, and an answer is handed over
on the thread of the handle that has the server proxy.

That threads run out of steps is the argument behind `QuitEnds`. `StepsToEnd`
counts the steps a thread's callback still takes (at most 6 in `service_callback`,
2 in `_wait_for_response`), 7 more while the thread may start another callback,
and one for the end of its loop. `CallbackAdvances`: a step of the thread inside a
callback lowers the first number; it needs `OneCallbackAtATime`, for the number is
that of *the* callback. `OthersKeep`: the threads of other handles, although they
fulfil the promise that a callback waits for and move the call it has made, never
change that number, because what they change is no longer counted. What remains
for TLC is that a thread with steps left can always take one.

**System handles.** What is usable depends on the Factory, which all handles
fill: `LoadedTogether` says that a type the Factory can create has come with all
its library registers, because a library is loaded as a whole;
`RegisteredIsLoaded` ties the registries to it. `NullIsUnregistered` then says
that a null converter can only be one of a declared type that is missing in the
registry, and `CrashNeedsLostFailure` follows at the moment of the crash.
`FailureSeen` follows the variable `success` through the loops. `OwnContext`
gives isolation: the context that the destructor shuts down is the handle's own,
or the global one, in which no node lives.

**QoS.** `UpToDate` says that the profile is the parse of the present configuration.
The parse is a chain of six blocks; `ParsedOutcome` shows once what they leave
together, field by field, and the property follows from that.

**Topics.** That order is kept is not inductive: it depends on what is still in
the history of each handle (`OwnHistory`) and on what its running callback still
has to publish (`OwnTask`). `Behind` says that what has been published for a
handle is older than the message it works on and than all in its history.
`NoEcho` is inductive with these, because of `BridgeIsNotHeard`: no publication
of the bridge gets into the history of a secluded handle, its own by
`ignore_local_publications`, another's because none is made on its channel.
`LossIsOverflow` is inductive together with these: a message leaves a full
history only while `Depth - 1` newer ones are in it and another one comes. That
a history in order which holds `Depth` newer messages proves `Depth` of them to
exist is `HoldsAsMany`, a bijection between places and messages. The lemmas on
`KeepLast` show that overflow takes messages away only at the old end. For the
refinement, `OutsidePublishes` is `Send`, `Publish` is `HandOn`
(`PublishHandsOn`), and the rest is invisible: that a message may be passed over
when a newer one is handed on is `LossIsOverflow`, for it is then neither
waiting, in work nor relayed.

**Traversal.** Soundness: what is inspected or queued is in every set around the
root that is closed under the fields the script sees. Completeness: the root,
and the packages that those fields of every inspected package lead to, are
inspected or queued, so with an empty queue the inspected packages are such a
set, and `Reached` is the smallest. No induction over paths is needed, because
`Closure` is defined as an intersection. `Reached` lies in `Needed`, the closure
under all fields, and equals it where no field is hidden (`TraversalIsExact`).
Termination has the variant `StepsLeft`: an inspected package adds one entry per
field that is seen, but its fields are then read and never read again
(`InspectReads`).

Only model-checked: liveness (`EveryRequestReplied`, `EveryAnswerDelivered`,
`QuitEnds`, `NewestIsHeard`, `TraversalEnds`), which is beyond the prover, as is
`ENABLED`. For `QuitEnds` and `TraversalEnds` the part that speaks of steps is
proved, as `ThreadsRunOut` and `StepsRunOut`; for `NewestIsHeard`, that a newest
message is never lost on its way is `LossIsOverflow`. The remaining part is that
the next step can be, and under fairness is, taken.

## 5. Not modelled

- The generation of the libraries itself (`is_ros2_rosidl_generate.py`, CMake) and
  the field by field conversion in the templates: they expand once per package or
  type, without state or order. What can go wrong in them is a matter of the
  message definitions at hand.
- The functions that the Factory's maps hold: every key is registered by the one
  library that is generated for it, so only its presence matters. The publisher
  and subscription maps are never filled or asked by this code; they are in the
  model and stay empty.
- Whether offered and requested QoS are compatible (`ros2__test_qos.cpp`): decided
  by the middleware.
- Exceptions from YAML conversions outside the QoS map, and from parsing
  generated IDL or message files.
- Logging, names, namespaces, Docker and CI.

## 6. Plan

Done: all modules of section 2, with their runs and proofs.

What a next step could add:

1. A bound on what handles that hear each other relay (those that are not
   `Secluded`), once it is settled what the bridge should promise for them.
2. The teardown of topics: `BridgeTeardown` covers the callbacks of services; a
   subscription's callback publishes on other handles' nodes in the same way.
3. The values in the Factory's maps, should libraries ever be unloaded or
   replaced while the process runs.
