------------------------- MODULE SystemHandleProofs -------------------------
(***************************************************************************)
(* What TLAPS proves of SystemHandle, for any handles, types, libraries    *)
(* and installations.                                                      *)
(***************************************************************************)
EXTENDS SystemHandle, TLAPS

(* The node of a handle is in a context of its own or in none yet. *)
OwnContext == \A h \in Handles : context[h] \in {Global, h}

(* A type that the Factory can create has come with all that its library   *)
(* registers.                                                              *)
LoadedTogether ==
    \A t \in Types : Found("type", t) =>
        /\ t \in MessageTypes => Found("serialiser", t) /\ Found("deserialiser", t)
        /\ t \in ResponseTypes => Found("client", t)
        /\ t \in RequestTypes => Found("server", t)

(* A handle registers what the Factory can create. *)
RegisteredIsLoaded ==
    \A h \in Handles : \A t \in registry[h] : Found("type", t)

(* A failed configure has seen a library that is not good. *)
FailureSeen ==
    \A h \in Handles :
        /\ ~success[h] => \E t \in Types : mix[libraryOf[t]] # "good"
        /\ phase[h] = "failed" => ~success[h]

(* Only types that are declared and not registered lack a converter. *)
NullIsUnregistered ==
    \A h \in Handles : \A e \in subscriptions[h] \cup publishers[h] :
        ~e.converter => e.type \in MessageTypes \ registry[h]

HandleInv ==
    /\ HandleTypeOK /\ OwnContext /\ LoadedTogether /\ RegisteredIsLoaded
    /\ FailureSeen /\ NullIsUnregistered /\ CrashNeedsLostFailure

(* Loading a library keeps what is registered together together, and a     *)
(* good one registers every type that is looked for in it.                 *)
LEMMA LoadingKeeps ==
    ASSUME HandleTypeOK, LoadedTogether, NEW t \in Types, LoadMix(libraryOf[t])
    PROVE  /\ factory' \in [Maps -> SUBSET Types]
           /\ LoadedTogether'
           /\ \A m \in Maps : factory[m] \subseteq factory'[m]
           /\ mix[libraryOf[t]] = "good" => Found("type", t)'
<1> DEFINE l == libraryOf[t]
<1> USE DEF Maps
<1>1. factory \in [Maps -> SUBSET Types]
  BY DEF HandleTypeOK
<1>2. CASE mix[l] # "good"
  BY <1>1, <1>2 DEF LoadMix, Registrations, LoadedTogether, Found
<1>3. CASE mix[l] = "good"
  <2>1. \A m \in Maps : factory'[m] = factory[m] \cup KeysOf(m, l)
    BY <1>3 DEF LoadMix, Registrations
  <2>2. factory' \in [Maps -> SUBSET Types]
    BY <1>1, <1>3 DEF LoadMix, Registrations, KeysOf, MessageKeys, ServiceKeys, ClientKeys,
                      ServerKeys, Types
  <2>3. /\ KeysOf("type", l) = {k \in Types : libraryOf[k] = l}
        /\ KeysOf("serialiser", l) = {k \in MessageTypes : libraryOf[k] = l}
        /\ KeysOf("deserialiser", l) = {k \in MessageTypes : libraryOf[k] = l}
        /\ KeysOf("client", l) = {k \in ResponseTypes : libraryOf[k] = l}
        /\ KeysOf("server", l) = {k \in RequestTypes : libraryOf[k] = l}
    BY DEF KeysOf, MessageKeys, ServiceKeys, ClientKeys, ServerKeys, Types
  <2>4. LoadedTogether'
    <3> SUFFICES ASSUME NEW k \in Types, k \in factory'["type"]
                 PROVE  /\ k \in MessageTypes =>
                              k \in factory'["serialiser"] /\ k \in factory'["deserialiser"]
                        /\ k \in ResponseTypes => k \in factory'["client"]
                        /\ k \in RequestTypes => k \in factory'["server"]
      BY DEF LoadedTogether, Found
    <3>1. CASE libraryOf[k] = l
      BY <3>1, <2>1, <2>3
    <3>2. CASE libraryOf[k] # l
      BY <3>2, <2>1, <2>3 DEF LoadedTogether, Found
    <3> QED
      BY <3>1, <3>2
  <2>5. t \in factory'["type"]
    BY <2>1, <2>3
  <2> QED
    BY <2>1, <2>2, <2>4, <2>5 DEF Found
<1> QED
  BY <1>2, <1>3

(* configure begins with a handle that has nothing. *)
LEMMA BeginKeeps ==
    ASSUME HandleInv, NEW h \in Handles, BeginConfigure(h)
    PROVE  HandleInv'
<1> USE HandleAssumption DEF HandleAssumption, HandleInv, BeginConfigure
<1>1. HandleTypeOK'
  BY DEF HandleTypeOK, NodeContext, Types
<1>2. OwnContext'
  BY DEF HandleTypeOK, OwnContext, NodeContext
<1>3. LoadedTogether' /\ RegisteredIsLoaded' /\ NullIsUnregistered'
  BY DEF LoadedTogether, RegisteredIsLoaded, NullIsUnregistered, Found
<1>4. FailureSeen'
  BY DEF HandleTypeOK, FailureSeen
<1>5. CrashNeedsLostFailure'
  BY DEF CrashNeedsLostFailure
<1> QED
  BY <1>1, <1>2, <1>3, <1>4, <1>5

(* One round of the loops fails with a reason, or registers a type that    *)
(* the Factory can create.                                                 *)
LEMMA ConfigureKeeps ==
    ASSUME HandleInv, NEW h \in Handles, NEW t \in Types, ConfigureType(h, t)
    PROVE  HandleInv'
<1> DEFINE l == libraryOf[t]
<1>1. /\ ~crashed /\ phase[h] \in {"messages", "services"}
      /\ pending' = [pending EXCEPT ![h] = @ \ {t}]
      /\ UNCHANGED <<mix, phase, context, valid, subscriptions, publishers, proxies,
                     crashed>>
  BY DEF ConfigureType
<1>2. /\ OwnContext' /\ CrashNeedsLostFailure'
      /\ subscriptions[h] \cup publishers[h] = {}
  BY <1>1 DEF HandleInv, HandleTypeOK, OwnContext, CrashNeedsLostFailure
<1>3. CASE mix[l] \in {"none", "broken"}
  <2>1. /\ success' = [success EXCEPT ![h] = FALSE]
        /\ UNCHANGED <<factory, registry>>
        /\ mix[l] # "good"
    BY <1>3 DEF ConfigureType
  <2>2. HandleTypeOK'
    BY <1>1, <2>1 DEF HandleInv, HandleTypeOK
  <2>3. LoadedTogether' /\ RegisteredIsLoaded' /\ NullIsUnregistered'
    BY <1>1, <2>1 DEF HandleInv, LoadedTogether, RegisteredIsLoaded,
                      NullIsUnregistered, Found
  <2>4. FailureSeen'
    BY <1>1, <2>1 DEF HandleInv, HandleTypeOK, FailureSeen
  <2> QED
    BY <1>2, <2>2, <2>3, <2>4 DEF HandleInv
<1>4. CASE mix[l] \notin {"none", "broken"}
  <2>1. LoadMix(l) /\ RegisterType(h, t)
    BY <1>4 DEF ConfigureType
  <2>2. /\ factory' \in [Maps -> SUBSET Types]
        /\ LoadedTogether'
        /\ \A m \in Maps : factory[m] \subseteq factory'[m]
        /\ mix[l] = "good" => Found("type", t)'
    BY <2>1, LoadingKeeps DEF HandleInv
  <2>3. /\ success' = [success EXCEPT ![h] = Found("type", t)']
        /\ registry' = [registry EXCEPT ![h] =
                            IF Found("type", t)' THEN @ \cup {t} ELSE @]
    BY <2>1 DEF RegisterType
  <2>4. Found("type", t)' \in BOOLEAN
    BY DEF Found
  <2>5. HandleTypeOK'
    BY <1>1, <2>2, <2>3, <2>4 DEF HandleInv, HandleTypeOK
  <2>6. RegisteredIsLoaded'
    BY <2>2, <2>3 DEF HandleInv, HandleTypeOK, RegisteredIsLoaded, Found, Maps
  <2>7. FailureSeen'
    <3> SUFFICES ASSUME NEW g \in Handles
                 PROVE  /\ ~success'[g] => \E k \in Types : mix'[libraryOf[k]] # "good"
                        /\ phase'[g] = "failed" => ~success'[g]
      BY DEF FailureSeen
    <3>1. CASE g # h
      BY <3>1, <1>1, <2>3 DEF HandleInv, HandleTypeOK, FailureSeen
    <3>2. CASE g = h
      BY <3>2, <1>1, <2>2, <2>3 DEF HandleInv, HandleTypeOK
    <3> QED
      BY <3>1, <3>2
  <2>8. NullIsUnregistered'
    <3>1. \A g \in Handles : g # h => registry'[g] = registry[g]
      BY <2>3 DEF HandleInv, HandleTypeOK
    <3> QED
      BY <3>1, <1>1, <1>2 DEF HandleInv, NullIsUnregistered
  <2> QED
    BY <1>2, <2>2, <2>5, <2>6, <2>7, <2>8 DEF HandleInv
<1> QED
  BY <1>3, <1>4

(* Going on to the services, and the result of configure. *)
LEMMA PhaseKeeps ==
    ASSUME HandleInv, NEW h \in Handles, MessagesDone(h) \/ EndConfigure(h)
    PROVE  HandleInv'
<1> USE DEF HandleInv, MessagesDone, EndConfigure
<1>1. HandleTypeOK'
  BY DEF HandleTypeOK, Types
<1>2. OwnContext' /\ LoadedTogether' /\ RegisteredIsLoaded' /\ NullIsUnregistered'
  BY DEF OwnContext, LoadedTogether, RegisteredIsLoaded, NullIsUnregistered, Found
<1>3. FailureSeen'
  BY DEF HandleTypeOK, FailureSeen
<1>4. CrashNeedsLostFailure'
  BY DEF CrashNeedsLostFailure
<1> QED
  BY <1>1, <1>2, <1>3, <1>4

(* An entity is made with what the Factory has for its type, which is      *)
(* everything if configure has registered the type.                        *)
LEMMA EntityKeeps ==
    ASSUME HandleInv, NEW h \in Handles, NEW t \in Types,
           Subscribe(h, t) \/ Advertise(h, t) \/ CreateProxy(h, t)
    PROVE  HandleInv'
<1>1. /\ ~crashed /\ phase[h] = "configured"
      /\ UNCHANGED <<mix, phase, pending, success, context, valid, factory, registry,
                     crashed>>
  BY DEF Subscribe, Advertise, CreateProxy, Running
<1>2. OwnContext' /\ LoadedTogether' /\ RegisteredIsLoaded' /\ FailureSeen'
      /\ CrashNeedsLostFailure'
  BY <1>1 DEF HandleInv, OwnContext, LoadedTogether, RegisteredIsLoaded, FailureSeen,
              CrashNeedsLostFailure, Found
<1>3. HandleTypeOK'
  <2> DEFINE made(m) == [type |-> t, converter |-> Found(m, t)]
  <2>1. \A m \in Maps : t \in MessageTypes => made(m) \in Entities
    <3>1. \A m \in Maps : Found(m, t) \in BOOLEAN
      BY DEF Found
    <3> QED
      BY <3>1 DEF Entities
  <2>2. "serialiser" \in Maps /\ "deserialiser" \in Maps
    BY DEF Maps
  <2>3. CASE Subscribe(h, t)
    <3>1. made("deserialiser") \in Entities
      BY <2>1, <2>2, <2>3 DEF Subscribe
    <3>2. /\ subscriptions' = [subscriptions EXCEPT ![h] = @ \cup {made("deserialiser")}]
          /\ UNCHANGED <<publishers, proxies>>
      BY <2>3 DEF Subscribe
    <3> HIDE DEF made
    <3> QED
      BY <3>1, <3>2, <1>1 DEF HandleInv, HandleTypeOK
  <2>4. CASE Advertise(h, t)
    <3>1. made("serialiser") \in Entities
      BY <2>1, <2>2, <2>4 DEF Advertise
    <3>2. /\ publishers' = [publishers EXCEPT ![h] = @ \cup {made("serialiser")}]
          /\ UNCHANGED <<subscriptions, proxies>>
      BY <2>4 DEF Advertise
    <3> HIDE DEF made
    <3> QED
      BY <3>1, <3>2, <1>1 DEF HandleInv, HandleTypeOK
  <2>5. CASE CreateProxy(h, t)
    BY <2>5, <1>1 DEF HandleInv, HandleTypeOK, CreateProxy
  <2> QED
    BY <2>3, <2>4, <2>5
<1>4. t \in registry[h] /\ t \in MessageTypes =>
        Found("serialiser", t) /\ Found("deserialiser", t)
  BY DEF HandleInv, RegisteredIsLoaded, LoadedTogether
<1>5. NullIsUnregistered'
  <2> SUFFICES ASSUME NEW g \in Handles,
                      NEW e \in subscriptions'[g] \cup publishers'[g], ~e.converter
               PROVE  e.type \in MessageTypes \ registry[g]
    BY <1>1 DEF NullIsUnregistered
  <2>1. CASE e \in subscriptions[g] \cup publishers[g]
    BY <2>1 DEF HandleInv, NullIsUnregistered
  <2>2. CASE e \notin subscriptions[g] \cup publishers[g]
    <3>1. /\ g = h /\ t \in MessageTypes
          /\ \/ e = [type |-> t, converter |-> Found("deserialiser", t)]
             \/ e = [type |-> t, converter |-> Found("serialiser", t)]
      BY <2>2 DEF HandleInv, HandleTypeOK, Subscribe, Advertise, CreateProxy
    <3> QED
      BY <3>1, <1>4
  <2> QED
    BY <2>1, <2>2
<1> QED
  BY <1>2, <1>3, <1>5 DEF HandleInv

(* The end of a handle, and that of the process. *)
LEMMA EndKeeps ==
    ASSUME HandleInv, NEW h \in Handles, UseNullConverter(h) \/ Destroy(h)
    PROVE  HandleInv'
<1>1. CASE UseNullConverter(h)
  <2>1. HandleTypeOK' /\ OwnContext' /\ LoadedTogether' /\ RegisteredIsLoaded'
        /\ FailureSeen' /\ NullIsUnregistered'
    BY <1>1 DEF UseNullConverter, HandleInv, HandleTypeOK, OwnContext, LoadedTogether,
                RegisteredIsLoaded, FailureSeen, NullIsUnregistered, Found
  <2>2. PICK e \in subscriptions[h] \cup publishers[h] : ~e.converter
    BY <1>1 DEF UseNullConverter
  <2>3. phase[h] = "configured" /\ MessageTypes \ registry[h] # {}
    BY <1>1, <2>2 DEF UseNullConverter, Running, HandleInv, NullIsUnregistered
  <2>4. CrashNeedsLostFailure'
    BY <1>1, <2>3 DEF UseNullConverter, CrashNeedsLostFailure
  <2> QED
    BY <2>1, <2>4 DEF HandleInv
<1>2. CASE Destroy(h)
  <2> USE <1>2 DEF HandleInv, Destroy
  <2>1. HandleTypeOK'
    BY DEF HandleTypeOK
  <2>2. OwnContext' /\ LoadedTogether' /\ RegisteredIsLoaded'
    BY DEF OwnContext, LoadedTogether, RegisteredIsLoaded, Found
  <2>3. FailureSeen' /\ CrashNeedsLostFailure'
    BY DEF HandleTypeOK, FailureSeen, CrashNeedsLostFailure
  <2>4. NullIsUnregistered'
    BY DEF HandleTypeOK, NullIsUnregistered
  <2> QED
    BY <2>1, <2>2, <2>3, <2>4
<1> QED
  BY <1>1, <1>2

(* The inductive invariant of the handles of a process. *)
THEOREM HandleInvariant == HandleSpec => []HandleInv
<1>1. HandleInit => HandleInv
  <2> SUFFICES ASSUME HandleInit PROVE HandleInv
    OBVIOUS
  <2> USE HandleAssumption DEF HandleAssumption, HandleInit
  <2>1. HandleTypeOK /\ OwnContext
    BY DEF HandleTypeOK, OwnContext, Global
  <2>2. LoadedTogether /\ RegisteredIsLoaded
    BY DEF LoadedTogether, RegisteredIsLoaded, Found, Maps
  <2>3. FailureSeen /\ NullIsUnregistered /\ CrashNeedsLostFailure
    BY DEF FailureSeen, NullIsUnregistered, CrashNeedsLostFailure
  <2> QED
    BY <2>1, <2>2, <2>3 DEF HandleInv
<1>2. HandleInv /\ [HandleNext]_handleVars => HandleInv'
  <2> SUFFICES ASSUME HandleInv, [HandleNext]_handleVars PROVE HandleInv'
    OBVIOUS
  <2>1. ASSUME NEW h \in Handles, BeginConfigure(h) PROVE HandleInv'
    BY <2>1, BeginKeeps
  <2>2. ASSUME NEW h \in Handles, NEW t \in Types, ConfigureType(h, t) PROVE HandleInv'
    BY <2>2, ConfigureKeeps
  <2>3. ASSUME NEW h \in Handles, MessagesDone(h) \/ EndConfigure(h) PROVE HandleInv'
    BY <2>3, PhaseKeeps
  <2>4. ASSUME NEW h \in Handles, NEW t \in Types,
               Subscribe(h, t) \/ Advertise(h, t) \/ CreateProxy(h, t)
        PROVE  HandleInv'
    BY <2>4, EntityKeeps
  <2>5. ASSUME NEW h \in Handles, UseNullConverter(h) \/ Destroy(h) PROVE HandleInv'
    BY <2>5, EndKeeps
  <2>6. CASE UNCHANGED handleVars
    BY <2>6 DEF handleVars, HandleInv, HandleTypeOK, OwnContext, LoadedTogether,
                RegisteredIsLoaded, FailureSeen, NullIsUnregistered,
                CrashNeedsLostFailure, Found
  <2> QED
    BY <2>1, <2>2, <2>3, <2>4, <2>5, <2>6 DEF HandleNext
<1> QED
  BY <1>1, <1>2, PTL DEF HandleSpec

(* Every variable of the handles has its type, and entities exist on       *)
(* configured handles only.                                                *)
THEOREM HandleTypesHold == HandleSpec => []HandleTypeOK
<1>1. HandleInv => HandleTypeOK
  BY DEF HandleInv
<1> QED
  BY <1>1, HandleInvariant, PTL

(* configure reports a failure only where a required library is missing,   *)
(* broken or not the right one.                                            *)
THEOREM FailuresHaveReasons == HandleSpec => []FailureHasReason
<1>1. HandleInv => FailureHasReason
  BY DEF HandleInv, FailureSeen, FailureHasReason
<1> QED
  BY <1>1, HandleInvariant, PTL

(* A null converter is called only on a handle whose configure has met a   *)
(* failure and lost it.                                                    *)
THEOREM CrashesNeedLostFailures == HandleSpec => []CrashNeedsLostFailure
<1>1. HandleInv => CrashNeedsLostFailure
  BY DEF HandleInv
<1> QED
  BY <1>1, HandleInvariant, PTL

(* What configure has registered has its converters, and its proxies under *)
(* the names they are asked for with.                                      *)
THEOREM RegisteredTypesWork == HandleSpec => []RegisteredTypesAreUsable
<1>1. HandleInv => RegisteredTypesAreUsable
  BY DEF HandleInv, HandleTypeOK, RegisteredIsLoaded, LoadedTogether,
         RegisteredTypesAreUsable
<1> QED
  BY <1>1, HandleInvariant, PTL

(* However many handles a process has, and whichever of them end, the      *)
(* others stay okay.                                                       *)
THEOREM HandlesStayIsolated == HandleSpec => HandlesAreIsolated
<1> DEFINE Isolated ==
        \A h \in Handles : (Okay(h) /\ phase'[h] # "destroyed") => Okay(h)'
<1>1. HandleInv /\ [HandleNext]_handleVars => Isolated
  <2> SUFFICES ASSUME HandleInv, [HandleNext]_handleVars, NEW h \in Handles,
                      Okay(h), phase'[h] # "destroyed"
               PROVE  Okay(h)'
    OBVIOUS
  <2>1. /\ phase[h] \notin {"new", "destroyed"} /\ context[h] = h /\ h \in valid
        /\ h # Global
    BY HandleAssumption
       DEF HandleAssumption, HandleInv, HandleTypeOK, Okay, NodeContext, Global
  <2>2. ASSUME NEW g \in Handles, BeginConfigure(g) PROVE Okay(h)'
    BY <2>1, <2>2 DEF BeginConfigure, HandleInv, HandleTypeOK, Okay
  <2>3. ASSUME NEW g \in Handles, MessagesDone(g) \/ EndConfigure(g) PROVE Okay(h)'
    BY <2>1, <2>3 DEF MessagesDone, EndConfigure, HandleInv, HandleTypeOK, Okay
  <2>4. ASSUME NEW g \in Handles, Destroy(g) PROVE Okay(h)'
    <3>1. g # h
      BY <2>4 DEF Destroy, HandleInv, HandleTypeOK
    <3>2. context[g] # h
      BY <2>1, <3>1 DEF HandleInv, OwnContext
    <3> QED
      BY <2>1, <2>4, <3>1, <3>2 DEF Destroy, HandleInv, HandleTypeOK, Okay
  <2>5. CASE UNCHANGED <<phase, context, valid>>
    BY <2>5 DEF Okay
  <2> QED
    BY <2>2, <2>3, <2>4, <2>5
       DEF HandleNext, ConfigureType, Subscribe, Advertise, CreateProxy,
           UseNullConverter, handleVars
<1>2. HandleInv /\ [HandleNext]_handleVars => [Isolated]_handleVars
  BY <1>1
<1> QED
  BY <1>2, HandleInvariant, PTL DEF HandleSpec, HandlesAreIsolated
=============================================================================
