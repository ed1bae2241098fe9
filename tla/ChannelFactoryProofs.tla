------------------------ MODULE ChannelFactoryProofs ------------------------
(***************************************************************************)
(* Ownership of endpoints and coherence of topic_map_, for any number of   *)
(* publishers, subscribers, names and addresses.  What is promised to an   *)
(* application that closes through its wrappers is stated until the first  *)
(* close by name; that no endpoint leaks holds after it too.               *)
(***************************************************************************)
EXTENDS ChannelFactory, TLAPS

\* InitChannel's steps up to the endpoint keep the invariant: they touch
\* topic_map_, the topics and the thread's own locals, never an endpoint.
LEMMA TopicSteps ==
  ASSUME IInv, NEW w \in Wrappers,
         InitChannel(w) \/ GetTopic(w) \/ CreateTopic(w) \/ StoreTopic(w)
  PROVE  IInv'
<1> USE ChannelAssumption
<1>1. CASE InitChannel(w)
  BY <1>1 DEF IInv, AnyCloses, InitChannel, TypeOK, LocalsMatch, LocalTopicOwn, NoFreedUse,
     HeldEndpointLive, EndpointNotShared, NoEndpointLeak, NamesUnique, MapCoherent,
     NoLostTopic, OnOwnTopic, Holds, States, fvars, dvars, cvars
<1>2. CASE GetTopic(w)
  BY <1>2 DEF IInv, AnyCloses, GetTopic, TypeOK, LocalsMatch, LocalTopicOwn, NoFreedUse,
     HeldEndpointLive, EndpointNotShared, NoEndpointLeak, NamesUnique, MapCoherent,
     NoLostTopic, OnOwnTopic, Holds, States, fvars, dvars, cvars, Wrappers
<1>3. CASE CreateTopic(w)
  <2> USE <1>3 DEF IInv, AnyCloses, CreateTopic, fvars
  <2>1. TypeOK'
    BY DEF TypeOK, States, cvars, Wrappers
  <2>2. LocalsMatch' /\ LocalTopicOwn'
    BY DEF TypeOK, LocalsMatch, LocalTopicOwn, NameTaken, cvars, Wrappers
  <2>3. NoFreedUse' /\ HeldEndpointLive' /\ EndpointNotShared' /\ NoEndpointLeak'
    BY DEF NoFreedUse, HeldEndpointLive, EndpointNotShared, NoEndpointLeak, Holds, cvars
  <2>4. NamesUnique'
    BY DEF TypeOK, NamesUnique, NameTaken, Wrappers
  <2>5. MapCoherent'
    BY DEF TypeOK, MapCoherent
  <2>6. NoLostTopic'
    BY DEF TypeOK, NoLostTopic, NameTaken, Wrappers
  <2>7. OnOwnTopic'
    BY DEF TypeOK, OnOwnTopic, Holds, cvars, Wrappers
  <2> QED BY <2>1, <2>2, <2>3, <2>4, <2>5, <2>6, <2>7
<1>4. CASE StoreTopic(w)
  <2> USE <1>4 DEF IInv, AnyCloses, StoreTopic, fvars
  <2>1. TypeOK' /\ LocalsMatch' /\ LocalTopicOwn'
    BY DEF TypeOK, States, LocalsMatch, LocalTopicOwn, cvars, dvars, Wrappers
  <2>2. NoFreedUse' /\ HeldEndpointLive' /\ EndpointNotShared' /\ NoEndpointLeak'
    BY DEF NoFreedUse, HeldEndpointLive, EndpointNotShared, NoEndpointLeak, Holds, cvars, dvars
  <2>3. NamesUnique' /\ OnOwnTopic'
    BY DEF NamesUnique, OnOwnTopic, Holds, cvars, dvars
  <2>4. MapCoherent'
    BY DEF TypeOK, LocalsMatch, LocalTopicOwn, MapCoherent, dvars, Wrappers
  <2>5. NoLostTopic'
    BY DEF TypeOK, LocalsMatch, LocalTopicOwn, NamesUnique, NoLostTopic, dvars, Wrappers
  <2> QED BY <2>1, <2>2, <2>3, <2>4, <2>5
<1> QED BY <1>1, <1>2, <1>3, <1>4

\* Creating the endpoint: an address no wrapper holds is given to one.
LEMMA SetEndpointStep ==
  ASSUME IInv, NEW w \in Wrappers, SetEndpoint(w)
  PROVE  IInv'
<1> USE ChannelAssumption DEF IInv, AnyCloses, SetEndpoint, fvars
<1>1. TypeOK' /\ NoFreedUse'
  BY DEF TypeOK, States, LocalsMatch, LocalTopicOwn, NoFreedUse, cvars, Endpoints, EndpointsOf,
     Wrappers
<1>2. LocalsMatch' /\ LocalTopicOwn'
  BY DEF TypeOK, LocalsMatch, LocalTopicOwn, EndpointsOf, Endpoints, cvars
<1>3. HeldEndpointLive'
  BY DEF TypeOK, LocalsMatch, HeldEndpointLive, Holds, EndpointsOf, Endpoints, cvars
<1>4. EndpointNotShared'
  BY DEF TypeOK, LocalsMatch, HeldEndpointLive, EndpointNotShared, Holds, EndpointsOf,
     Endpoints, cvars
<1>5. NoEndpointLeak'
  BY DEF TypeOK, LocalsMatch, NoEndpointLeak, Holds, EndpointsOf, Endpoints, cvars
<1>6. NamesUnique' /\ MapCoherent' /\ NoLostTopic'
  BY DEF NamesUnique, MapCoherent, NoLostTopic, TypeOK
<1>7. OnOwnTopic'
  BY DEF TypeOK, LocalsMatch, LocalTopicOwn, HeldEndpointLive, OnOwnTopic, Holds, EndpointsOf,
     Endpoints, cvars
<1> QED BY <1>1, <1>2, <1>3, <1>4, <1>5, <1>6, <1>7

\* Deleting the endpoint of one wrapper leaves every other wrapper its own.
LEMMA DeleteSteps ==
  ASSUME IInv, NEW w \in Wrappers, AssignChannel(w) \/ CloseChannel(w)
  PROVE  IInv'
<1> USE ChannelAssumption DEF IInv, AnyCloses, AssignChannel, CloseChannel, Delete, fvars
<1>1. TypeOK' /\ NoFreedUse'
  BY DEF TypeOK, States, HeldEndpointLive, Holds, NoFreedUse, ivars, Endpoints
<1>2. LocalsMatch' /\ LocalTopicOwn'
  BY DEF TypeOK, LocalsMatch, LocalTopicOwn, ivars
<1>3. HeldEndpointLive'
  BY DEF TypeOK, HeldEndpointLive, EndpointNotShared, Holds, ivars
<1>4. EndpointNotShared'
  <2>1. \A e \in Endpoints : \A v \in Wrappers : Holds(v, e)' => Holds(v, e)
    BY DEF TypeOK, Holds, Endpoints, ivars
  <2>2. \A e \in Endpoints : \A v \in Wrappers :
          endpoint'[v] = e /\ new_endpoint'[v] = e => v # w /\ endpoint[v] = e /\ new_endpoint[v] = e
    BY DEF TypeOK, LocalsMatch, Endpoints, ivars
  <2>3. closes' = closes
    OBVIOUS
  <2> QED BY <2>1, <2>2, <2>3 DEF EndpointNotShared
<1>5. NoEndpointLeak'
  BY DEF TypeOK, NoEndpointLeak, Holds, LocalsMatch, ivars
<1>6. NamesUnique' /\ MapCoherent' /\ NoLostTopic'
  BY DEF NamesUnique, MapCoherent, NoLostTopic, TypeOK, ivars
<1>7. OnOwnTopic'
  <2>1. \A e \in Endpoints : endpoints'[e] # Null => endpoints'[e] = endpoints[e]
    BY DEF TypeOK
  <2>2. \A e \in Endpoints : \A v \in Wrappers : Holds(v, e)' => Holds(v, e)
    BY DEF TypeOK, Holds, Endpoints, ivars
  <2>3. topics' = topics /\ closes' = closes
    OBVIOUS
  <2> QED BY <2>1, <2>2, <2>3 DEF OnOwnTopic
<1> QED BY <1>1, <1>2, <1>3, <1>4, <1>5, <1>6, <1>7

\* A close by name gives up what was promised until then and keeps the rest:
\* it takes endpoints and topics away and gives none.
LEMMA CloseSteps ==
  ASSUME IInv, NEW n \in Names,
         CloseByName(n, Writers) \/ CloseByName(n, Readers) \/ CloseTopic(n)
  PROVE  IInv'
<1> USE ChannelAssumption DEF IInv, AnyCloses
<1>1. closes' > 0
  BY DEF CloseByName, CloseTopic, TypeOK
<1>2. UNCHANGED <<dds_factory_model, topic_map, ivars, cvars>>
  BY DEF CloseByName, CloseTopic
<1>3. \A e \in Endpoints : endpoints'[e] \in {endpoints[e], Null}
  BY DEF CloseByName, CloseTopic, Found, TypeOK, Endpoints
<1>4. \A t \in Topics : topics'[t] \in {topics[t], Null}
  BY DEF CloseByName, CloseTopic, TypeOK
<1>5. TypeOK'
  BY DEF CloseByName, CloseTopic, Found, TypeOK, Endpoints, ivars, cvars
<1>6. LocalsMatch' /\ NamesUnique'
  BY <1>2, <1>4 DEF LocalsMatch, NamesUnique, ivars, cvars
<1>7. NoEndpointLeak'
  BY <1>2, <1>3 DEF NoEndpointLeak, Holds, ivars, cvars
<1> QED
  BY <1>1, <1>5, <1>6, <1>7 DEF LocalTopicOwn, NoFreedUse, HeldEndpointLive, EndpointNotShared,
     MapCoherent, NoLostTopic, OnOwnTopic

\* For every set of wrappers, names and addresses the invariant is kept: until
\* the first close by name every endpoint is held by exactly one wrapper and
\* topic_map_ names exactly the topics that exist.
THEOREM OwnershipHolds == Spec => []IInv
<1>1. Init => IInv
  BY ChannelAssumption DEF Init, IInv, AnyCloses, TypeOK, LocalsMatch, LocalTopicOwn,
     NoFreedUse, HeldEndpointLive, EndpointNotShared, NoEndpointLeak, NamesUnique,
     MapCoherent, NoLostTopic, OnOwnTopic, Holds, States, Wrappers
<1>2. IInv /\ [Next]_vars => IInv'
  <2> SUFFICES ASSUME IInv, [Next]_vars PROVE IInv'
    OBVIOUS
  <2>1. CASE UNCHANGED vars
    BY <2>1 DEF IInv, AnyCloses, TypeOK, LocalsMatch, LocalTopicOwn, NoFreedUse,
       HeldEndpointLive, EndpointNotShared, NoEndpointLeak, NamesUnique, MapCoherent,
       NoLostTopic, OnOwnTopic, Holds, vars, fvars, dvars, ivars, cvars
  <2>2. CASE InitFactory
    BY <2>2 DEF InitFactory, IInv, AnyCloses, TypeOK, LocalsMatch, LocalTopicOwn, NoFreedUse,
       HeldEndpointLive, EndpointNotShared, NoEndpointLeak, NamesUnique, MapCoherent,
       NoLostTopic, OnOwnTopic, Holds, dvars, ivars, cvars
  <2>3. CASE FactoryStep
    BY <2>2, <2>3, CloseSteps DEF FactoryStep
  <2>4. ASSUME NEW w \in Wrappers, WrapperStep(w) PROVE IInv'
    <3>1. CASE UseEndpoint(w)
      BY <3>1 DEF UseEndpoint, IInv, AnyCloses, TypeOK, LocalsMatch, LocalTopicOwn, NoFreedUse,
         HeldEndpointLive, EndpointNotShared, NoEndpointLeak, NamesUnique, MapCoherent,
         NoLostTopic, OnOwnTopic, Holds, fvars, dvars, ivars, cvars
    <3> QED BY <2>4, <3>1, TopicSteps, SetEndpointStep, DeleteSteps DEF WrapperStep
  <2> QED BY <2>1, <2>3, <2>4 DEF Next
<1> QED BY <1>1, <1>2, PTL DEF Spec

\* The variables keep their types, closes by name or not.
THEOREM TypeCorrect == Spec => []TypeOK
BY OwnershipHolds, PTL DEF IInv, AnyCloses

\* No endpoint is left without a wrapper, however InitChannel calls race, fail
\* or are repeated, and whatever is closed by name.
THEOREM EndpointsNotLeaked == Spec => []NoEndpointLeak
BY OwnershipHolds, PTL DEF IInv, AnyCloses

\* Closing or re-initializing one wrapper never takes another one's endpoint,
\* until one is closed by name.
THEOREM EndpointsNotShared == Spec => []EndpointNotShared
BY OwnershipHolds, PTL DEF IInv

\* Write, the matched counts and the closes of wrappers never follow a freed
\* pointer, until something is closed by name.
THEOREM FreedObjectsNotUsed == Spec => []NoFreedUse
BY OwnershipHolds, PTL DEF IInv

\* Although no lock protects topic_map_, no created topic is lost from it,
\* until something is closed by name.
THEOREM TopicsNotLost == Spec => []NoLostTopic
BY OwnershipHolds, PTL DEF IInv

\* What topic_map_ returns for a name is the existing topic of that name,
\* until something is closed by name.
THEOREM MapStaysCoherent == Spec => []MapCoherent
BY OwnershipHolds, PTL DEF IInv

\* Every endpoint is on the topic whose name its wrapper was given, whichever
\* thread created that topic, until something is closed by name.
THEOREM EndpointsOnOwnTopic == Spec => []OnOwnTopic
BY OwnershipHolds, PTL DEF IInv
=============================================================================
