--------------------------- MODULE ChannelFactory ---------------------------
(***************************************************************************)
(* How ChannelPublisher and ChannelSubscriber objects get, replace and     *)
(* give back their DDS endpoints: InitChannel through                      *)
(* ChannelFactory::CreateSendChannel / CreateRecvChannel and               *)
(* DdsFactoryModel (whose topic_map_ every wrapper of the process shares   *)
(* and no lock protects), CloseChannel, and the closes by topic name.      *)
(*                                                                         *)
(* Each wrapper is used by a thread of its own.  A step is one access to   *)
(* topic_map_ or one call into Fast DDS.  Topics, writers and readers are  *)
(* the addresses Fast DDS returns: an address may be reused once freed.    *)
(***************************************************************************)
EXTENDS Naturals, FiniteSets

CONSTANTS
  Publishers, Subscribers,  \* ChannelPublisher and ChannelSubscriber objects
  Names,                    \* topic names
  channel_name,             \* the topic name of each wrapper
  Topics, Writers, Readers, \* addresses of Fast DDS objects
  Null,
  MaxCloses                 \* bound: closes by topic name

Wrappers  == Publishers \cup Subscribers
Endpoints == Writers \cup Readers

ASSUME ChannelAssumption ==
  /\ Publishers \cap Subscribers = {}
  /\ Writers \cap Readers = {}
  /\ channel_name \in [Wrappers -> Names]
  /\ Null \notin Topics \cup Endpoints \cup Names
  /\ MaxCloses \in Nat

VARIABLES
  dds_factory_model, \* "null" until ChannelFactory is initialized
  topics,            \* the name of each existing Topic, else Null
  endpoints,         \* the Topic of each existing DataWriter/DataReader
  topic_map,         \* DdsFactoryModel::topic_map_
  pc,                \* where each wrapper's thread is in InitChannel
  new_topic, new_endpoint,  \* the channel InitChannel is building
  channel_ptr,       \* "null" or "set": the wrapper's channel
  endpoint,          \* its writer_ / reader_
  closes,            \* history: calls of CloseWriter, CloseReader and CloseTopic
  process            \* "undefined" once a freed object or null has been used

fvars == <<dds_factory_model, closes>>
dvars == <<topics, endpoints>>
ivars == <<pc, new_topic, new_endpoint>>
cvars == <<channel_ptr, endpoint>>
vars  == <<fvars, dvars, topic_map, ivars, cvars, process>>

EndpointsOf(w) == IF w \in Publishers THEN Writers ELSE Readers

Init ==
  /\ dds_factory_model = "null"
  /\ topics = [t \in Topics |-> Null]
  /\ endpoints = [e \in Endpoints |-> Null]
  /\ topic_map = [n \in Names |-> Null]
  /\ pc = [w \in Wrappers |-> "idle"]
  /\ new_topic = [w \in Wrappers |-> Null]
  /\ new_endpoint = [w \in Wrappers |-> Null]
  /\ channel_ptr = [w \in Wrappers |-> "null"]
  /\ endpoint = [w \in Wrappers |-> Null]
  /\ closes = 0
  /\ process = "running"

-----------------------------------------------------------------------------
(* Fast DDS.                                                               *)

\* DomainParticipant::create_topic has no second topic of one name.
NameTaken(n) == \E t \in Topics : topics[t] = n

\* A topic that an endpoint uses is not deleted.
Referenced(t) == \E e \in Endpoints : endpoints[e] = t

\* delete_datawriter / delete_datareader of what a channel holds.
Delete(e) ==
  /\ endpoints' = IF e = Null THEN endpoints ELSE [endpoints EXCEPT ![e] = Null]
  /\ process' = IF e # Null /\ endpoints[e] = Null THEN "undefined" ELSE process

-----------------------------------------------------------------------------
(* ChannelFactory and its wrappers.                                        *)

\* ChannelFactory::Init and its variants create the participant.
InitFactory ==
  /\ dds_factory_model = "null"
  /\ dds_factory_model' = "set"
  /\ UNCHANGED <<closes, dvars, topic_map, ivars, cvars, process>>

\* InitChannel up to the topic lookup.  With no factory model the wrapper is
\* given a null channel, which it has already.
InitChannel(w) ==
  /\ pc[w] = "idle"
  /\ dds_factory_model = "set"
  /\ pc' = [pc EXCEPT ![w] = "lookup"]
  /\ UNCHANGED <<fvars, dvars, topic_map, new_topic, new_endpoint, cvars, process>>

\* GetTopic: topic_map_.find.
GetTopicAny(w) ==
  /\ pc[w] = "lookup"
  /\ \E n \in Names :
       /\ new_topic' = [new_topic EXCEPT ![w] = topic_map[n]]
       /\ pc' = [pc EXCEPT ![w] = IF topic_map[n] = Null THEN "create" ELSE "attach"]
  /\ UNCHANGED <<fvars, dvars, topic_map, new_endpoint, cvars, process>>
GetTopic(w) ==
  LET t == topic_map[channel_name[w]]
  IN  /\ pc[w] = "lookup"
      /\ new_topic' = [new_topic EXCEPT ![w] = t]
      /\ pc' = [pc EXCEPT ![w] = IF t = Null THEN "create" ELSE "attach"]
      /\ UNCHANGED <<fvars, dvars, topic_map, new_endpoint, cvars, process>>

\* create_topic; null makes CreateTopicChannel return null.
CreateTopic(w) ==
  /\ pc[w] = "create"
  /\ \/ /\ NameTaken(channel_name[w])
        /\ pc' = [pc EXCEPT ![w] = "assign"]
        /\ UNCHANGED <<topics, new_topic>>
     \/ /\ ~NameTaken(channel_name[w])
        /\ \E t \in Topics :
             /\ topics[t] = Null
             /\ topics' = [topics EXCEPT ![t] = channel_name[w]]
             /\ new_topic' = [new_topic EXCEPT ![w] = t]
        /\ pc' = [pc EXCEPT ![w] = "store"]
  /\ UNCHANGED <<fvars, endpoints, topic_map, new_endpoint, cvars, process>>

\* topic_map_[topic_name] = topic, and SetTopic.
StoreTopicForgets(w) ==
  /\ pc[w] = "store"
  /\ pc' = [pc EXCEPT ![w] = "attach"]
  /\ UNCHANGED <<fvars, dvars, topic_map, new_topic, new_endpoint, cvars, process>>
StoreTopic(w) ==
  /\ pc[w] = "store"
  /\ topic_map' = [topic_map EXCEPT ![channel_name[w]] = new_topic[w]]
  /\ pc' = [pc EXCEPT ![w] = "attach"]
  /\ UNCHANGED <<fvars, dvars, new_topic, new_endpoint, cvars, process>>

\* SetWriter / SetReader on the new channel: create_datawriter or
\* create_datareader, which may fail and leave the channel with no endpoint.
SetEndpointShares(w) ==
  /\ pc[w] = "attach"
  /\ \E e \in EndpointsOf(w) :
       /\ endpoints[e] \in {Null, new_topic[w]}
       /\ endpoints' = [endpoints EXCEPT ![e] = new_topic[w]]
       /\ new_endpoint' = [new_endpoint EXCEPT ![w] = e]
  /\ pc' = [pc EXCEPT ![w] = "assign"]
  /\ UNCHANGED <<fvars, topics, topic_map, new_topic, cvars, process>>
SetEndpoint(w) ==
  /\ pc[w] = "attach"
  /\ \/ UNCHANGED <<endpoints, new_endpoint>>
     \/ \E e \in EndpointsOf(w) :
          /\ endpoints[e] = Null
          /\ endpoints' = [endpoints EXCEPT ![e] = new_topic[w]]
          /\ new_endpoint' = [new_endpoint EXCEPT ![w] = e]
  /\ process' = IF topics[new_topic[w]] = Null THEN "undefined" ELSE process
  /\ pc' = [pc EXCEPT ![w] = "assign"]
  /\ UNCHANGED <<fvars, topics, topic_map, new_topic, cvars>>

\* channel_ptr_ = ...: the old channel is destroyed, which closes its
\* endpoint after the new one already exists.
AssignKeepsOld(w) ==
  /\ pc[w] = "assign"
  /\ channel_ptr' = [channel_ptr EXCEPT ![w] = IF new_topic[w] = Null THEN "null" ELSE "set"]
  /\ endpoint' = [endpoint EXCEPT ![w] = new_endpoint[w]]
  /\ new_topic' = [new_topic EXCEPT ![w] = Null]
  /\ new_endpoint' = [new_endpoint EXCEPT ![w] = Null]
  /\ pc' = [pc EXCEPT ![w] = "idle"]
  /\ UNCHANGED <<fvars, dvars, topic_map, process>>
AssignChannel(w) ==
  /\ pc[w] = "assign"
  /\ Delete(endpoint[w])
  /\ channel_ptr' = [channel_ptr EXCEPT ![w] = IF new_topic[w] = Null THEN "null" ELSE "set"]
  /\ endpoint' = [endpoint EXCEPT ![w] = new_endpoint[w]]
  /\ new_topic' = [new_topic EXCEPT ![w] = Null]
  /\ new_endpoint' = [new_endpoint EXCEPT ![w] = Null]
  /\ pc' = [pc EXCEPT ![w] = "idle"]
  /\ UNCHANGED <<fvars, topics, topic_map>>

\* CloseChannel, and the destructor of a wrapper.
CloseChannelKeepsPointer(w) ==
  /\ pc[w] = "idle"
  /\ channel_ptr[w] = "set"
  /\ Delete(endpoint[w])
  /\ UNCHANGED <<fvars, topics, topic_map, ivars, cvars>>
CloseChannelDeletesTopic(w) ==
  /\ pc[w] = "idle"
  /\ channel_ptr[w] = "set"
  /\ Delete(endpoint[w])
  /\ topics' = [t \in Topics |-> IF topics[t] = channel_name[w] THEN Null ELSE topics[t]]
  /\ channel_ptr' = [channel_ptr EXCEPT ![w] = "null"]
  /\ endpoint' = [endpoint EXCEPT ![w] = Null]
  /\ UNCHANGED <<fvars, topic_map, ivars>>
CloseChannel(w) ==
  /\ pc[w] = "idle"
  /\ channel_ptr[w] = "set"
  /\ Delete(endpoint[w])
  /\ channel_ptr' = [channel_ptr EXCEPT ![w] = "null"]
  /\ endpoint' = [endpoint EXCEPT ![w] = Null]
  /\ UNCHANGED <<fvars, topics, topic_map, ivars>>

\* Write and the matched counts go through the endpoint pointer; they return
\* false or 0 when there is none.
UseEndpoint(w) ==
  /\ pc[w] = "idle"
  /\ channel_ptr[w] = "set"
  /\ endpoint[w] # Null
  /\ process' = IF endpoints[endpoint[w]] = Null THEN "undefined" ELSE process
  /\ UNCHANGED <<fvars, dvars, topic_map, ivars, cvars>>

-----------------------------------------------------------------------------
(* Closes by topic name.                                                   *)

\* lookup_datawriter / lookup_datareader of a topic name.
Found(n, kind) == {e \in kind : endpoints[e] # Null /\ topics[endpoints[e]] = n}

\* DdsFactoryModel::CloseWriter / CloseReader: what the lookup finds is
\* deleted, whichever channel holds it.  A lookup that finds nothing passes
\* null on: it is refused, or dereferenced.
CloseByName(n, kind) ==
  /\ closes < MaxCloses
  /\ dds_factory_model = "set"
  /\ \/ /\ Found(n, kind) = {}
        /\ process' \in {"running", "undefined"}
        /\ UNCHANGED endpoints
     \/ \E e \in Found(n, kind) :
          /\ endpoints' = [endpoints EXCEPT ![e] = Null]
          /\ UNCHANGED process
  /\ closes' = closes + 1
  /\ UNCHANGED <<dds_factory_model, topics, topic_map, ivars, cvars>>

\* DdsFactoryModel::CloseTopic of what GetTopic returns for a name:
\* delete_topic, which refuses a topic in use; topic_map_ keeps the entry.
CloseTopic(n) ==
  LET t == topic_map[n]
  IN  /\ closes < MaxCloses
      /\ t # Null
      /\ topics' = IF Referenced(t) THEN topics ELSE [topics EXCEPT ![t] = Null]
      /\ process' = IF topics[t] = Null THEN "undefined" ELSE process
      /\ closes' = closes + 1
      /\ UNCHANGED <<dds_factory_model, endpoints, topic_map, ivars, cvars>>

WrapperStep(w) ==
  \/ InitChannel(w)
  \/ GetTopic(w)
  \/ CreateTopic(w)
  \/ StoreTopic(w)
  \/ SetEndpoint(w)
  \/ AssignChannel(w)
  \/ CloseChannel(w)
  \/ UseEndpoint(w)

FactoryStep ==
  \/ InitFactory
  \/ \E n \in Names : CloseByName(n, Writers) \/ CloseByName(n, Readers)
  \/ \E n \in Names : CloseTopic(n)

Next ==
  /\ process = "running"
  /\ FactoryStep \/ \E w \in Wrappers : WrapperStep(w)

Spec == Init /\ [][Next]_vars

\* InitChannel does not wait for anything, so its thread runs it to the end.
FairSpec ==
  /\ Spec
  /\ \A w \in Wrappers :
       WF_vars(/\ process = "running"
               /\ GetTopic(w) \/ CreateTopic(w) \/ StoreTopic(w)
                    \/ SetEndpoint(w) \/ AssignChannel(w))
-----------------------------------------------------------------------------
(* Properties.                                                             *)

States == {"idle", "lookup", "create", "store", "attach", "assign"}

\* The values the factory, the wrappers and topic_map_ hold.
TypeOK ==
  /\ dds_factory_model \in {"null", "set"}
  /\ topics \in [Topics -> Names \cup {Null}]
  /\ endpoints \in [Endpoints -> Topics \cup {Null}]
  /\ topic_map \in [Names -> Topics \cup {Null}]
  /\ pc \in [Wrappers -> States]
  /\ new_topic \in [Wrappers -> Topics \cup {Null}]
  /\ new_endpoint \in [Wrappers -> Endpoints \cup {Null}]
  /\ channel_ptr \in [Wrappers -> {"null", "set"}]
  /\ endpoint \in [Wrappers -> Endpoints \cup {Null}]
  /\ closes \in Nat
  /\ process \in {"running", "undefined"}

Holds(w, e) == endpoint[w] = e \/ new_endpoint[w] = e

\* No endpoint leaks: every existing writer or reader is the one some wrapper
\* uses or is about to use, through re-initialization, lost creation races,
\* failed creations and closes of both kinds, after which an address may be
\* held by several wrappers.
NoEndpointLeak ==
  \A e \in Endpoints : endpoints[e] # Null => \E w \in Wrappers : Holds(w, e)

\* The properties from here on are promised to an application that closes
\* through its wrappers: a close by name takes an endpoint or a topic from
\* under them.

\* No two channels hold one endpoint, so closing a channel never deletes the
\* writer or reader of another one.
EndpointNotShared ==
  closes > 0 \/
    \A e \in Endpoints : \A w, v \in Wrappers :
      /\ Holds(w, e) /\ Holds(v, e) => w = v
      /\ ~(endpoint[w] = e /\ new_endpoint[w] = e)

\* What topic_map_ returns for a name exists and is the topic of that name.
MapCoherent ==
  closes > 0 \/ \A n \in Names : topic_map[n] # Null => topics[topic_map[n]] = n

\* A topic that topic_map_ does not name is on its way into it: otherwise
\* every later InitChannel of that name would fail in create_topic.
NoLostTopic ==
  closes > 0 \/
    \A t \in Topics : topics[t] # Null =>
      \/ topic_map[topics[t]] = t
      \/ \E w \in Wrappers : pc[w] = "store" /\ new_topic[w] = t

\* A wrapper's endpoint is on the topic whose name the wrapper was given.
OnOwnTopic ==
  closes > 0 \/
    \A e \in Endpoints : \A w \in Wrappers :
      Holds(w, e) /\ endpoints[e] # Null => topics[endpoints[e]] = channel_name[w]

\* No Fast DDS object that has been deleted is used.
NoFreedUse == closes > 0 \/ process = "running"

\* InitChannel with an initialized factory ends with a channel, as
\* CreateSendChannel's "Returns null if the factory is uninitialized" says.
NullOnlyIfUninitialized ==
  \A w \in Wrappers : pc[w] = "assign" => new_topic[w] # Null

\* A topic that was created is eventually found by every later lookup.
TopicBecomesShared ==
  \A t \in Topics : \A n \in Names :
    topics[t] = n ~> topic_map[n] = t \/ process = "undefined"

-----------------------------------------------------------------------------
(* The inductive invariant.                                                *)

\* What a thread in the middle of InitChannel has in its hands.
LocalsMatch ==
  \A w \in Wrappers :
    /\ pc[w] # "assign" \/ new_topic[w] = Null => new_endpoint[w] = Null
    /\ pc[w] \in {"idle", "lookup", "create"} => new_topic[w] = Null
    /\ pc[w] \in {"store", "attach"} => new_topic[w] # Null
    /\ channel_ptr[w] = "null" => endpoint[w] = Null

NamesUnique == \A t, u \in Topics : topics[t] # Null /\ topics[t] = topics[u] => t = u

\* The topic a thread builds its channel on is the one of its name.
LocalTopicOwn ==
  closes > 0 \/
    \A w \in Wrappers : new_topic[w] # Null => topics[new_topic[w]] = channel_name[w]

\* The pointer Write, CloseWriter and the matched counts follow is null or an
\* endpoint that exists.
HeldEndpointLive ==
  closes > 0 \/
    \A e \in Endpoints : \A w \in Wrappers : Holds(w, e) => endpoints[e] # Null

\* What holds whatever is closed by name.
AnyCloses ==
  /\ TypeOK
  /\ LocalsMatch
  /\ NamesUnique
  /\ NoEndpointLeak

IInv ==
  /\ AnyCloses
  /\ LocalTopicOwn
  /\ NoFreedUse
  /\ HeldEndpointLive
  /\ EndpointNotShared
  /\ MapCoherent
  /\ NoLostTopic
  /\ OnOwnTopic
=============================================================================
