-------------------------- MODULE ZookeeperRegistry --------------------------
(***************************************************************************)
(* The registry client of one process (lib/registry/zk/data_client.js) for *)
(* one interface: the providers it registers in ZooKeeper, which it        *)
(* registers again whenever it is connected again, and the listeners it    *)
(* keeps informed of the list of providers.                                *)
(*                                                                         *)
(* ZooKeeper is external.  It answers the requests of a session in the     *)
(* order they were sent; those not answered when the connection is lost    *)
(* fail, and any number of them may have been carried out.  A request that *)
(* is issued while there is no connection waits for the next one.  The     *)
(* nodes of a session outlive it for a while.  watchChildren() reports the *)
(* children at first and after every change until unWatchChildren().       *)
(*                                                                         *)
(* The continuation of a request sends the next one as soon as the answer  *)
(* is there, so a request stands for its whole task.  The consumer's own   *)
(* node (written, and never read here) and the end of the client are left  *)
(* out.                                                                    *)
(***************************************************************************)
EXTENDS Naturals, SequencesExt

CONSTANTS
  Url,             \* provider urls of the interface; a path per url
  Listener,
  Matching,        \* listener -> the urls its config accepts (_isMatch)
  Absent, Null,    \* no entry in _subscribeMap; an entry without a list
  MaxRequests,     \* bound: requests under way when another one is issued
  MaxImmediates    \* bound: calls of setImmediate() that have not run

ASSUME MatchingAssumption == Matching \in [Listener -> SUBSET Url]
ASSUME NullAssumption == Null \notin Url
ASSUME AbsentAssumption ==
  Absent # Null /\ \A list \in SUBSET Url : list \notin {Absent, Null}
ASSUME UrlAssumption == IsFiniteSet(Url)

VARIABLES
  session,         \* up or down
  node,            \* path -> none, mine (of this session) or old (of an earlier one)
  requests,        \* the requests under way, oldest first
  registerMap,     \* urls in _registerMap
  subscribeMap,    \* the interface's entry in _subscribeMap
  watches,         \* the subscribers whose watchChildren() is in force
  listeners,       \* listeners of the interface's event
  immediates,      \* what setImmediate() is to deliver to whom
  seen,            \* listener -> the list it was called with last, or Null
  left,            \* history: urls unregistered while nothing else was going on
  lost             \* history: the mkdirp of a subscription failed

providerVars == <<registerMap, left>>
consumerVars == <<subscribeMap, watches, listeners, immediates, seen, lost>>
vars == <<session, node, requests, providerVars, consumerVars>>

Init ==
  /\ session = "up"
  /\ node \in [Url -> {"none", "old"}]
  /\ requests = <<>>
  /\ registerMap = {} /\ left = {}
  /\ subscribeMap = Absent
  /\ watches = {}
  /\ listeners = {}
  /\ immediates = <<>>
  /\ seen = [l \in Listener |-> Null]
  /\ lost = FALSE

Request(op, url) == [op |-> op, url |-> url]
WatchRequest(l) == [op |-> "watch", url |-> Null, by |-> l]
InFlight(url) == \E i \in DOMAIN requests : requests[i].url = url
Room == Len(requests) < MaxRequests
Children == {url \in Url : node[url] # "none"}

-----------------------------------------------------------------------------
(* register(config): mkdirp, exists, remove what is there, create *)

Register(url) ==
  /\ Room
  /\ requests' = Append(requests, Request("mkdirp", url))
  /\ left' = left \ {url}
  /\ UNCHANGED <<session, node, registerMap, consumerVars>>

\* The oldest request is answered, and `next` is sent by its continuation.
Answered(op, next) ==
  /\ session = "up"
  /\ requests # <<>>
  /\ Head(requests).op = op
  /\ requests' = Tail(requests) \o next
  /\ UNCHANGED session

MkdirpDone ==
  \E url \in Url :
    /\ Answered("mkdirp", <<Request("exists", url)>>)
    /\ Head(requests).url = url
    /\ registerMap' = registerMap \cup {url}
    /\ UNCHANGED <<node, left, consumerVars>>

\* Variant: a node that is there already is left alone.
ExistsDoneKeepingNode ==
  \E url \in Url :
    /\ Answered("exists", <<Request("create", url)>>)
    /\ Head(requests).url = url
    /\ UNCHANGED <<node, providerVars, consumerVars>>

ExistsDone ==
  \E url \in Url :
    /\ Answered("exists",
         <<Request(IF node[url] = "none" THEN "create" ELSE "remove", url)>>)
    /\ Head(requests).url = url
    /\ UNCHANGED <<node, providerVars, consumerVars>>

\* A node that is gone already is as good (NO_NODE).
RemoveDone ==
  \E url \in Url :
    /\ Answered("remove", <<Request("create", url)>>)
    /\ Head(requests).url = url
    /\ node' = [node EXCEPT ![url] = "none"]
    /\ UNCHANGED <<providerVars, consumerVars>>

\* A node that is there already is as good (NODE_EXISTS).
CreateDone ==
  \E url \in Url :
    /\ Answered("create", <<>>)
    /\ Head(requests).url = url
    /\ node' = [node EXCEPT ![url] = IF @ = "none" THEN "mine" ELSE @]
    /\ UNCHANGED <<providerVars, consumerVars>>

-----------------------------------------------------------------------------
(* unRegister(config) *)

\* Variant: the entry stays in _registerMap.
UnRegisterKeepingEntry(url) ==
  /\ Room
  /\ requests' = Append(requests, Request("unRegister", url))
  /\ left' = IF InFlight(url) THEN left ELSE left \cup {url}
  /\ UNCHANGED <<session, node, registerMap, consumerVars>>

UnRegister(url) ==
  /\ Room
  /\ registerMap' = registerMap \ {url}
  /\ requests' = Append(requests, Request("unRegister", url))
  /\ left' = IF InFlight(url) THEN left ELSE left \cup {url}
  /\ UNCHANGED <<session, node, consumerVars>>

UnRegisterDone ==
  \E url \in Url :
    /\ Answered("unRegister", <<>>)
    /\ Head(requests).url = url
    /\ node' = [node EXCEPT ![url] = "none"]
    /\ UNCHANGED <<providerVars, consumerVars>>

-----------------------------------------------------------------------------
(* subscribe(config, listener) and unSubscribe(config, listener) *)

\* The first subscriber has the children watched; the list that is known
\* already is passed on later.
Subscribe(l) ==
  /\ l \notin listeners /\ Room /\ Len(immediates) < MaxImmediates
  /\ listeners' = listeners \cup {l}
  /\ seen' = [seen EXCEPT ![l] = Null]
  /\ IF subscribeMap = Absent
     THEN /\ subscribeMap' = Null
          /\ requests' = Append(requests, WatchRequest(l))
          /\ lost' = FALSE
          /\ UNCHANGED immediates
     ELSE /\ immediates' = IF subscribeMap = Null THEN immediates
                           ELSE Append(immediates, <<l, subscribeMap>>)
          /\ UNCHANGED <<subscribeMap, requests, lost>>
  /\ UNCHANGED <<session, node, providerVars, watches>>

\* The mkdirp of a subscription is done: watchChildren().
WatchReady ==
  /\ Answered("watch", <<>>)
  /\ watches' = watches \cup {Head(requests).by}
  /\ UNCHANGED <<node, providerVars, subscribeMap, listeners, immediates, seen, lost>>

\* A watch reports the children.  Those that match the config which the watch
\* was made with go to the map and to every listener.
Notify(w) ==
  /\ session = "up"
  /\ w \in watches
  /\ subscribeMap' = Children \cap Matching[w]
  /\ seen' = [l \in Listener |-> IF l \in listeners THEN subscribeMap' ELSE seen[l]]
  /\ UNCHANGED <<session, node, requests, providerVars, watches, listeners,
                 immediates, lost>>

RunImmediate ==
  /\ immediates # <<>>
  /\ seen' = [seen EXCEPT ![Head(immediates)[1]] = Head(immediates)[2]]
  /\ immediates' = Tail(immediates)
  /\ UNCHANGED <<session, node, requests, providerVars, subscribeMap, watches,
                 listeners, lost>>

\* Variant: the interface keeps its entry.
UnSubscribeKeepingEntry(ls) ==
  /\ listeners' = listeners \ ls
  /\ watches' = IF listeners' = {} THEN {} ELSE watches
  /\ UNCHANGED <<session, node, requests, providerVars, subscribeMap, immediates,
                 seen, lost>>

\* unSubscribe() of one listener, or of all; the last one takes the watch and
\* the entry along.
UnSubscribe(ls) ==
  /\ listeners' = listeners \ ls
  /\ IF listeners' = {}
     THEN watches' = {} /\ subscribeMap' = Absent
     ELSE UNCHANGED <<watches, subscribeMap>>
  /\ UNCHANGED <<session, node, requests, providerVars, immediates, seen, lost>>

-----------------------------------------------------------------------------
(* The session *)

\* What the first k requests make of the node of url: the last removal counts,
\* and a creation after it.
Applied(k, url) ==
  LET of(ops) == {i \in 1..k : requests[i].url = url /\ requests[i].op \in ops}
      removals == of({"remove", "unRegister"})
      before == IF removals = {} THEN node[url] ELSE "none"
      created == \E i \in of({"create"}) : \A j \in removals : j < i
  IN IF created /\ before = "none" THEN "mine" ELSE before

\* Whatever is under way fails.
FailRequests ==
  /\ requests' = <<>>
  /\ left' = left \ {url \in Url : \E i \in DOMAIN requests :
                       requests[i] = Request("unRegister", url)}
  /\ lost' = (lost \/ InFlight(Null))

\* ... after the first k requests have been carried out.
Disconnect ==
  /\ session = "up"
  /\ session' = "down"
  /\ \E k \in 0..Len(requests) :
       node' = [url \in Url |-> Applied(k, url)]
  /\ FailRequests
  /\ UNCHANGED <<registerMap, subscribeMap, watches, listeners, immediates, seen>>

\* The session is given up for a new one.
Expire ==
  /\ session = "down"
  /\ node' = [url \in Url |-> IF node[url] = "mine" THEN "old" ELSE node[url]]
  /\ FailRequests
  /\ UNCHANGED <<session, registerMap, subscribeMap, watches, listeners, immediates, seen>>

\* The nodes of earlier sessions go.
NodeExpires(url) ==
  /\ node[url] = "old"
  /\ node' = [node EXCEPT ![url] = "none"]
  /\ UNCHANGED <<session, requests, providerVars, consumerVars>>

\* 'connected': _reRegister() everything in _registerMap.
Connected ==
  /\ session = "down"
  /\ session' = "up"
  /\ \E urls \in SetToSeqs(registerMap) :
       requests' = requests \o [i \in DOMAIN urls |-> Request("mkdirp", urls[i])]
  /\ UNCHANGED <<node, providerVars, consumerVars>>

Answer ==
  \/ MkdirpDone \/ ExistsDone \/ RemoveDone \/ CreateDone
  \/ UnRegisterDone \/ WatchReady

Next ==
  \/ \E url \in Url : Register(url) \/ UnRegister(url) \/ NodeExpires(url)
  \/ \E l \in Listener : Subscribe(l) \/ UnSubscribe({l})
  \/ UnSubscribe(Listener)
  \/ \E w \in Listener : Notify(w)
  \/ Answer \/ RunImmediate
  \/ Disconnect \/ Expire \/ Connected

Spec == Init /\ [][Next]_vars

\* ZooKeeper answers and reports while there is a connection.
Fairness ==
  /\ WF_vars(Answer) /\ WF_vars(RunImmediate)
  /\ WF_vars(\E w \in Listener : Notify(w))

FairSpec == Spec /\ Fairness

-----------------------------------------------------------------------------
Lists == SUBSET Url
Requests == [op : {"mkdirp", "exists", "remove", "create", "unRegister"}, url : Url]
              \cup {WatchRequest(l) : l \in Listener}

TypeOK ==
  /\ session \in {"up", "down"}
  /\ node \in [Url -> {"none", "mine", "old"}]
  /\ requests \in Seq(Requests)
  /\ registerMap \subseteq Url /\ left \subseteq Url
  /\ subscribeMap \in Lists \cup {Absent, Null}
  /\ watches \subseteq Listener
  /\ listeners \subseteq Listener
  /\ immediates \in Seq({<<l, list>> : l \in Listener, list \in Lists})
  /\ seen \in [Listener -> Lists \cup {Null}]
  /\ lost \in BOOLEAN

(* When a connected client has nothing under way, all that it registered is *)
(* in ZooKeeper under its present session and will not expire, however      *)
(* register(), unRegister(), the registration after each reconnect and the  *)
(* end of earlier sessions interleave (data_client.js:63-108).              *)
RegisteredIsVisible ==
  session = "up" /\ requests = <<>> => \A url \in registerMap : node[url] = "mine"

(* A provider that unRegister() has taken out while no register() of it was *)
(* under way stays out, reconnects included (data_client.js:101-108).       *)
UnregisteredStaysGone ==
  \A url \in left : ~ InFlight(url) => node[url] = "none"

(* Who finds an entry in _subscribeMap relies on somebody else's watch: it  *)
(* is there or on its way, unless its mkdirp has failed                     *)
(* (data_client.js:114-170).                                                *)
SubscriptionLives ==
  subscribeMap # Absent => watches # {} \/ InFlight(Null) \/ lost

(* Every subscriber is called with a list in the end, if the connection     *)
(* becomes stable and the mkdirp of the subscription has not failed         *)
(* (data_client.js:110-154).                                                *)
SubscribersAreServed ==
  <>[](session = "up") =>
    \A l \in Listener :
      l \in listeners ~> l \notin listeners \/ seen[l] # Null \/ lost

(* "should filter with version & group" (test/registry/index.test.js:141): a *)
(* listener is only told of providers that its own config accepts.          *)
ListenersGetMatching ==
  \A l \in listeners : seen[l] # Null => seen[l] \subseteq Matching[l]
=============================================================================
