------------------------------- MODULE Client --------------------------------
(***************************************************************************)
(* The clients of a process (lib/client/client.js) with their consumers    *)
(* (consumer.js), each consumer's address group as far as its life goes    *)
(* (address_group.js:41-58, 354-366), and the counters that groups and     *)
(* connections take from the shared cache and close when they end.         *)
(*                                                                         *)
(* The registry is external and calls a listener with lists as long as it  *)
(* is subscribed.  Connections, whose steps are those of ConnectionManager *)
(* and RpcConnection, are made when a group of the client has addresses    *)
(* and go down at any time; what a group does with its addresses is the    *)
(* matter of AddressGroup.                                                 *)
(***************************************************************************)
EXTENDS Scheduler

CONSTANTS Consumer, Conn, Rpc,  \* consumers, connections and clients
          ClientOf,        \* the client of each consumer and connection
          KeyOf,           \* key of its counter: group of a consumer, host of
                           \* a connection
          CacheKeyOf,      \* formatKey(): it has more parts than the group
          Cached,          \* consumers created with the option cache
          Registered       \* consumers without serverHost that have a registry

User == Consumer \cup Conn
GroupKey == {KeyOf[c] : c \in Consumer}

ASSUME UsersHaveKeys ==
  /\ Consumer \cap Conn = {}
  /\ KeyOf \in [User -> Key] /\ ClientOf \in [User -> Rpc]
  /\ Cached \subseteq Consumer /\ Registered \subseteq Consumer
  /\ \A k \in Conn : KeyOf[k] \notin GroupKey

VARIABLES phase,           \* of _init(): none, new, waiting for the registry, started
          group,           \* _addressGroup: none, bare, listed or ready
          groupClosed,     \* consumers whose group is closed
          consumerCache,   \* _consumerCache, of all clients
          subscribed,      \* consumers whose listener the registry calls
          unlisted,        \* consumers whose setImmediate() is due
          calling,         \* consumers with a call under way
          up,              \* connections that are not closed
          holds,           \* users that have the counter now cached for their key
          regulates,       \* consumers whose group listens for its windows
          gone,            \* history: close() was called
          early,           \* history: the last close() came before the addresses
          cleared,         \* history: counters that were there at a clear()
          orphans,         \* history: counters a call made when it ended
          robbed           \* history: users whose counter was closed by another

consumerVars == <<phase, group, groupClosed, consumerCache, subscribed, unlisted,
                  calling, gone, early>>
counterVars == <<schedulerVars, holds, regulates, cleared, orphans, robbed>>
vars == <<consumerVars, counterVars, up>>

Init ==
  /\ SchedulerInit
  /\ phase = [c \in Consumer |-> "none"]
  /\ group = [c \in Consumer |-> "none"]
  /\ groupClosed = {} /\ consumerCache = {} /\ subscribed = {} /\ unlisted = {}
  /\ calling = {} /\ up = {}
  /\ holds = {} /\ regulates = {}
  /\ gone = {} /\ early = {} /\ cleared = {} /\ orphans = {} /\ robbed = {}

SharingKey(keys) == {u \in User : KeyOf[u] \in keys}

\* Variant: the listeners for 'next' are not removed.
ForsakeListened(keys, closers) ==
  /\ holds' = holds \ SharingKey(keys)
  /\ UNCHANGED regulates
  /\ robbed' = (robbed \cup (holds \cap SharingKey(keys))) \ closers
  /\ orphans' = orphans \ keys

\* What the end of the counters of `keys` means for those who have them.
Forsake(keys, closers) ==
  /\ holds' = holds \ SharingKey(keys)
  /\ regulates' = regulates \ SharingKey(keys)
  /\ robbed' = (robbed \cup (holds \cap SharingKey(keys))) \ closers
  /\ orphans' = orphans \ keys

-----------------------------------------------------------------------------
(* The life of a consumer *)

SameCacheKey(c) == {d \in Consumer : CacheKeyOf[d] = CacheKeyOf[c]}

\* createConsumer(), when it does not find one in the cache.
CreateConsumer(c) ==
  /\ phase[c] = "none"
  /\ c \in Cached => consumerCache \cap SameCacheKey(c) = {}
  /\ phase' = [phase EXCEPT ![c] = "new"]
  /\ consumerCache' = consumerCache \cup ({c} \cap Cached)
  /\ UNCHANGED <<group, groupClosed, subscribed, unlisted, calling, gone, early,
                 counterVars, up>>

NewGroup(c) ==
  /\ group' = [group EXCEPT ![c] = "bare"]
  /\ groupClosed' = groupClosed \ {c}

\* Variant: without a registry and a serverHost, no list is set.
InitUnlisted(c) ==
  /\ phase[c] = "new"
  /\ NewGroup(c)
  /\ phase' = [phase EXCEPT ![c] = IF c \in Registered THEN "waiting" ELSE "started"]
  /\ UNCHANGED <<unlisted, consumerCache, subscribed, calling, gone, early,
                 counterVars, up>>

\* _init(), in a tick of its own: close() may have come before.
InitConsumer(c) ==
  /\ phase[c] = "new"
  /\ NewGroup(c)
  /\ phase' = [phase EXCEPT ![c] = IF c \in Registered THEN "waiting" ELSE "started"]
  /\ unlisted' = unlisted \cup ({c} \ Registered)
  /\ UNCHANGED <<consumerCache, subscribed, calling, gone, early, counterVars, up>>

\* _init() goes on when the registry is ready, with another group.
RegistryReady(c) ==
  /\ phase[c] = "waiting"
  /\ NewGroup(c)
  /\ phase' = [phase EXCEPT ![c] = "started"]
  /\ subscribed' = subscribed \cup {c}
  /\ UNCHANGED <<consumerCache, unlisted, calling, gone, early, counterVars, up>>

\* setImmediate(), once, or a push of the registry.
SetAddressList(c) ==
  /\ c \in unlisted \cup subscribed
  /\ unlisted' = unlisted \ {c}
  /\ group' = [group EXCEPT ![c] = IF @ = "bare" THEN "listed" ELSE @]
  /\ UNCHANGED <<phase, groupClosed, consumerCache, subscribed, calling, gone,
                 early, counterVars, up>>

Regulate(c) ==
  IF regulates \cap SharingKey({KeyOf[c]}) = {} THEN {c} ELSE {}

BecomesReady(c) ==
  /\ group[c] = "listed"
  /\ group' = [group EXCEPT ![c] = "ready"]
  /\ UNCHANGED <<phase, groupClosed, consumerCache, subscribed, unlisted, calling,
                 gone, early, cleared, orphans, robbed, up>>

\* Variant: the counter of the group is put before those that are there.
GroupReadyFirst(c) ==
  /\ BecomesReady(c)
  /\ IF c \in groupClosed THEN UNCHANGED <<schedulerVars, holds, regulates>>
     ELSE /\ GetInstance(KeyOf[c], TRUE)
          /\ holds' = holds \cup {c}
          /\ regulates' = regulates \cup Regulate(c)

\* Variant: a group that is closed goes on.
GroupReadyClosed(c) ==
  /\ BecomesReady(c)
  /\ GetInstance(KeyOf[c], FALSE)
  /\ holds' = holds \cup {c}
  /\ regulates' = regulates \cup Regulate(c)

\* The callback of ready(), unless the group is closed by then: it takes the
\* counter of its key and listens for the windows if no other group does.  The
\* consumer is ready with its group.
GroupReady(c) ==
  /\ BecomesReady(c)
  /\ IF c \in groupClosed THEN UNCHANGED <<schedulerVars, holds, regulates>>
     ELSE /\ GetInstance(KeyOf[c], FALSE)
          /\ holds' = holds \cup {c}
          /\ regulates' = regulates \cup Regulate(c)

BeginCall(c) ==
  /\ group[c] = "ready" /\ c \notin calling
  /\ calling' = calling \cup {c}
  /\ UNCHANGED <<phase, group, groupClosed, consumerCache, subscribed, unlisted,
                 gone, early, counterVars, up>>

\* The call is counted for its group, though the consumer may be closed by now.
EndCall(c) ==
  /\ c \in calling
  /\ calling' = calling \ {c}
  /\ GetInstance(KeyOf[c], TRUE)
  /\ orphans' = orphans \cup ({KeyOf[c]} \ cache)
  /\ UNCHANGED <<phase, group, groupClosed, consumerCache, subscribed, unlisted,
                 gone, early, holds, regulates, cleared, robbed, up>>

-----------------------------------------------------------------------------
(* Closing *)

KeysHeldBy(users) == {KeyOf[u] : u \in users \cap holds}

\* What close() of a consumer does besides the counter of its group.  A group
\* that is still to be made is not closed.  'close' is heard once.
CloseConsumers(ids) ==
  /\ groupClosed' = groupClosed \cup {c \in ids : group[c] # "none"}
  /\ subscribed' = subscribed \ ids
  /\ consumerCache' = consumerCache \ UNION {SameCacheKey(c) : c \in (ids \ gone) \cap Cached}
  /\ gone' = gone \cup ids
  /\ early' = (early \ ids) \cup {c \in ids : phase[c] # "started" \/ c \in unlisted}
  /\ UNCHANGED <<phase, group, unlisted, calling, up>>

\* Variant: the group does not close its counter.
CloseConsumerKeepingCounter(c) ==
  /\ phase[c] # "none"
  /\ CloseConsumers({c})
  /\ holds' = holds \ {c}
  /\ UNCHANGED <<schedulerVars, regulates, cleared, orphans, robbed>>

CloseConsumer(c) ==
  /\ phase[c] # "none"
  /\ CloseConsumers({c})
  /\ CloseCounters(KeysHeldBy({c}))
  /\ Forsake(KeysHeldBy({c}), {c})
  /\ cleared' = cleared \ KeysHeldBy({c})

\* close() of a client: the scheduler first, then the consumers it has cached.
\* Its connections go down later.
CloseClient(m) ==
  LET ids == {c \in consumerCache : ClientOf[c] = m} IN
  /\ CloseConsumers(ids)
  /\ ClearAndClose(KeysHeldBy(ids))
  /\ Forsake(KeysHeldBy(ids), ids)
  /\ cleared' = cache'

-----------------------------------------------------------------------------
(* Connections *)

ConnUp(k) ==
  /\ k \notin up
  /\ \E c \in Consumer : ClientOf[c] = ClientOf[k] /\ group[c] \in {"listed", "ready"}
  /\ up' = up \cup {k}
  /\ GetInstance(KeyOf[k], TRUE)
  /\ holds' = holds \cup {k}
  /\ robbed' = robbed \ {k}
  /\ UNCHANGED <<consumerVars, regulates, cleared, orphans>>

\* 'close' of the connection, which closes the breaker it was given.
ConnDown(k) ==
  /\ k \in up
  /\ up' = up \ {k}
  /\ CloseCounters(KeysHeldBy({k}))
  /\ Forsake(KeysHeldBy({k}), {k})
  /\ cleared' = cleared \ KeysHeldBy({k})
  /\ UNCHANGED consumerVars

Next ==
  \/ \E c \in Consumer :
       \/ CreateConsumer(c) \/ InitConsumer(c) \/ RegistryReady(c)
       \/ SetAddressList(c) \/ GroupReady(c) \/ BeginCall(c) \/ EndCall(c)
       \/ CloseConsumer(c)
  \/ \E m \in Rpc : CloseClient(m)
  \/ \E k \in Conn : ConnUp(k) \/ ConnDown(k)

Spec == Init /\ [][Next]_vars

\* Ticks, immediates and promises are handled; the registry becomes ready and
\* has a list for its subscribers, as ZookeeperRegistry shows of it.
Fairness ==
  \A c \in Consumer :
    /\ WF_vars(InitConsumer(c)) /\ WF_vars(RegistryReady(c))
    /\ WF_vars(SetAddressList(c)) /\ WF_vars(GroupReady(c))

FairSpec == Spec /\ Fairness

-----------------------------------------------------------------------------
TypeOK ==
  /\ timer \in BOOLEAN /\ listeners \in Seq(Key) /\ cache \subseteq Key
  /\ phase \in [Consumer -> {"none", "new", "waiting", "started"}]
  /\ group \in [Consumer -> {"none", "bare", "listed", "ready"}]
  /\ groupClosed \subseteq Consumer /\ consumerCache \subseteq Cached
  /\ subscribed \subseteq Consumer /\ unlisted \subseteq Consumer
  /\ calling \subseteq Consumer /\ up \subseteq Conn
  /\ holds \subseteq User /\ regulates \subseteq Consumer
  /\ gone \subseteq Consumer /\ early \subseteq Consumer
  /\ cleared \subseteq Key /\ orphans \subseteq Key /\ robbed \subseteq User

Listening == ToSet(listeners)

(* The timer runs exactly as long as there is somebody to tick, nobody is   *)
(* ticked twice or after his end, and whoever is cached is ticked, unless   *)
(* he was there when some client of the process was closed                  *)
(* (scheduler.js:16-45, client.js:45-52).                                   *)
CountersAreTicked ==
  /\ timer <=> listeners # <<>>
  /\ Cardinality(Listening) = Len(listeners)
  /\ Listening = cache \ cleared

(* Every counter has somebody who will close it, except one that a call has *)
(* made by ending when the counter of its group was closed already          *)
(* (consumer.js:211-213, health_counter.js:36-45): nobody closes that one   *)
(* but a later group with its key, and the timer keeps the process alive.   *)
CountersAreOwned == \A key \in cache : key \in KeysHeldBy(User) \cup orphans

(* "确保 avgCounter 在最后触发" (address_group.js:44): the window of a group    *)
(* ends after those of all connections, whatever comes and goes, unless     *)
(* the counter of the group was made by such a call.                        *)
GroupsFireLast ==
  \A i, j \in 1 .. Len(listeners) :
    i < j /\ listeners[i] \in GroupKey \ orphans => listeners[j] \in GroupKey

Living == {c \in Consumer : group[c] = "ready" /\ c \notin groupClosed}

(* A group that lives and a connection that is up have the counter cached   *)
(* for their key, and its windows reach a group that lives, until the first *)
(* of those with that key is closed and takes the counter along             *)
(* (address_group.js:42-56, 354-362, rpc.js:280, circuit_breaker.js:123).   *)
UsersAreCounted ==
  /\ (Living \cup up) \ robbed \subseteq holds
  /\ KeysHeldBy(Consumer) \subseteq KeysHeldBy(regulates \cap Living)

(* A consumer that was closed when its addresses were there, or were asked  *)
(* for, leaves nothing behind; one that was not closed is found in the      *)
(* cache of its client (consumer.js:237-246, client.js:105-109).            *)
ClosedConsumersRest ==
  /\ \A c \in gone \ early :
       c \in groupClosed /\ c \notin subscribed \cup unlisted \cup holds \cup regulates
  /\ consumerCache = {c \in Cached : phase[c] # "none"} \ gone

(* A consumer becomes ready, with the second of its groups if it has a      *)
(* registry, or is closed (consumer.js:78-102).                             *)
ConsumersBecomeReady ==
  \A c \in Consumer : phase[c] # "none" ~> group[c] = "ready" \/ c \in gone
=============================================================================
