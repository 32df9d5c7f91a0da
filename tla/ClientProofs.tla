----------------------------- MODULE ClientProofs -----------------------------
(***************************************************************************)
(* What holds of the clients of a process for every number of clients,     *)
(* consumers and connections and however they share keys: no counter is    *)
(* without an owner, who uses one is counted until another owner closes    *)
(* it, and a closed consumer rests.  The order of the listeners plays no   *)
(* part in that; the last part of the module is about the list, through    *)
(* every insertion and removal, and about consumers that become ready.     *)
(***************************************************************************)
EXTENDS Client, FiniteSetTheorems, SequenceTheorems, TLAPS

\* The parts of TypeOK the argument needs.
SetsOK ==
  /\ phase \in [Consumer -> {"none", "new", "waiting", "started"}]
  /\ group \in [Consumer -> {"none", "bare", "listed", "ready"}]
  /\ consumerCache \subseteq Cached /\ up \subseteq Conn
  /\ holds \subseteq User /\ regulates \subseteq Consumer
  /\ gone \subseteq Consumer /\ early \subseteq Consumer

(* Counters are held by those who live, and are cached as long as they are  *)
(* held; a group that listens for windows holds the counter.                *)
HoldersLive ==
  /\ holds \subseteq Living \cup up
  /\ KeysHeldBy(User) \subseteq cache
  /\ regulates \subseteq holds

(* A group is there once _init() has come so far, lists come only then, no  *)
(* consumer is closed before it is created, and one that was closed in time *)
(* had its addresses.                                                       *)
InOrder ==
  \A c \in Consumer :
    /\ phase[c] = "started" => group[c] # "none"
    /\ phase[c] # "started" => group[c] \in {"none", "bare"}
    /\ c \in unlisted \cup subscribed => phase[c] = "started"
    /\ c \in gone => phase[c] # "none"
    /\ c \in gone \ early => phase[c] = "started"

\* The client's cache has one consumer for a key.
CacheIsKeyed ==
  \A c, d \in consumerCache : CacheKeyOf[c] = CacheKeyOf[d] => c = d

IInv ==
  /\ SetsOK
  /\ HoldersLive
  /\ InOrder
  /\ CacheIsKeyed
  /\ CountersAreOwned
  /\ UsersAreCounted
  /\ ClosedConsumersRest

LEMMA InitIInv == Init => IInv
<1> SUFFICES ASSUME Init PROVE IInv
  OBVIOUS
<1> USE DEF Init, SchedulerInit
<1>1. SetsOK /\ InOrder /\ CacheIsKeyed
  BY DEF SetsOK, InOrder, CacheIsKeyed
<1>2. HoldersLive
  BY DEF HoldersLive, KeysHeldBy
<1>3. CountersAreOwned /\ UsersAreCounted /\ ClosedConsumersRest
  BY UsersHaveKeys DEF CountersAreOwned, UsersAreCounted, Living, KeysHeldBy,
                       ClosedConsumersRest
<1> QED BY <1>1, <1>2, <1>3 DEF IInv

-----------------------------------------------------------------------------
(* Steps that leave all counters and connections alone.                     *)
LEMMA QuietStep ==
  ASSUME IInv, UNCHANGED <<counterVars, up>>, Living \subseteq Living', SetsOK',
         InOrder', CacheIsKeyed', ClosedConsumersRest',
         Living' \subseteq Living
  PROVE  IInv'
<1> USE DEF IInv, counterVars, schedulerVars, KeysHeldBy
<1>1. HoldersLive'
  BY DEF HoldersLive
<1>2. CountersAreOwned' /\ UsersAreCounted'
  BY DEF CountersAreOwned, UsersAreCounted
<1> QED BY <1>1, <1>2

LEMMA CreateKeeps == ASSUME IInv, NEW c \in Consumer, CreateConsumer(c) PROVE IInv'
<1> USE DEF IInv, CreateConsumer, counterVars, schedulerVars
<1>1. Living' = Living
  BY DEF Living
<1>2. SetsOK' /\ InOrder'
  BY DEF SetsOK, InOrder
<1>3. CacheIsKeyed'
  BY UsersHaveKeys DEF CacheIsKeyed, SameCacheKey, SetsOK
<1>4. ClosedConsumersRest'
  BY DEF ClosedConsumersRest, InOrder, SetsOK
<1> QED BY <1>1, <1>2, <1>3, <1>4, QuietStep

\* Steps that do not touch the client's cache either.
LEMMA BeginningKeeps ==
  ASSUME IInv, NEW c \in Consumer,
         \/ InitConsumer(c) \/ RegistryReady(c) \/ SetAddressList(c) \/ BeginCall(c)
  PROVE  IInv'
<1> USE DEF IInv, counterVars, schedulerVars
<1>1. UNCHANGED <<counterVars, up, gone, early, consumerCache>>
  BY DEF InitConsumer, RegistryReady, SetAddressList, BeginCall
<1>2. CacheIsKeyed'
  BY <1>1 DEF CacheIsKeyed
<1>3. CASE InitConsumer(c)
  <2>1. SetsOK' /\ InOrder' /\ Living' = Living
    BY <1>3 DEF InitConsumer, NewGroup, SetsOK, InOrder, Living
  <2>2. ClosedConsumersRest'
    BY <1>3, UsersHaveKeys DEF InitConsumer, NewGroup, ClosedConsumersRest, InOrder, SetsOK
  <2> QED BY <1>1, <1>2, <2>1, <2>2, QuietStep
<1>4. CASE RegistryReady(c)
  <2>1. SetsOK' /\ InOrder' /\ Living' = Living
    BY <1>4 DEF RegistryReady, NewGroup, SetsOK, InOrder, Living
  <2>2. ClosedConsumersRest'
    BY <1>4, UsersHaveKeys DEF RegistryReady, NewGroup, ClosedConsumersRest, InOrder, SetsOK
  <2> QED BY <1>1, <1>2, <2>1, <2>2, QuietStep
<1>5. CASE SetAddressList(c)
  <2>1. SetsOK' /\ InOrder' /\ Living' = Living
    BY <1>5 DEF SetAddressList, SetsOK, InOrder, Living
  <2>2. ClosedConsumersRest'
    BY <1>5 DEF SetAddressList, ClosedConsumersRest
  <2> QED BY <1>1, <1>2, <2>1, <2>2, QuietStep
<1>6. CASE BeginCall(c)
  <2>1. SetsOK' /\ InOrder' /\ Living' = Living /\ ClosedConsumersRest'
    BY <1>6 DEF BeginCall, SetsOK, InOrder, Living, ClosedConsumersRest
  <2> QED BY <1>1, <1>2, <2>1, QuietStep
<1> QED BY <1>3, <1>4, <1>5, <1>6

-----------------------------------------------------------------------------
(* Steps with counters.                                                     *)
LEMMA ReadyKeeps == ASSUME IInv, NEW c \in Consumer, GroupReady(c) PROVE IInv'
<1> USE DEF IInv, GroupReady, BecomesReady, GetInstance, schedulerVars
<1>1. SetsOK' /\ InOrder' /\ CacheIsKeyed'
  BY DEF SetsOK, InOrder, CacheIsKeyed, Regulate, User
<1>2. CASE c \in groupClosed
  <2>1. Living' = Living
    BY <1>2 DEF Living, SetsOK
  <2>2. HoldersLive' /\ CountersAreOwned' /\ UsersAreCounted'
    BY <1>2, <2>1 DEF HoldersLive, KeysHeldBy, CountersAreOwned, UsersAreCounted
  <2>3. ClosedConsumersRest'
    BY <1>2 DEF ClosedConsumersRest
  <2> QED BY <1>1, <2>2, <2>3
<1>3. CASE c \notin groupClosed
  <2>1. Living' = Living \cup {c}
    BY <1>3 DEF Living, SetsOK
  <2>2. /\ cache' = cache \cup {KeyOf[c]} /\ holds' = holds \cup {c}
        /\ regulates' = regulates \cup Regulate(c)
    BY <1>3
  <2>3. c \in User /\ \A users : KeysHeldBy(users)' \subseteq KeysHeldBy(users) \cup {KeyOf[c]}
    BY <2>2 DEF User, KeysHeldBy
  <2>4. HoldersLive'
    BY <2>1, <2>2, <2>3 DEF HoldersLive, Regulate
  <2>5. CountersAreOwned'
    BY <2>2, <2>3 DEF CountersAreOwned, KeysHeldBy
  <2>6. KeyOf[c] \in KeysHeldBy(regulates \cap Living)'
    <3>1. CASE Regulate(c) = {c}
      BY <2>1, <2>2, <3>1 DEF KeysHeldBy
    <3>2. CASE Regulate(c) # {c}
      <4>1. PICK d \in regulates : KeyOf[d] = KeyOf[c]
        BY <3>2 DEF Regulate, SharingKey
      <4>2. d \in Living /\ d \in holds
        BY <4>1, UsersHaveKeys DEF HoldersLive, SetsOK
      <4> QED BY <2>1, <2>2, <4>1, <4>2 DEF KeysHeldBy
    <3> QED BY <3>1, <3>2
  <2>7. UsersAreCounted'
    BY <2>1, <2>2, <2>3, <2>6 DEF UsersAreCounted, KeysHeldBy
  <2>8. ClosedConsumersRest'
    BY <1>3, <2>2 DEF ClosedConsumersRest, Regulate
  <2> QED BY <1>1, <2>4, <2>5, <2>7, <2>8
<1> QED BY <1>2, <1>3

LEMMA EndCallKeeps == ASSUME IInv, NEW c \in Consumer, EndCall(c) PROVE IInv'
<1> USE DEF IInv, EndCall, GetInstance, schedulerVars
<1>1. Living' = Living /\ cache' = cache \cup {KeyOf[c]}
  BY DEF Living
<1>2. SetsOK' /\ InOrder' /\ CacheIsKeyed' /\ ClosedConsumersRest'
  BY DEF SetsOK, InOrder, CacheIsKeyed, ClosedConsumersRest
<1>3. HoldersLive' /\ CountersAreOwned' /\ UsersAreCounted'
  BY <1>1 DEF HoldersLive, CountersAreOwned, UsersAreCounted, KeysHeldBy
<1> QED BY <1>2, <1>3

-----------------------------------------------------------------------------
(* Closing.                                                                 *)

\* The counters of `keys` are closed and those who hold them forsaken.
LEMMA ForsakingKeeps ==
  ASSUME IInv, NEW keys, NEW users \in SUBSET User, Forsake(keys, users),
         cache' = cache \ keys,
         KeysHeldBy(users) = keys,
         (Living \cup up) \ users = (Living \cup up)', up' \subseteq Conn
  PROVE  /\ holds' \subseteq User /\ regulates' \subseteq Consumer
         /\ HoldersLive' /\ CountersAreOwned' /\ UsersAreCounted'
         /\ holds' \cap users = {} /\ holds' \subseteq holds /\ regulates' \subseteq regulates
<1> USE DEF IInv, Forsake, SharingKey, SetsOK
<1>1. /\ holds' = {u \in holds : KeyOf[u] \notin keys}
      /\ regulates' = {u \in regulates : KeyOf[u] \notin keys}
  BY DEF User
<1>2. holds' \cap users = {}
  BY <1>1 DEF KeysHeldBy
<1>3. holds' \subseteq (Living \cup up)'
  BY <1>1, <1>2 DEF HoldersLive
<1>4. KeysHeldBy(User)' = KeysHeldBy(User) \ keys
  BY <1>1 DEF KeysHeldBy
<1>5. HoldersLive'
  BY <1>1, <1>3, <1>4 DEF HoldersLive
<1>6. CountersAreOwned'
  BY <1>4 DEF CountersAreOwned
<1>7. ((Living \cup up) \ robbed)' \subseteq holds'
  <2> SUFFICES ASSUME NEW u \in (Living \cup up)', u \notin robbed' PROVE u \in holds'
    OBVIOUS
  <2>1. u \in Living \cup up /\ u \notin users
    OBVIOUS
  <2>2. u \notin robbed /\ ~ (u \in holds /\ u \in SharingKey(keys))
    BY <2>1
  <2>3. u \in holds
    BY <2>1, <2>2 DEF UsersAreCounted
  <2> QED BY <2>2, <2>3
<1>8. KeysHeldBy(Consumer)' \subseteq KeysHeldBy(regulates \cap Living)'
  <2> SUFFICES ASSUME NEW c \in Consumer \cap holds'
               PROVE  \E d \in regulates' \cap Living' \cap holds' : KeyOf[d] = KeyOf[c]
    BY DEF KeysHeldBy
  <2>1. c \in holds /\ KeyOf[c] \notin keys
    BY <1>1
  <2>2. PICK d \in regulates \cap Living \cap holds : KeyOf[d] = KeyOf[c]
    BY <2>1 DEF UsersAreCounted, KeysHeldBy
  <2>3. d \in regulates' /\ d \in holds' /\ d \in Consumer
    BY <1>1, <2>1, <2>2
  <2>4. d \in Living'
    BY <1>3, <2>3, UsersHaveKeys DEF Living
  <2> QED BY <2>2, <2>3, <2>4
<1> QED BY <1>1, <1>2, <1>5, <1>6, <1>7, <1>8 DEF UsersAreCounted

LEMMA CloseConsumersKeeps ==
  ASSUME IInv, NEW ids \in SUBSET Consumer, CloseConsumers(ids),
         \A c \in ids : phase[c] # "none",
         holds' \cap ids = {}, holds' \subseteq holds, regulates' \subseteq holds',
         regulates' \subseteq regulates
  PROVE  InOrder' /\ CacheIsKeyed' /\ ClosedConsumersRest'
<1> USE DEF IInv, CloseConsumers
<1>1. InOrder'
  BY DEF InOrder
<1>2. CacheIsKeyed'
  BY DEF CacheIsKeyed
<1>3. ASSUME NEW c \in (gone \ early)'
      PROVE  c \in groupClosed' /\ c \notin (subscribed \cup unlisted \cup holds \cup regulates)'
  <2>1. CASE c \in ids
    BY <1>3, <2>1 DEF InOrder
  <2>2. CASE c \notin ids
    BY <1>3, <2>2 DEF ClosedConsumersRest
  <2> QED BY <2>1, <2>2
<1>4. consumerCache' = {c \in Cached : phase[c] # "none"} \ (gone \cup ids)
  <2> DEFINE evicted == UNION {SameCacheKey(c) : c \in (ids \ gone) \cap Cached}
  <2>1. (ids \ gone) \cap Cached \subseteq consumerCache
    BY DEF ClosedConsumersRest
  <2>2. consumerCache \cap evicted = consumerCache \cap ids
    <3>1. ASSUME NEW d \in consumerCache, d \in evicted PROVE d \in ids
      <4>1. PICK c \in (ids \ gone) \cap Cached : d \in SameCacheKey(c)
        BY <3>1
      <4>2. c = d
        BY <2>1, <4>1 DEF SameCacheKey, CacheIsKeyed
      <4> QED BY <4>1, <4>2
    <3>2. ASSUME NEW d \in consumerCache, d \in ids PROVE d \in evicted
      <4>1. d \in (ids \ gone) \cap Cached
        BY <3>2 DEF ClosedConsumersRest
      <4> QED BY <4>1, UsersHaveKeys DEF SameCacheKey
    <3> QED BY <3>1, <3>2
  <2> HIDE DEF evicted
  <2>3. consumerCache' = consumerCache \ evicted
    BY DEF evicted
  <2> QED BY <2>2, <2>3 DEF ClosedConsumersRest
<1> QED BY <1>1, <1>2, <1>3, <1>4 DEF ClosedConsumersRest

LEMMA ClosingKeeps ==
  ASSUME IInv, NEW ids \in SUBSET Consumer, CloseConsumers(ids),
         \A c \in ids : phase[c] # "none",
         Forsake(KeysHeldBy(ids), ids), cache' = cache \ KeysHeldBy(ids)
  PROVE  IInv'
<1>1. Living' = Living \ ids /\ up' = up
  BY DEF CloseConsumers, Living, IInv, SetsOK
<1>2. (Living \cup up) \ ids = (Living \cup up)' /\ up' \subseteq Conn /\ ids \subseteq User
  BY <1>1, UsersHaveKeys DEF IInv, SetsOK, User
<1>3. /\ holds' \subseteq User /\ regulates' \subseteq Consumer
      /\ HoldersLive' /\ CountersAreOwned' /\ UsersAreCounted'
      /\ holds' \cap ids = {} /\ holds' \subseteq holds /\ regulates' \subseteq regulates
  BY <1>2, ForsakingKeeps
<1>4. SetsOK'
  BY <1>3 DEF CloseConsumers, IInv, SetsOK
<1>5. InOrder' /\ CacheIsKeyed' /\ ClosedConsumersRest'
  BY <1>3, CloseConsumersKeeps DEF HoldersLive
<1> QED BY <1>3, <1>4, <1>5 DEF IInv

LEMMA ConnectionsKeep ==
  ASSUME IInv, NEW k \in Conn, ConnUp(k) \/ ConnDown(k) PROVE IInv'
<1> USE DEF consumerVars
<1>1. Living' = Living /\ UNCHANGED consumerVars
  BY DEF ConnUp, ConnDown, Living
<1>2. InOrder' /\ CacheIsKeyed'
  BY <1>1 DEF IInv, InOrder, CacheIsKeyed
<1>3. k \in User /\ k \notin Consumer
  BY UsersHaveKeys DEF User
<1>4. CASE ConnUp(k)
  <2>1. /\ up' = up \cup {k} /\ holds' = holds \cup {k} /\ robbed' = robbed \ {k}
        /\ cache' = cache \cup {KeyOf[k]} /\ UNCHANGED <<regulates, orphans>>
    BY <1>4 DEF ConnUp, GetInstance, schedulerVars
  <2>2. \A users : KeysHeldBy(users)' \subseteq KeysHeldBy(users) \cup {KeyOf[k]}
    BY <2>1 DEF KeysHeldBy
  <2>3. SetsOK' /\ HoldersLive' /\ CountersAreOwned'
    BY <1>1, <1>3, <2>1, <2>2 DEF IInv, SetsOK, HoldersLive, CountersAreOwned, KeysHeldBy
  <2>4. KeysHeldBy(Consumer)' = KeysHeldBy(Consumer)
    BY <1>3, <2>1 DEF KeysHeldBy
  <2>5. UsersAreCounted'
    BY <1>1, <2>1, <2>4 DEF IInv, UsersAreCounted, KeysHeldBy
  <2>6. ClosedConsumersRest'
    BY <1>1, <1>3, <2>1 DEF IInv, ClosedConsumersRest, SetsOK
  <2> QED BY <1>2, <2>3, <2>5, <2>6 DEF IInv
<1>5. CASE ConnDown(k)
  <2>1. (Living \cup up) \ {k} = (Living \cup up)' /\ up' \subseteq Conn /\ {k} \subseteq User
    BY <1>1, <1>3, <1>5 DEF ConnDown, Living, IInv, SetsOK
  <2>2. /\ holds' \subseteq User /\ regulates' \subseteq Consumer
        /\ HoldersLive' /\ CountersAreOwned' /\ UsersAreCounted'
        /\ holds' \subseteq holds /\ regulates' \subseteq regulates
    BY <1>5, <2>1, ForsakingKeeps DEF ConnDown, CloseCounters
  <2>3. SetsOK' /\ ClosedConsumersRest'
    BY <1>1, <2>1, <2>2 DEF IInv, SetsOK, ClosedConsumersRest
  <2> QED BY <1>2, <2>2, <2>3 DEF IInv
<1> QED BY <1>4, <1>5

LEMMA NextIInv == IInv /\ [Next]_vars => IInv'
<1> SUFFICES ASSUME IInv, [Next]_vars PROVE IInv'
  OBVIOUS
<1>1. ASSUME NEW c \in Consumer, CloseConsumer(c) PROVE IInv'
  BY <1>1, ClosingKeeps DEF CloseConsumer, CloseCounters
<1>2. ASSUME NEW m \in Rpc, CloseClient(m) PROVE IInv'
  <2> DEFINE ids == {c \in consumerCache : ClientOf[c] = m}
  <2>1. ids \subseteq Consumer /\ \A c \in ids : phase[c] # "none"
    BY UsersHaveKeys DEF IInv, SetsOK, ClosedConsumersRest
  <2>2. /\ CloseConsumers(ids) /\ Forsake(KeysHeldBy(ids), ids)
        /\ cache' = cache \ KeysHeldBy(ids)
    BY <1>2 DEF CloseClient, ClearAndClose
  <2> QED BY <2>1, <2>2, ClosingKeeps
<1>3. CASE UNCHANGED vars
  <2>1. Living' = Living /\ UNCHANGED <<counterVars, up>>
    BY <1>3 DEF vars, consumerVars, Living
  <2>2. SetsOK' /\ InOrder' /\ CacheIsKeyed' /\ ClosedConsumersRest'
    BY <1>3 DEF IInv, vars, consumerVars, counterVars, SetsOK, InOrder, CacheIsKeyed,
                ClosedConsumersRest
  <2> QED BY <2>1, <2>2, QuietStep
<1> QED BY <1>1, <1>2, <1>3, CreateKeeps, BeginningKeeps, ReadyKeeps, EndCallKeeps,
           ConnectionsKeep DEF Next

LEMMA Invariance == Spec => []IInv
BY InitIInv, NextIInv, PTL DEF Spec

(* A cached counter has a holder, who closes it when he ends, or was made   *)
(* by a call that ended late.                                               *)
THEOREM CountersHaveOwners == Spec => []CountersAreOwned
<1>1. IInv => CountersAreOwned
  BY DEF IInv
<1> QED BY <1>1, Invariance, PTL

(* Whoever lives has the counter cached for his key, and a living group     *)
(* listens for its windows, until somebody else closes the counter.         *)
THEOREM UsersStayCounted == Spec => []UsersAreCounted
<1>1. IInv => UsersAreCounted
  BY DEF IInv
<1> QED BY <1>1, Invariance, PTL

(* A consumer closed in time leaves nothing behind, and the caches of the   *)
(* clients hold exactly the cached consumers that have not been closed.     *)
THEOREM ConsumersRest == Spec => []ClosedConsumersRest
<1>1. IInv => ClosedConsumersRest
  BY DEF IInv
<1> QED BY <1>1, Invariance, PTL

-----------------------------------------------------------------------------
(* The order of the listeners                                               *)

LEMMA WithoutFacts ==
  ASSUME NEW keys, listeners \in Seq(Key), IsInjective(listeners)
  PROVE  /\ Without(keys) \in Seq(Key) /\ IsInjective(Without(keys))
         /\ ToSet(Without(keys)) = Listening \ keys
         /\ \A i, j \in 1..Len(Without(keys)) : i < j =>
              \E p, q \in 1..Len(listeners) :
                p < q /\ listeners[p] = Without(keys)[i] /\ listeners[q] = Without(keys)[j]
<1> DEFINE kept == {i \in DOMAIN listeners : listeners[i] \notin keys}
           Upto(i) == {j \in kept : j <= i}
           n == Cardinality(kept)
           At(m) == CHOOSE i \in kept : Cardinality(Upto(i)) = m
<1>1. DOMAIN listeners = 1..Len(listeners) /\ Len(listeners) \in Nat
  OBVIOUS
<1>2. IsFiniteSet(kept) /\ n \in Nat /\ IsFiniteSet(1..n) /\ Cardinality(1..n) = n
  <2>1. IsFiniteSet(kept)
    <3>1. IsFiniteSet(1..Len(listeners)) /\ kept \in SUBSET (1..Len(listeners))
      BY <1>1, FS_Interval
    <3> QED BY <3>1, FS_Subset
  <2>2. n \in Nat
    BY <2>1, FS_CardinalityType
  <2> HIDE DEF n
  <2> QED BY <2>1, <2>2, FS_Interval
<1>3. ASSUME NEW i \in kept
      PROVE  IsFiniteSet(Upto(i)) /\ Cardinality(Upto(i)) \in 1..n
  <2>1. IsFiniteSet(Upto(i)) /\ Cardinality(Upto(i)) <= n
    BY <1>2, FS_Subset
  <2>2. Cardinality(Upto(i)) \in Nat
    BY <2>1, FS_CardinalityType
  <2>3. i \in Upto(i)
    BY <1>1
  <2>4. Cardinality(Upto(i)) # 0
    BY <2>1, <2>3, FS_EmptySet
  <2> HIDE DEF Upto, n
  <2> QED BY <1>2, <2>1, <2>2, <2>4
<1>4. ASSUME NEW i \in kept, NEW k \in kept, i < k
      PROVE  Cardinality(Upto(i)) < Cardinality(Upto(k))
  <2>1. Upto(i) \subseteq Upto(k) /\ k \in Upto(k) /\ k \notin Upto(i)
    BY <1>1, <1>4
  <2>2. Cardinality(Upto(i)) <= Cardinality(Upto(k))
        /\ Cardinality(Upto(i)) # Cardinality(Upto(k))
    BY <1>3, <2>1, FS_Subset
  <2>3. Cardinality(Upto(i)) \in 1..n /\ Cardinality(Upto(k)) \in 1..n
    BY <1>3
  <2> HIDE DEF Upto, n
  <2> QED BY <2>2, <2>3
<1>5. ASSUME NEW m \in 1..n PROVE At(m) \in kept /\ Cardinality(Upto(At(m))) = m
  <2> DEFINE f == [i \in kept |-> Cardinality(Upto(i))]
  <2>1. f \in [kept -> 1..n]
    BY <1>3
  <2>2. \A i, k \in kept : f[i] = f[k] => i = k
    <3> SUFFICES ASSUME NEW i \in kept, NEW k \in kept, i # k PROVE f[i] # f[k]
      OBVIOUS
    <3>1. i < k \/ k < i
      BY <1>1
    <3>2. f[i] \in 1..n /\ f[k] \in 1..n
      BY <2>1
    <3>3. f[i] < f[k] \/ f[k] < f[i]
      BY <1>4, <3>1
    <3> HIDE DEF f, n
    <3> QED BY <3>2, <3>3
  <2> HIDE DEF f
  <2>3. f \in Injection(kept, 1..n)
    BY <2>1, <2>2 DEF Injection, IsInjective
  <2>4. f \in Surjection(kept, 1..n)
    BY <1>2, <2>3, FS_Injection
  <2>5. \E i \in kept : f[i] = m
    BY <2>4 DEF Surjection
  <2> QED BY <2>5 DEF f
<1>6. Without(keys) = [m \in 1..n |-> listeners[At(m)]]
  BY DEF Without
<1> HIDE DEF n, At, Upto
<1>7. \A m \in 1..n : At(m) \in 1..Len(listeners) /\ Without(keys)[m] = listeners[At(m)]
  BY <1>1, <1>5, <1>6
<1>8. Without(keys) \in Seq(Key) /\ Len(Without(keys)) = n /\ DOMAIN Without(keys) = 1..n
  <2>1. Without(keys) \in [1..n -> Key]
    BY <1>1, <1>6, <1>7
  <2> QED BY <1>2, <2>1, IsASeq
<1>9. \A i, j \in 1..n : i < j => At(i) < At(j)
  <2> SUFFICES ASSUME NEW i \in 1..n, NEW j \in 1..n, i < j, ~ (At(i) < At(j)) PROVE FALSE
    OBVIOUS
  <2>1. At(i) # At(j) /\ At(i) \in kept /\ At(j) \in kept
    BY <1>5
  <2>2. At(j) < At(i)
    BY <1>1, <2>1
  <2>3. Cardinality(Upto(At(j))) < Cardinality(Upto(At(i)))
    BY <1>4, <2>1, <2>2
  <2> QED BY <1>2, <1>5, <2>3
<1>10. IsInjective(Without(keys))
  <2> SUFFICES ASSUME NEW i \in 1..n, NEW j \in 1..n, Without(keys)[i] = Without(keys)[j]
               PROVE  i = j
    BY <1>8 DEF IsInjective
  <2>1. At(i) = At(j)
    BY <1>1, <1>7 DEF IsInjective
  <2> QED BY <1>5, <2>1
<1>11. ToSet(Without(keys)) = Listening \ keys
  <2>1. \A m \in 1..n : Without(keys)[m] \in Listening \ keys
    BY <1>1, <1>5, <1>7 DEF Listening, ToSet
  <2>2. ASSUME NEW key \in Listening, key \notin keys
        PROVE  \E m \in 1..n : Without(keys)[m] = key
    <3>1. PICK i \in kept : listeners[i] = key
      BY <2>2 DEF Listening, ToSet
    <3>2. Cardinality(Upto(i)) \in 1..n
      BY <1>3
    <3> DEFINE m == Cardinality(Upto(i))
    <3>3. At(m) = i
      <4>1. At(m) \in kept /\ Cardinality(Upto(At(m))) = m
        BY <1>5, <3>2
      <4>2. ~ (At(m) < i) /\ ~ (i < At(m))
        BY <1>2, <1>4, <3>2, <4>1
      <4> HIDE DEF m
      <4> QED BY <1>1, <4>1, <4>2
    <3> QED BY <1>7, <3>1, <3>2, <3>3
  <2> QED BY <1>8, <2>1, <2>2 DEF ToSet
<1> QED BY <1>7, <1>8, <1>9, <1>10, <1>11

(* The strengthening: the list is in order at every moment, every key once, *)
(* with the rest of TypeOK.                                                 *)
ListOK ==
  /\ timer \in BOOLEAN /\ listeners \in Seq(Key) /\ IsInjective(listeners)
  /\ timer <=> listeners # <<>>
  /\ cache \subseteq Key /\ cleared \subseteq cache
  /\ Listening = cache \ cleared
  /\ GroupsFireLast

OthersOK ==
  /\ groupClosed \subseteq Consumer /\ subscribed \subseteq Consumer
  /\ unlisted \subseteq Consumer /\ calling \subseteq Consumer
  /\ orphans \subseteq Key /\ robbed \subseteq User

\* A key is new in front, or a group's key at the end.
LEMMA InFront ==
  ASSUME ListOK, NEW key \in Key \ Listening, listeners' = <<key>> \o listeners,
         key \in GroupKey => key \in orphans', orphans \subseteq orphans'
  PROVE  /\ listeners' \in Seq(Key) /\ IsInjective(listeners') /\ listeners' # <<>>
         /\ Listening' = Listening \cup {key}
         /\ GroupsFireLast'
<1>1. DOMAIN listeners = 1..Len(listeners) /\ Len(listeners) \in Nat /\ listeners \in Seq(Key)
  BY DEF ListOK
<1>2. /\ listeners' \in Seq(Key) /\ Len(listeners') = Len(listeners) + 1
      /\ listeners'[1] = key
      /\ \A i \in 1..Len(listeners) : listeners'[i + 1] = listeners[i]
  BY <1>1
<1>3. DOMAIN listeners' = 1..(Len(listeners) + 1)
  BY <1>1, <1>2
<1>4. \A i \in 1..(Len(listeners) + 1) :
        i = 1 \/ (i - 1 \in 1..Len(listeners) /\ listeners'[i] = listeners[i - 1])
  <2> SUFFICES ASSUME NEW i \in 1..(Len(listeners) + 1), i # 1
               PROVE  i - 1 \in 1..Len(listeners) /\ listeners'[i] = listeners[i - 1]
    OBVIOUS
  <2>1. i - 1 \in 1..Len(listeners) /\ (i - 1) + 1 = i
    BY <1>1
  <2> QED BY <1>2, <2>1
<1>5. \A i \in 1..Len(listeners) : listeners[i] # key
  BY <1>1 DEF Listening, ToSet
<1>6. IsInjective(listeners')
  BY <1>1, <1>2, <1>3, <1>4, <1>5 DEF ListOK, IsInjective
<1>7. Listening' = Listening \cup {key}
  <2>1. \A i \in DOMAIN listeners' : listeners'[i] \in Listening \cup {key}
    BY <1>1, <1>2, <1>3, <1>4 DEF Listening, ToSet
  <2>2. \A i \in 1..Len(listeners) : listeners[i] \in Listening'
    <3>1. \A i \in 1..Len(listeners) : i + 1 \in 1..(Len(listeners) + 1)
      BY <1>1
    <3> QED BY <1>2, <1>3, <3>1 DEF Listening, ToSet
  <2>3. key \in Listening'
    BY <1>1, <1>2, <1>3 DEF Listening, ToSet
  <2> QED BY <1>1, <2>1, <2>2, <2>3 DEF Listening, ToSet
<1>8. GroupsFireLast'
  <2> SUFFICES ASSUME NEW i \in 1..(Len(listeners) + 1), NEW j \in 1..(Len(listeners) + 1),
                      i < j, listeners'[i] \in GroupKey \ orphans'
               PROVE  listeners'[j] \in GroupKey
    BY <1>2 DEF GroupsFireLast
  <2>1. i # 1 /\ j # 1
    BY <1>2
  <2>2. i - 1 < j - 1 /\ listeners[i - 1] \in GroupKey \ orphans
    BY <1>4, <2>1
  <2> QED BY <1>4, <2>1, <2>2 DEF ListOK, GroupsFireLast
<1> QED BY <1>2, <1>3, <1>6, <1>7, <1>8

LEMMA AtTheEnd ==
  ASSUME ListOK, NEW key \in Key \ Listening, listeners' = Append(listeners, key),
         key \in GroupKey, UNCHANGED orphans
  PROVE  /\ listeners' \in Seq(Key) /\ IsInjective(listeners') /\ listeners' # <<>>
         /\ Listening' = Listening \cup {key}
         /\ GroupsFireLast'
<1>1. DOMAIN listeners = 1..Len(listeners) /\ Len(listeners) \in Nat /\ listeners \in Seq(Key)
  BY DEF ListOK
<1>2. /\ listeners' \in Seq(Key) /\ Len(listeners') = Len(listeners) + 1
      /\ listeners'[Len(listeners) + 1] = key
      /\ \A i \in 1..Len(listeners) : listeners'[i] = listeners[i]
  BY <1>1
<1>3. DOMAIN listeners' = 1..(Len(listeners) + 1)
  BY <1>1, <1>2
<1>4. \A i \in 1..Len(listeners) : listeners[i] # key
  BY <1>1 DEF Listening, ToSet
<1>5. \A i \in 1..(Len(listeners) + 1) : i = Len(listeners) + 1 \/ i \in 1..Len(listeners)
  BY <1>1
<1>6. IsInjective(listeners')
  BY <1>1, <1>2, <1>3, <1>4, <1>5 DEF ListOK, IsInjective
<1>7. Listening' = Listening \cup {key}
  BY <1>1, <1>2, <1>3, <1>5 DEF Listening, ToSet
<1>8. GroupsFireLast'
  <2> SUFFICES ASSUME NEW i \in 1..(Len(listeners) + 1), NEW j \in 1..(Len(listeners) + 1),
                      i < j, listeners'[i] \in GroupKey \ orphans
               PROVE  listeners'[j] \in GroupKey
    BY <1>2 DEF GroupsFireLast
  <2>1. i \in 1..Len(listeners) /\ listeners[i] \in GroupKey \ orphans
    BY <1>1, <1>2, <1>5
  <2> QED BY <1>2, <1>5, <2>1 DEF ListOK, GroupsFireLast
<1> QED BY <1>2, <1>3, <1>6, <1>7, <1>8

LEMMA GetInstanceKeeps ==
  ASSUME ListOK, NEW key \in Key, NEW prepend \in BOOLEAN, GetInstance(key, prepend),
         UNCHANGED cleared, orphans \subseteq orphans',
         key \notin cache => IF prepend THEN key \in GroupKey => key \in orphans'
                                       ELSE key \in GroupKey /\ UNCHANGED orphans
  PROVE  ListOK'
<1>1. CASE key \in cache
  BY <1>1 DEF GetInstance, schedulerVars, ListOK, Listening, GroupsFireLast
<1>2. CASE key \notin cache
  <2>1. /\ cache' = cache \cup {key} /\ timer' = TRUE
        /\ listeners' = IF prepend THEN <<key>> \o listeners ELSE Append(listeners, key)
    BY <1>2 DEF GetInstance, Interval
  <2>2. key \in Key \ Listening /\ key \notin cleared
    BY <1>2 DEF ListOK
  <2>3. /\ listeners' \in Seq(Key) /\ IsInjective(listeners') /\ listeners' # <<>>
        /\ Listening' = Listening \cup {key}
        /\ GroupsFireLast'
    BY <1>2, <2>1, <2>2, InFront, AtTheEnd
  <2> QED BY <2>1, <2>2, <2>3 DEF ListOK
<1> QED BY <1>1, <1>2

LEMMA CloseCountersKeeps ==
  ASSUME ListOK, NEW keys, CloseCounters(keys), cleared' = cleared \ keys,
         orphans' = orphans \ keys
  PROVE  ListOK'
<1>1. /\ cache' = cache \ keys /\ listeners' = Without(keys)
      /\ timer' = (timer /\ listeners' # <<>>)
  BY DEF CloseCounters, Stop
<1>2. /\ Without(keys) \in Seq(Key) /\ IsInjective(Without(keys))
      /\ ToSet(Without(keys)) = Listening \ keys
      /\ \A i, j \in 1..Len(Without(keys)) : i < j =>
           \E p, q \in 1..Len(listeners) :
             p < q /\ listeners[p] = Without(keys)[i] /\ listeners[q] = Without(keys)[j]
  BY WithoutFacts DEF ListOK
<1>3. Listening' = Listening \ keys
  BY <1>1, <1>2 DEF Listening
<1>4. timer' \in BOOLEAN /\ (timer' <=> listeners' # <<>>)
  <2>1. listeners' # <<>> => listeners # <<>>
    <3>1. listeners' # <<>> => 1 \in DOMAIN listeners'
      BY <1>1, <1>2
    <3>2. 1 \in DOMAIN listeners' => Listening' # {}
      BY DEF Listening, ToSet
    <3>3. Listening # {} => listeners # <<>>
      BY DEF Listening, ToSet
    <3> QED BY <1>3, <3>1, <3>2, <3>3
  <2> QED BY <1>1, <2>1 DEF ListOK
<1>5. GroupsFireLast'
  <2> SUFFICES ASSUME NEW i \in 1..Len(listeners'), NEW j \in 1..Len(listeners'), i < j,
                      listeners'[i] \in GroupKey \ orphans'
               PROVE  listeners'[j] \in GroupKey
    BY DEF GroupsFireLast
  <2>1. PICK p \in 1..Len(listeners), q \in 1..Len(listeners) :
          p < q /\ listeners[p] = listeners'[i] /\ listeners[q] = listeners'[j]
    BY <1>1, <1>2
  <2>2. listeners'[i] \in Listening'
    BY <1>1, <1>2 DEF Listening, ToSet
  <2>3. listeners[p] \in GroupKey \ orphans
    BY <1>3, <2>1, <2>2
  <2> QED BY <2>1, <2>3 DEF ListOK, GroupsFireLast
<1> QED BY <1>1, <1>2, <1>3, <1>4, <1>5 DEF ListOK

LEMMA ClearKeeps ==
  ASSUME ListOK, NEW keys, ClearAndClose(keys), cleared' = cache'
  PROVE  ListOK'
<1>1. listeners' = <<>> /\ cache' = cache \ keys /\ timer' = FALSE
  BY DEF ClearAndClose
<1>2. Listening' = {} /\ listeners' \in Seq(Key) /\ IsInjective(listeners')
  BY <1>1 DEF Listening, ToSet, IsInjective
<1>3. GroupsFireLast'
  BY <1>1 DEF GroupsFireLast
<1> QED BY <1>1, <1>2, <1>3 DEF ListOK

LEMMA ListInvariance == Spec => [](ListOK /\ OthersOK)
<1>1. Init => ListOK /\ OthersOK
  <2> SUFFICES ASSUME Init PROVE ListOK /\ OthersOK
    OBVIOUS
  <2>1. listeners = <<>> /\ cache = {} /\ cleared = {} /\ timer = FALSE
    BY DEF Init, SchedulerInit
  <2>2. Listening = {} /\ IsInjective(listeners) /\ GroupsFireLast
    BY <2>1 DEF Listening, ToSet, IsInjective, GroupsFireLast
  <2>3. timer \in BOOLEAN /\ (timer <=> listeners # <<>>)
    BY <2>1
  <2>4. listeners \in Seq(Key) /\ cache \subseteq Key /\ cleared \subseteq cache
    BY <2>1
  <2>5. Listening = cache \ cleared
    BY <2>1, <2>2
  <2>6. ListOK
    BY <2>2, <2>3, <2>4, <2>5 DEF ListOK
  <2>7. OthersOK
    BY DEF Init, OthersOK
  <2> QED BY <2>6, <2>7
<1>2. IInv /\ ListOK /\ OthersOK /\ [Next]_vars => ListOK' /\ OthersOK'
  <2> SUFFICES ASSUME IInv, ListOK, OthersOK, [Next]_vars PROVE ListOK' /\ OthersOK'
    OBVIOUS
  <2>1. \A u \in User : KeyOf[u] \in Key
    BY UsersHaveKeys
  <2>2. ASSUME UNCHANGED <<schedulerVars, cleared, orphans>> PROVE ListOK'
    BY <2>2 DEF schedulerVars, ListOK, Listening, GroupsFireLast
  <2>3. ASSUME NEW c \in Consumer,
               \/ CreateConsumer(c) \/ InitConsumer(c) \/ RegistryReady(c)
               \/ SetAddressList(c) \/ BeginCall(c)
        PROVE  ListOK' /\ OthersOK'
    <3>1. UNCHANGED <<schedulerVars, cleared, orphans>>
      BY <2>3 DEF CreateConsumer, InitConsumer, RegistryReady, SetAddressList, BeginCall,
                  counterVars
    <3>2. OthersOK'
      BY <2>3 DEF CreateConsumer, InitConsumer, RegistryReady, SetAddressList, BeginCall,
                  counterVars, NewGroup, OthersOK
    <3> QED BY <2>2, <3>1, <3>2
  <2>4. ASSUME NEW c \in Consumer, GroupReady(c) PROVE ListOK' /\ OthersOK'
    <3>1. UNCHANGED <<cleared, orphans>> /\ OthersOK'
      BY <2>4 DEF GroupReady, BecomesReady, OthersOK
    <3>2. UNCHANGED schedulerVars \/ GetInstance(KeyOf[c], FALSE)
      BY <2>4 DEF GroupReady
    <3>3. KeyOf[c] \in Key /\ KeyOf[c] \in GroupKey
      BY <2>1 DEF User, GroupKey
    <3> QED BY <2>2, <3>1, <3>2, <3>3, GetInstanceKeeps
  <2>5. ASSUME NEW c \in Consumer, EndCall(c) PROVE ListOK' /\ OthersOK'
    <3>1. /\ UNCHANGED cleared /\ orphans' = orphans \cup ({KeyOf[c]} \ cache)
          /\ GetInstance(KeyOf[c], TRUE)
      BY <2>5 DEF EndCall
    <3>2. KeyOf[c] \in Key
      BY <2>1 DEF User
    <3>3. OthersOK'
      BY <2>5, <3>2 DEF EndCall, OthersOK
    <3> QED BY <3>1, <3>2, <3>3, GetInstanceKeeps
  <2>6. ASSUME NEW k \in Conn, ConnUp(k) PROVE ListOK' /\ OthersOK'
    <3>1. UNCHANGED <<cleared, orphans>> /\ GetInstance(KeyOf[k], TRUE)
      BY <2>6 DEF ConnUp
    <3>2. KeyOf[k] \in Key /\ KeyOf[k] \notin GroupKey
      BY <2>1, UsersHaveKeys DEF User
    <3>3. OthersOK'
      BY <2>6 DEF ConnUp, consumerVars, OthersOK
    <3> QED BY <3>1, <3>2, <3>3, GetInstanceKeeps
  <2>7. ASSUME NEW ids \in SUBSET Consumer, CloseConsumers(ids),
               NEW keys, NEW users, Forsake(keys, users)
        PROVE  OthersOK' /\ orphans' = orphans \ keys
    BY <2>7 DEF CloseConsumers, Forsake, OthersOK, IInv, SetsOK
  <2>8. ASSUME NEW c \in Consumer, CloseConsumer(c) PROVE ListOK' /\ OthersOK'
    BY <2>7, <2>8, CloseCountersKeeps DEF CloseConsumer
  <2>9. ASSUME NEW m \in Rpc, CloseClient(m) PROVE ListOK' /\ OthersOK'
    <3>1. consumerCache \subseteq Consumer
      BY UsersHaveKeys DEF IInv, SetsOK
    <3> QED BY <2>7, <2>9, <3>1, ClearKeeps DEF CloseClient
  <2>10. ASSUME NEW k \in Conn, ConnDown(k) PROVE ListOK' /\ OthersOK'
    <3>1. OthersOK' /\ orphans' = orphans \ KeysHeldBy({k})
      BY <2>10 DEF ConnDown, consumerVars, Forsake, OthersOK, IInv, SetsOK
    <3> QED BY <2>10, <3>1, CloseCountersKeeps DEF ConnDown
  <2>11. CASE UNCHANGED vars
    BY <2>2, <2>11 DEF vars, counterVars, consumerVars, OthersOK
  <2> QED BY <2>3, <2>4, <2>5, <2>6, <2>8, <2>9, <2>10, <2>11 DEF Next
<1> QED BY <1>1, <1>2, Invariance, PTL DEF Spec

(* Every variable of the clients and of what they share keeps its type.     *)
THEOREM TypeCorrect == Spec => []TypeOK
<1>1. IInv /\ ListOK /\ OthersOK => TypeOK
  BY DEF IInv, SetsOK, ListOK, OthersOK, TypeOK
<1> QED BY <1>1, Invariance, ListInvariance, PTL

(* The timer runs as long as somebody is to be ticked, nobody is ticked     *)
(* twice or after his end, and who is cached is ticked unless some client   *)
(* was closed meanwhile (scheduler.js:16-45, client.js:45-52): for any      *)
(* number of clients, consumers, connections and keys.                      *)
THEOREM CountersTick == Spec => []CountersAreTicked
<1>1. ListOK => CountersAreTicked
  <2> SUFFICES ASSUME ListOK PROVE Cardinality(Listening) = Len(listeners)
    BY DEF ListOK, CountersAreTicked
  <2>1. DOMAIN listeners = 1..Len(listeners) /\ Len(listeners) \in Nat
    BY DEF ListOK
  <2>2. IsFiniteSet(1..Len(listeners)) /\ Cardinality(1..Len(listeners)) = Len(listeners)
    <3> DEFINE n == Len(listeners)
    <3>1. n \in Nat
      BY <2>1
    <3> HIDE DEF n
    <3>2. IsFiniteSet(1..n) /\ Cardinality(1..n) = n
      BY <3>1, FS_Interval
    <3> QED BY <3>2 DEF n
  <2>3. listeners \in Bijection(1..Len(listeners), Listening)
    BY <2>1 DEF ListOK, Listening, ToSet, Bijection, Injection, Surjection
  <2> QED BY <2>2, <2>3, FS_Bijection DEF ExistsBijection
<1> QED BY <1>1, ListInvariance, PTL

(* The average of a group is judged after the windows of all connections,   *)
(* unless a late call has made its counter (address_group.js:44).           *)
THEOREM GroupsAreJudgedLast == Spec => []GroupsFireLast
<1>1. ListOK => GroupsFireLast
  BY DEF ListOK
<1> QED BY <1>1, ListInvariance, PTL

-----------------------------------------------------------------------------
(* Whoever waits waits for something: the safety half of                    *)
(* ConsumersBecomeReady.                                                    *)

Undisturbed(c) == phase[c] = "started" /\ c \notin gone

\* A consumer that has begun and was not closed has a list, or will be told.
StartedIsTold ==
  \A c \in Consumer : Undisturbed(c) =>
    group[c] \in {"listed", "ready"} \/ c \in unlisted \cup subscribed

LEMMA StartedIsToldStep == IInv /\ StartedIsTold /\ [Next]_vars => StartedIsTold'
<1> SUFFICES ASSUME IInv, StartedIsTold, [Next]_vars PROVE StartedIsTold'
  OBVIOUS
<1>0. SetsOK /\ InOrder
  BY DEF IInv
<1> USE DEF StartedIsTold, Undisturbed
<1>1. ASSUME NEW c \in Consumer,
             \/ CreateConsumer(c) \/ InitConsumer(c) \/ RegistryReady(c)
             \/ GroupReady(c) \/ BeginCall(c) \/ EndCall(c)
      PROVE  StartedIsTold'
  BY <1>0, <1>1 DEF CreateConsumer, InitConsumer, RegistryReady, GroupReady, BecomesReady,
                    BeginCall, EndCall, NewGroup, SetsOK
<1>2. ASSUME NEW c \in Consumer, SetAddressList(c) PROVE StartedIsTold'
  BY <1>0, <1>2 DEF SetAddressList, SetsOK, InOrder
<1>3. ASSUME NEW ids, CloseConsumers(ids) PROVE StartedIsTold'
  BY <1>3 DEF CloseConsumers
<1>4. CASE UNCHANGED consumerVars
  BY <1>4 DEF consumerVars
<1>5. ASSUME NEW k \in Conn, ConnUp(k) \/ ConnDown(k) PROVE StartedIsTold'
  BY <1>4, <1>5 DEF ConnUp, ConnDown
<1>6. ASSUME NEW c \in Consumer, CloseConsumer(c) PROVE StartedIsTold'
  BY <1>3, <1>6 DEF CloseConsumer
<1>7. ASSUME NEW m \in Rpc, CloseClient(m) PROVE StartedIsTold'
  BY <1>3, <1>7 DEF CloseClient
<1> QED BY <1>1, <1>2, <1>4, <1>5, <1>6, <1>7 DEF Next, vars

BecomingHasItsEvent ==
  \A c \in Consumer : phase[c] # "none" /\ c \notin gone =>
    \/ phase[c] \in {"new", "waiting"}
    \/ group[c] = "bare" /\ c \in unlisted \cup subscribed
    \/ group[c] \in {"listed", "ready"}

(* A consumer that nobody has closed is never stuck on its way to ready():  *)
(* _init() or the registry will go on with it, or the group it has now, the *)
(* second one included, will be told a list, or has it already              *)
(* (consumer.js:78-102).                                                    *)
THEOREM ConsumersNeverHang == Spec => []BecomingHasItsEvent
<1>1. Init => StartedIsTold
  BY DEF Init, StartedIsTold, Undisturbed
<1>2. IInv /\ StartedIsTold => BecomingHasItsEvent
  BY DEF IInv, SetsOK, InOrder, StartedIsTold, Undisturbed, BecomingHasItsEvent
<1> QED BY <1>1, <1>2, StartedIsToldStep, Invariance, PTL DEF Spec
=============================================================================
