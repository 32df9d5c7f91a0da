---------------------------- MODULE AddressGroup ----------------------------
(***************************************************************************)
(* The addresses of one service (lib/client/address_group.js) with its     *)
(* load balancer (lib/client/loadbalancer): which of the pushed addresses  *)
(* are in use, what weight each has, which ones count as faulty, and what  *)
(* the statistics of each window and the retry loop make of that.          *)
(*                                                                         *)
(* The connections are those of a ConnectionManager, seen by host: none in *)
(* the map, one that connects, one that get() returns.  All that follows   *)
(* synchronously from one event, and the continuations of promises that    *)
(* are settled already, are one step.                                      *)
(***************************************************************************)
EXTENDS HealthCounts, SequencesExt

CONSTANTS
  Address,
  Pushes,                      \* sets of addresses that the registry may push
  Counts,                      \* window statistics of a connection or the group
  DefaultWeight,               \* DEFAULT_WEIGHT
  WeightDegradePercent,        \* faultTolerance: weightDegradeRate, in percent
  WeightRecoverRate,           \*   weightRecoverRate
  DegradeLeastWeight,          \*   degradeLeastWeight
  LeastErrorMultiple10, RecoverErrorMultiple10,   \* ten times
  LeastRtMultiple10, RecoverRtMultiple10,         \*   the multiples
  MaxIsolatedPercent,          \*   maxIsolatedPercentage, in percent
  RegulationEffective, DegradeEffective,          \*   its two switches
  EnableThreshold, MinAddressCount, MaxAddressCount,   \* connectionPoolConfig
  InitConnectionSize, CapacityPerConnection, ElasticControl,
  WaitConnect,                 \* waitConnect: ready() waits for the connections
  LoadBalancerClass            \* roundRobin, random or consistentHash

ASSUME WeightsAssumption ==
  /\ DefaultWeight \in Nat /\ DegradeLeastWeight \in 1..DefaultWeight
  /\ WeightDegradePercent \in 0..100 /\ MaxIsolatedPercent \in 0..100
  /\ WeightRecoverRate \in Nat
ASSUME PoolAssumption ==
  /\ {EnableThreshold, MinAddressCount, MaxAddressCount, InitConnectionSize} \subseteq Nat
  /\ CapacityPerConnection \in Nat \ {0}
ASSUME InputsAssumption ==
  /\ \A s \in Pushes : s \subseteq Address /\ IsFiniteSet(s)
  /\ \A c \in Counts : c.total \in Nat
ASSUME LoadBalancerAssumption ==
  LoadBalancerClass \in {"roundRobin", "random", "consistentHash"}
ASSUME SwitchesAssumption ==
  {RegulationEffective, DegradeEffective, ElasticControl, WaitConnect} \subseteq BOOLEAN

VARIABLES
  all,             \* _allAddressList
  list,            \* _addressList
  weight,          \* _weightMap
  fault,           \* keys of _faultAddressMap
  degradeEnable,   \* _degradeEnable
  poolSize,        \* _connectionPoolSize
  conn,            \* the connection manager's entry: none, connecting or up
  inited,          \* _inited: ready() has fired
  closed,          \* _closed
  awaited,         \* addresses whose createAndGet() a _connectAll() awaits
  inits,           \* what each _connectAll() before ready() still awaits
  retry,           \* _retryFaultAddresses(): off, sleeping or connecting
  retries          \* what its _connectAll() still awaits

groupVars == <<all, list, weight, fault, degradeEnable, poolSize, conn, awaited>>
vars == <<groupVars, inited, closed, inits, retry, retries>>

Init ==
  /\ all = <<>> /\ list = <<>>
  /\ weight = [a \in {} |-> DefaultWeight]
  /\ fault = {}
  /\ degradeEnable = FALSE
  /\ poolSize = InitConnectionSize
  /\ conn = [a \in Address |-> "none"]
  /\ inited = FALSE /\ closed = FALSE
  /\ awaited = {} /\ inits = {}
  /\ retry = "off" /\ retries = {}

Least(a, b) == IF a < b THEN a ELSE b
Most(a, b) == IF a < b THEN b ELSE a
CeilDiv(a, b) == (a + b - 1) \div b

\* The getter degradeEnable, of the value d of _degradeEnable.
Degrading(d) == DegradeEffective /\ d

MaxIsolatedNum(n) == CeilDiv(MaxIsolatedPercent * n, 100)

-----------------------------------------------------------------------------
(* Choosing addresses.  g is a record of the variables that change together *)
(* in one synchronous run of the code.                                      *)

Unhealthy(g, a) ==
  \/ a \in g.fault
  \/ a \in DOMAIN g.weight /\ g.weight[a] < DefaultWeight
Healthy(g, a) == g.conn[a] # "none" /\ ~ Unhealthy(g, a)

NeedElasticControl(n) ==
  ElasticControl /\ n >= MinAddressCount /\ n > EnableThreshold

\* The elements of s that are in T, in their order.  (The SelectSeq of the
\* standard module, without recursion.)
Among(s, T) ==
  LET Rank(i) == Cardinality({j \in 1..i : s[j] \in T})
  IN [k \in 1..Rank(Len(s)) |->
        s[CHOOSE i \in 1..Len(s) : s[i] \in T /\ Rank(i) = k]]

FirstChoice(g, fresh) == {a \in ToSet(g.all) : Healthy(g, a)} \cup fresh
Bad(g) == {a \in ToSet(g.all) : Unhealthy(g, a)}

\* Variant: the addresses known to be bad are stacked on top.
ChooseAddressesBadFirst(g, fresh) ==
  LET left == Least(g.poolSize, MaxAddressCount)
      first == Among(g.all, FirstChoice(g, fresh))
      taken == SubSeq(first, 1, Least(left, Len(first)))
      rest == ToSet(g.all) \ ToSet(taken)
      unchosen == Among(g.all, rest \ Bad(g)) \o Among(g.all, rest \cap Bad(g))
  IN IF ~ NeedElasticControl(Len(g.all)) \/ g.poolSize > Len(g.all) THEN g.all
     ELSE taken \o SubSeq(Reverse(unchosen), 1, left - Len(taken))

\* Variant: the pool is not filled up.
ChooseAddressesUnfilled(g, fresh) ==
  LET left == Least(g.poolSize, MaxAddressCount)
      first == Among(g.all, FirstChoice(g, fresh))
  IN IF ~ NeedElasticControl(Len(g.all)) \/ g.poolSize > Len(g.all) THEN g.all
     ELSE SubSeq(first, 1, Least(left, Len(first)))

\* _chooseAddresses: first those that are new or known to be healthy, in order;
\* what is missing is popped off a stack with the bad addresses at its bottom.
ChooseAddresses(g, fresh) ==
  LET left == Least(g.poolSize, MaxAddressCount)
      first == Among(g.all, FirstChoice(g, fresh))
      taken == SubSeq(first, 1, Least(left, Len(first)))
      rest == ToSet(g.all) \ ToSet(taken)
      unchosen == Reverse(Among(g.all, rest \cap Bad(g))) \o Among(g.all, rest \ Bad(g))
  IN IF ~ NeedElasticControl(Len(g.all)) \/ g.poolSize > Len(g.all) THEN g.all
     ELSE taken \o SubSeq(Reverse(unchosen), 1, left - Len(taken))

\* The setter of addressList, and the createAndGet() of each address that its
\* _connectAll() calls at once; `asked` are the addresses asked for so far.
Assign(g, fresh) ==
  LET chosen == ChooseAddresses(g, fresh) IN
  [g EXCEPT !.list = chosen,
            !.weight = [a \in ToSet(chosen) |->
                          IF a \in DOMAIN g.weight THEN g.weight[a] ELSE DefaultWeight],
            !.fault = g.fault \cap ToSet(chosen),
            !.degradeEnable = TRUE,
            !.conn = [a \in Address |->
                        IF a \in ToSet(chosen) /\ g.conn[a] = "none"
                        THEN "connecting" ELSE g.conn[a]],
            !.asked = g.asked \cup ToSet(chosen)]

refresh(g) == IF Len(g.all) > Len(g.list) THEN Assign(g, {}) ELSE g

\* adjustConnectionPoolSize and the setter of connectionPoolSize.
AdjustConnectionPoolSize(g, requests) ==
  LET need == Least(Most(CeilDiv(requests, CapacityPerConnection), MinAddressCount),
                    MaxAddressCount)
  IN IF ~ ElasticControl \/ need = g.poolSize THEN g ELSE refresh([g EXCEPT !.poolSize = need])

Group == [all |-> all, list |-> list, weight |-> weight, fault |-> fault,
          degradeEnable |-> degradeEnable, poolSize |-> poolSize, conn |-> conn,
          awaited |-> awaited, asked |-> {}]

\* The variables become g; then the continuations run for the addresses asked
\* for whose connection is up already.
Become(g) ==
  /\ all' = g.all
  /\ list' = g.list
  /\ weight' = g.weight
  /\ fault' = g.fault \ {a \in g.asked : g.conn[a] = "up"}
  /\ degradeEnable' = g.degradeEnable
  /\ poolSize' = g.poolSize
  /\ conn' = g.conn
  /\ awaited' = g.awaited \cup {a \in g.asked : g.conn[a] = "connecting"}

-----------------------------------------------------------------------------
(* Addresses and connections *)

\* Variant: ready() waits until an address is connected.
BecomeReadyConnected(open) ==
  LET done == {} \in open /\ \E a \in Address : conn'[a] = "up" IN
  /\ inits' = IF inited \/ done THEN {} ELSE open
  /\ inited' = (inited \/ done)
  /\ retry' = IF ~ inited /\ done /\ ~ closed THEN "sleeping" ELSE retry

\* ready() has fired for the _connectAll()s in `open` that await nothing: the
\* group listens to its counter and the retry loop starts, unless it is closed.
BecomeReady(open) ==
  /\ inits' = IF inited \/ {} \in open THEN {} ELSE open
  /\ inited' = (inited \/ {} \in open)
  /\ retry' = IF ~ inited /\ {} \in open /\ ~ closed THEN "sleeping" ELSE retry

\* The registry pushes addresses; a new list is shuffled.
Push ==
  \E s \in Pushes : \E pushed \in SetToSeqs(s) :
    LET g == Assign([Group EXCEPT !.all = pushed], s \ ToSet(all)) IN
    /\ Become(g)
    /\ BecomeReady(inits \cup {{a \in g.asked : g.conn[a] # "up"}}
                      \cup (IF WaitConnect THEN {} ELSE {{}}))
    /\ UNCHANGED <<closed, retries>>

\* Variant: the result is recorded for an address the group has dropped too.
ConnectedUnguarded(g, a, ok) ==
  IF ok THEN [g EXCEPT !.fault = @ \ {a}]
  ELSE [g EXCEPT !.fault = @ \cup {a}]

\* The continuation of a createAndGet() in _connectAll.
Connected(g, a, ok) ==
  IF ok THEN [g EXCEPT !.fault = @ \ {a}]
  ELSE IF a \in DOMAIN g.weight
    THEN [g EXCEPT !.weight[a] = 0, !.fault = @ \cup {a}]
  ELSE g

\* Variant: the loop ends when every retry has failed.
RetriedOnce(g, left) ==
  /\ retries' = left
  /\ IF retry = "connecting" /\ left = {}
     THEN /\ Become(IF g.fault # {} THEN refresh(g) ELSE g)
          /\ retry' = IF g.fault # {} THEN "off" ELSE "sleeping"
     ELSE Become(g) /\ UNCHANGED retry

\* The loop goes on when its _connectAll() is through: if there still are faulty
\* addresses, others are chosen in their place.
Retried(g, left) ==
  /\ retries' = left
  /\ IF retry = "connecting" /\ left = {}
     THEN /\ Become(IF g.fault # {} THEN refresh(g) ELSE g)
          /\ retry' = "sleeping"
     ELSE Become(g) /\ UNCHANGED retry

\* A connection comes up or fails, and everything that awaited it goes on.
Settle(a, ok) ==
  /\ conn[a] = "connecting"
  /\ LET g == [Group EXCEPT !.conn[a] = IF ok THEN "up" ELSE "none",
                            !.awaited = @ \ {a}]
         h == IF a \in awaited THEN Connected(g, a, ok) ELSE g
     IN IF inited
        THEN /\ Retried(h, retries \ {a})
             /\ UNCHANGED <<inited, inits>>
        ELSE /\ Become(h)
             /\ BecomeReady({open \ {a} : open \in inits})
             /\ UNCHANGED retries
  /\ UNCHANGED closed

\* 'close' of a connection: the manager forgets it.
Drop(a) ==
  /\ conn[a] = "up"
  /\ conn' = [conn EXCEPT ![a] = "none"]
  /\ UNCHANGED <<all, list, weight, fault, degradeEnable, poolSize, awaited,
                 inited, closed, inits, retry, retries>>

\* The retry loop wakes up.
RetryFaults ==
  /\ retry = "sleeping"
  /\ ~ closed /\ fault # {}
  /\ LET g == [Group EXCEPT !.asked = fault,
                            !.conn = [a \in Address |->
                                        IF a \in fault /\ conn[a] = "none"
                                        THEN "connecting" ELSE conn[a]]]
         left == {a \in fault : conn[a] # "up"}
     IN /\ Become(g)
        /\ retries' = left
        /\ retry' = IF left = {} THEN "sleeping" ELSE "connecting"
  /\ UNCHANGED <<inited, closed, inits>>

EndRetry ==
  /\ retry = "sleeping" /\ closed
  /\ retry' = "off"
  /\ UNCHANGED <<groupVars, inited, closed, inits, retries>>

Close ==
  /\ ~ closed
  /\ closed' = TRUE
  /\ all' = <<>> /\ list' = <<>>
  /\ weight' = [a \in {} |-> DefaultWeight]
  /\ fault' = {}
  /\ UNCHANGED <<degradeEnable, poolSize, conn, awaited, inited, inits, retry, retries>>

-----------------------------------------------------------------------------
(* Routing a request *)

\* Variant: the weight is looked up without asking for the connection.
WeightsUnchecked(a) ==
  IF ~ Degrading(degradeEnable) \/ weight[a] = 0 THEN {DefaultWeight}
  ELSE {weight[a], DefaultWeight}

\* What getWeight(a) may return; a connection that was idle for a whole window
\* gets the full weight for a try.  A weight of 0 reads as none at all.
Weights(a) ==
  IF conn[a] # "up" THEN {0}
  ELSE IF ~ Degrading(degradeEnable) \/ weight[a] = 0 THEN {DefaultWeight}
  ELSE {weight[a], DefaultWeight}

\* _rr() takes an address of positive weight with some luck, and one of full
\* weight always.
CanTake(a) == \E w \in Weights(a) : w > 0
CanSkip(a) == \E w \in Weights(a) : w < DefaultWeight

\* The i-th address from the offset o on.
At(o, i) == list[((o + i - 2) % Len(list)) + 1]

\* One cycle, from any offset (it starts at random and moves with every call);
\* when every address was skipped, the one that the cycle began with.
RoundRobin ==
  LET n == Len(list)
      Skipped(o, k) == \A i \in 1..k : CanSkip(At(o, i))
      Taking(o) == {k \in 1..n : Skipped(o, k - 1) /\ CanTake(At(o, k))}
      Ending(o) == {[visited |-> {At(o, i) : i \in 1..k}, answer |-> At(o, k)] : k \in Taking(o)}
  IN (UNION {Ending(o) : o \in 1..n})
     \cup {[visited |-> ToSet(list), answer |-> At(o, 1)] :
             o \in {p \in 1..n : Skipped(p, n)}}

\* By weight, or any address when all weights are the same.
RandomWeighted ==
  LET here == ToSet(list)
      ws == {w \in [here -> UNION {Weights(a) : a \in here}] :
               \A a \in here : w[a] \in Weights(a)}
      Hit(w) == IF \A a, b \in here : w[a] = w[b] THEN here
                ELSE {a \in here : w[a] > 0}
  IN {[visited |-> here, answer |-> a] : a \in UNION {Hit(w) : w \in ws}}

\* The hash of the first argument decides; weights are not looked at.
ConsistentHash == {[visited |-> {}, answer |-> a] : a \in ToSet(list)}

Selections ==
  CASE Len(list) = 0 -> {}
    [] Len(list) = 1 -> {[visited |-> {}, answer |-> list[1]]}
    [] OTHER -> CASE LoadBalancerClass = "roundRobin" -> RoundRobin
                  [] LoadBalancerClass = "random" -> RandomWeighted
                  [] LoadBalancerClass = "consistentHash" -> ConsistentHash

\* getConnection(req): the addresses that turn out to have no connection become
\* faulty; the one selected is asked for.
GetConnection ==
  \E s \in Selections :
    /\ fault' = fault \cup {a \in s.visited : conn[a] # "up"}
    /\ conn' = [conn EXCEPT ![s.answer] = IF @ = "none" THEN "connecting" ELSE @]
    /\ UNCHANGED <<all, list, weight, degradeEnable, poolSize, awaited,
                   inited, closed, inits, retry, retries>>

-----------------------------------------------------------------------------
(* The end of a window *)

ErrorMultiple10(c, avg) ==
  IF ErrorRate(avg) = 0
  THEN IF ErrorRate(c) > 0 THEN LeastErrorMultiple10 ELSE 0
  ELSE Round(10 * ErrorRate(c), ErrorRate(avg))

RtMultiple10(c, avg) ==
  IF AvgRT(avg) = 0 THEN 10 ELSE Round(10 * AvgRT(c), AvgRT(avg))

\* What the statistics c of a connection call for, compared with the group's.
Verdict(c, avg) ==
  IF c.total = 0 THEN "keep"
  ELSE IF \/ ErrorMultiple10(c, avg) >= LeastErrorMultiple10
          \/ RtMultiple10(c, avg) >= LeastRtMultiple10
    THEN "degrade"
  ELSE IF /\ ErrorMultiple10(c, avg) < RecoverErrorMultiple10
          /\ RtMultiple10(c, avg) < RecoverRtMultiple10
    THEN "recover"
  ELSE "keep"

\* The verdicts that a group window avg can come with.
Verdicts == [avg \in Counts |-> {Verdict(c, avg) : c \in Counts}]

Degraded(w) ==
  IF w <= DegradeLeastWeight THEN DegradeLeastWeight
  ELSE Most((w * WeightDegradePercent) \div 100, DegradeLeastWeight)

Recovered(w) == Least(w * WeightRecoverRate, DefaultWeight)

NextWeight(g, a, verdict) ==
  IF g.conn[a] # "up" THEN 0
  ELSE IF ~ Degrading(g.degradeEnable) THEN g.weight[a]
  ELSE CASE verdict = "degrade" -> Degraded(g.weight[a])
         [] verdict = "recover" /\ g.weight[a] < DefaultWeight -> Recovered(g.weight[a])
         [] OTHER -> g.weight[a]

Regulate(g, verdict) ==
  [g EXCEPT !.weight = [a \in ToSet(g.list) |-> NextWeight(g, a, verdict[a])],
            !.fault = @ \cup {a \in ToSet(g.list) : g.conn[a] # "up"}]

DegradeCount(g) == Cardinality({a \in DOMAIN g.weight : g.weight[a] < DefaultWeight})

\* Variant: one address too many may be degraded.
GuardOffByOne(g) ==
  IF DegradeCount(g) <= MaxIsolatedNum(Len(g.list)) + 1
  THEN [g EXCEPT !.degradeEnable = TRUE]
  ELSE refresh([g EXCEPT !.degradeEnable = FALSE])

\* The guard against an avalanche.
Guard(g) ==
  IF DegradeCount(g) <= MaxIsolatedNum(Len(g.list))
  THEN [g EXCEPT !.degradeEnable = TRUE]
  ELSE refresh([g EXCEPT !.degradeEnable = FALSE])

\* _onNext(hc); the group listens from ready() to close().
OnNext ==
  /\ inited /\ ~ closed
  /\ \E avg \in Counts :
       LET g == AdjustConnectionPoolSize(Group, avg.total) IN
       \E verdict \in [ToSet(g.list) -> Verdicts[avg]] :
         Become(IF RegulationEffective THEN Guard(Regulate(g, verdict)) ELSE g)
  /\ UNCHANGED <<inited, closed, inits, retry, retries>>

Next ==
  \/ Push \/ Close
  \/ \E a \in Address : Settle(a, TRUE) \/ Settle(a, FALSE) \/ Drop(a)
  \/ RetryFaults \/ EndRetry
  \/ GetConnection
  \/ OnNext

Spec == Init /\ [][Next]_vars

\* What tells a step that settles a from most others: a is not connecting any
\* more, or the retry loop has gone on and asked for it again at once.
Settled(a) ==
  /\ conn[a] = "connecting"
  /\ conn'[a] # "connecting" \/ (retry = "connecting" /\ retry' = "sleeping")

\* A connection settles in the end (the connect timeout), and the timer of the
\* retry loop goes off.  The first line is implied by the weak fairness of
\* Settle(a, TRUE) \/ Settle(a, FALSE), which is enabled while a connects.
Fairness ==
  /\ \A a \in Address : []<>(conn[a] # "connecting") \/ []<><<Settled(a)>>_vars
  /\ WF_vars(RetryFaults)

FairSpec == Spec /\ Fairness

-----------------------------------------------------------------------------
TypeOK ==
  /\ all \in Seq(Address) /\ list \in Seq(Address)
  /\ weight \in [ToSet(list) -> 0..DefaultWeight]
  /\ fault \subseteq Address
  /\ degradeEnable \in BOOLEAN
  /\ poolSize \in Nat
  /\ conn \in [Address -> {"none", "connecting", "up"}]
  /\ inited \in BOOLEAN /\ closed \in BOOLEAN
  /\ awaited \subseteq Address
  /\ inits \subseteq SUBSET Address
  /\ retry \in {"off", "sleeping", "connecting"}
  /\ retries \subseteq Address

(* Whatever answers of connections come late, and after however many pushes *)
(* and close(): only addresses in use are regarded as faulty                *)
(* (address_group.js:129-145, 291-305, 354-358).                            *)
FaultsAreInUse == fault \subseteq ToSet(list)

(* Both weighted load balancers route to a connected address whenever one   *)
(* of full weight is there, and the random one whenever any is there        *)
(* (weight_rr.js:18-38, random.js:8-36).                                    *)
RoutesToConnected ==
  Len(list) > 1 =>
    /\ (\E a \in ToSet(list) : ~ CanSkip(a)) =>
         \A s \in RoundRobin : conn[s.answer] = "up"
    /\ (\E a \in ToSet(list) : conn[a] = "up") =>
         \A s \in RandomWeighted : conn[s.answer] = "up"

(* "如果一次降级的太多，可能造成流量全部打到部分机器，从而雪崩，所以超过某个阀值后禁用调控"  *)
(* (address_group.js:282): no window ends with too many addresses degraded  *)
(* and the weights still in force.                                          *)
TooManyDegraded == DegradeCount(Group) > MaxIsolatedNum(Len(list))
AvalancheGuarded == [][TooManyDegraded' /\ degradeEnable' => ~ OnNext]_vars

(* The same while every address is in use, and refresh() does nothing.      *)
AvalancheGuardedWithoutSpares ==
  [][TooManyDegraded' /\ degradeEnable' /\ Len(all') = Len(list') => ~ OnNext]_vars

(* "如果错误率和平均异常率的比值小于该值，则开始逐步恢复" (lib/client/dynamic_config.js:44):   *)
(* a connected address whose weight was lowered gets a greater weight at    *)
(* the end of a window with statistics that are good enough.                *)
GoodWindowRestoresWeight ==
  \A a \in ToSet(list) :
    Degrading(degradeEnable) /\ conn[a] = "up" /\ weight[a] < DefaultWeight =>
      NextWeight(Group, a, "recover") > weight[a]

(* An elastic pool has the size asked for, without repetitions, whatever is *)
(* known of the addresses and however the pool grows or shrinks             *)
(* (base.js:57-71, 93-142); only a pool that has come to hold all addresses *)
(* does not shrink any more before the next push                            *)
(* (address_group.js:87-94, 180-184).                                       *)
PoolIsFilled ==
  LET n == Len(all) IN
  /\ Cardinality(ToSet(list)) = Len(list)
  /\ \/ Len(list) = n
     \/ NeedElasticControl(n) /\ Len(list) = Least(poolSize, MaxAddressCount)

(* When others replace the faulty addresses after a retry, a bad address    *)
(* stays only if every address not known to be bad is in use                *)
(* (base.js:112-134, address_group.js:318-320).                             *)
ReplacesBadAddresses ==
  [][retry = "connecting" /\ retry' = "sleeping" /\ list' # list =>
       \A a \in ToSet(list') \cap fault', b \in ToSet(all) \ ToSet(list') :
         Unhealthy(Group, b) \/ (conn[b] = "connecting" /\ conn'[b] = "none")]_vars

(* "对于连不上的地址，隔一段时间需要重连一下" (test/client/address_group.test.js:266):  *)
(* every faulty address is tried again or given up in the end.              *)
FaultsAreRetried ==
  \A a \in Address :
    inited /\ ~ closed /\ a \in fault ~> closed \/ a \notin fault \/ conn[a] # "none"

(* ready() fires after the first push, whether or not the addresses can be  *)
(* connected (address_group.js:153-157).                                    *)
GroupBecomesReady == all # <<>> ~> inited
=============================================================================
