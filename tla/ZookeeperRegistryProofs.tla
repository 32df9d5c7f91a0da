----------------------- MODULE ZookeeperRegistryProofs -----------------------
(***************************************************************************)
(* What holds of the registry client for all urls and listeners, however   *)
(* many requests are under way: registrations last, unregistered providers *)
(* stay out, who relies on somebody else's watch is right, and who has not *)
(* been told the addresses yet has a list or a watch under way for him.    *)
(***************************************************************************)
EXTENDS ZookeeperRegistry, FiniteSetTheorems, TLAPS

\* The parts of TypeOK the argument needs.
StateOK ==
  /\ session \in {"up", "down"}
  /\ node \in [Url -> {"none", "mine", "old"}]
  /\ requests \in Seq(Requests)
  /\ registerMap \subseteq Url /\ left \subseteq Url

Registers(r, url) == r.url = url /\ r.op \in {"mkdirp", "exists", "remove", "create"}
Unregisters(r, url) == r.url = url /\ r.op = "unRegister"

\* A registration of the url is under way that no unRegister() follows.
UnderWay(url) ==
  \E i \in DOMAIN requests :
    /\ Registers(requests[i], url)
    /\ \A j \in DOMAIN requests : Unregisters(requests[j], url) => j < i

(* What is in the map is in ZooKeeper for good or on its way there.         *)
RegistrationsLast ==
  session = "up" =>
    \A url \in registerMap :
      \/ UnderWay(url)
      \/ node[url] = "mine" /\ \A j \in DOMAIN requests : ~ Unregisters(requests[j], url)

(* Nobody is about to create a node that is there and will expire.          *)
CreationsFit ==
  \A i \in DOMAIN requests : requests[i].op = "create" => node[requests[i].url] # "old"

(* All that is under way for a provider that was taken out is its removal.  *)
LeftIsLeft ==
  \A url \in left :
    /\ url \notin registerMap
    /\ \A i \in DOMAIN requests : requests[i].url = url => requests[i].op = "unRegister"
    /\ ~ InFlight(url) => node[url] = "none"

IInv ==
  /\ StateOK
  /\ RegistrationsLast
  /\ CreationsFit
  /\ LeftIsLeft
  /\ SubscriptionLives

\* A request is for a url, or it is for a watch and for none.
LEMMA RequestFields ==
  ASSUME NEW r \in Requests
  PROVE  /\ r.op = "watch" => r.url = Null
         /\ r.op # "watch" => r.url \in Url
         /\ r.op \in {"watch", "mkdirp", "exists", "remove", "create", "unRegister"}
BY DEF Requests, WatchRequest

LEMMA ConcatAdds ==
  ASSUME NEW S, NEW s \in Seq(S), NEW t \in Seq(S)
  PROVE  /\ s \o t \in Seq(S)
         /\ DOMAIN (s \o t) = 1..(Len(s) + Len(t))
         /\ \A i \in 1..Len(s) : (s \o t)[i] = s[i]
         /\ \A i \in 1..Len(t) : (s \o t)[Len(s) + i] = t[i]
OBVIOUS

\* An answer takes the first request away and adds what its continuation sends.
LEMMA AnsweredShifts ==
  ASSUME StateOK, NEW op, NEW next \in Seq(Requests), Answered(op, next)
  PROVE  /\ requests' \in Seq(Requests)
         /\ 1 \in DOMAIN requests /\ requests[1] = Head(requests)
         /\ DOMAIN requests' = 1..(Len(requests) - 1 + Len(next))
         /\ DOMAIN requests = 1..Len(requests) /\ Len(requests) \in Nat
         /\ \A i \in 1..(Len(requests) - 1) : requests'[i] = requests[i + 1]
         /\ \A i \in 1..Len(next) : requests'[Len(requests) - 1 + i] = next[i]
<1> DEFINE t == Tail(requests)
<1>1. requests # <<>> /\ requests' = t \o next
  BY DEF Answered
<1>2. t \in Seq(Requests) /\ Len(t) = Len(requests) - 1
        /\ \A i \in 1..Len(t) : t[i] = requests[i + 1]
  BY <1>1 DEF StateOK
<1>3. 1 \in DOMAIN requests /\ requests[1] = Head(requests)
        /\ DOMAIN requests = 1..Len(requests) /\ Len(requests) \in Nat
  BY <1>1 DEF StateOK
<1> HIDE DEF t
<1>4. /\ requests' \in Seq(Requests)
      /\ DOMAIN requests' = 1..(Len(t) + Len(next))
      /\ \A i \in 1..Len(t) : requests'[i] = t[i]
      /\ \A i \in 1..Len(next) : requests'[Len(t) + i] = next[i]
  BY <1>1, <1>2, ConcatAdds
<1>5. QED
  BY <1>1, <1>2, <1>3, <1>4

\* What Append does to the requests.
LEMMA AppendAdds ==
  ASSUME StateOK, NEW r \in Requests, requests' = Append(requests, r)
  PROVE  /\ requests' \in Seq(Requests)
         /\ DOMAIN requests' = 1..(Len(requests) + 1)
         /\ DOMAIN requests = 1..Len(requests) /\ Len(requests) \in Nat
         /\ \A i \in 1..Len(requests) : requests'[i] = requests[i]
         /\ requests'[Len(requests) + 1] = r
BY DEF StateOK

LEMMA InitIInv == Init => IInv
<1> SUFFICES ASSUME Init PROVE IInv
  OBVIOUS
<1>1. StateOK
  BY DEF Init, StateOK
<1>2. RegistrationsLast /\ CreationsFit /\ LeftIsLeft /\ SubscriptionLives
  BY DEF Init, RegistrationsLast, CreationsFit, LeftIsLeft, SubscriptionLives
<1> QED BY <1>1, <1>2 DEF IInv

\* A new request of the process: register() and unRegister().
LEMMA CallsKeep ==
  ASSUME IInv, NEW url \in Url, Register(url) \/ UnRegister(url)
  PROVE  IInv'
<1>1. PICK r \in Requests :
        /\ requests' = Append(requests, r) /\ r.url = url
        /\ \/ Register(url) /\ r.op = "mkdirp"
           \/ UnRegister(url) /\ r.op = "unRegister"
  BY DEF Register, UnRegister, Request, Requests
<1> DEFINE n == Len(requests)
<1>2. /\ requests' \in Seq(Requests)
      /\ DOMAIN requests' = 1..(n + 1) /\ DOMAIN requests = 1..n /\ n \in Nat
      /\ \A i \in 1..n : requests'[i] = requests[i]
      /\ requests'[n + 1] = r
  BY <1>1, AppendAdds DEF IInv
<1>3. /\ UNCHANGED <<session, node, consumerVars>>
      /\ registerMap' = IF r.op = "unRegister" THEN registerMap \ {url} ELSE registerMap
      /\ left' = IF r.op = "mkdirp" THEN left \ {url}
                 ELSE IF InFlight(url) THEN left ELSE left \cup {url}
      /\ r.op \in {"mkdirp", "unRegister"} /\ r.url = url
  BY <1>1 DEF Register, UnRegister
<1>4. IInv
  OBVIOUS
<1> HIDE DEF n
<1>5. StateOK'
  BY <1>2, <1>3, <1>4 DEF IInv, StateOK
<1>6. RegistrationsLast'
  <2> SUFFICES ASSUME session' = "up", NEW u \in registerMap'
               PROVE  \/ UnderWay(u)'
                      \/ node'[u] = "mine" /\ \A j \in DOMAIN requests' : ~ Unregisters(requests'[j], u)
    BY DEF RegistrationsLast
  <2>1. session = "up" /\ u \in registerMap /\ node' = node
    BY <1>3 DEF consumerVars
  <2>2. ~ Unregisters(r, u)
    BY <1>3 DEF Unregisters
  <2>3. CASE UnderWay(u)
    BY <2>2, <2>3, <1>2 DEF UnderWay
  <2>4. CASE node[u] = "mine" /\ \A j \in DOMAIN requests : ~ Unregisters(requests[j], u)
    BY <2>1, <2>2, <2>4, <1>2 DEF Unregisters
  <2>5. QED
    BY <2>1, <2>3, <2>4, <1>4 DEF IInv, RegistrationsLast
<1>7. CreationsFit'
  BY <1>2, <1>3, <1>4 DEF IInv, CreationsFit
<1>8. LeftIsLeft'
  <2> SUFFICES ASSUME NEW u \in left'
               PROVE  /\ u \notin registerMap'
                      /\ \A i \in DOMAIN requests' : requests'[i].url = u => requests'[i].op = "unRegister"
                      /\ ~ InFlight(u)' => node'[u] = "none"
    BY DEF LeftIsLeft
  <2>1. CASE u = url
    BY <2>1, <1>2, <1>3, <1>4 DEF IInv, LeftIsLeft, InFlight
  <2>2. CASE u # url
    BY <2>2, <1>2, <1>3, <1>4 DEF IInv, LeftIsLeft, InFlight
  <2>3. QED
    BY <2>1, <2>2
<1>9. SubscriptionLives'
  <2>1. InFlight(Null) => InFlight(Null)'
    BY <1>2 DEF InFlight
  <2>2. QED
    BY <2>1, <1>3, <1>4 DEF IInv, SubscriptionLives, consumerVars
<1>10. QED
  BY <1>5, <1>6, <1>7, <1>8, <1>9 DEF IInv

\* A step that leaves the providers and ZooKeeper alone and adds requests for
\* watches only.
LEMMA WatchersKeep ==
  ASSUME IInv, NEW l \in Listener,
         Subscribe(l)
  PROVE  IInv'
<1>1. UNCHANGED <<session, node, registerMap, left, watches>>
  BY DEF Subscribe, providerVars
<1>2. CASE subscribeMap # Absent
  BY <1>1, <1>2 DEF Subscribe, IInv, StateOK, RegistrationsLast, UnderWay, CreationsFit,
                    LeftIsLeft, InFlight, SubscriptionLives
<1>3. CASE subscribeMap = Absent
  <2> DEFINE n == Len(requests)  r == WatchRequest(l)
  <2>1. r \in Requests /\ r.op = "watch" /\ r.url = Null /\ requests' = Append(requests, r)
    BY <1>3 DEF Subscribe, WatchRequest, Requests
  <2> HIDE DEF r
  <2>2. /\ requests' \in Seq(Requests)
        /\ DOMAIN requests' = 1..(n + 1) /\ DOMAIN requests = 1..n /\ n \in Nat
        /\ \A i \in 1..n : requests'[i] = requests[i]
        /\ requests'[n + 1] = r
    BY <2>1, AppendAdds DEF IInv
  <2>3. IInv
    OBVIOUS
  <2> HIDE DEF n
  <2>4. StateOK'
    BY <1>1, <2>2, <2>3 DEF IInv, StateOK
  <2>5. RegistrationsLast'
    <3> SUFFICES ASSUME session' = "up", NEW u \in registerMap'
                 PROVE  \/ UnderWay(u)'
                        \/ node'[u] = "mine" /\ \A j \in DOMAIN requests' : ~ Unregisters(requests'[j], u)
      BY DEF RegistrationsLast
    <3>1. ~ Unregisters(r, u)
      BY <2>1 DEF Unregisters
    <3>2. CASE UnderWay(u)
      BY <3>1, <3>2, <2>2 DEF UnderWay
    <3>3. CASE node[u] = "mine" /\ \A j \in DOMAIN requests : ~ Unregisters(requests[j], u)
      BY <1>1, <3>1, <3>3, <2>2 DEF Unregisters
    <3>4. QED
      BY <1>1, <3>2, <3>3, <2>3 DEF IInv, RegistrationsLast
  <2>6. CreationsFit'
    BY <1>1, <2>1, <2>2, <2>3 DEF IInv, CreationsFit
  <2>7. LeftIsLeft'
    BY <1>1, <2>1, <2>2, <2>3, NullAssumption DEF IInv, LeftIsLeft, InFlight, StateOK
  <2>8. SubscriptionLives'
    BY <2>1, <2>2 DEF SubscriptionLives, InFlight
  <2>9. QED
    BY <2>4, <2>5, <2>6, <2>7, <2>8 DEF IInv
<1>4. QED
  BY <1>2, <1>3

\* What all answers to requests for a url have in common.
UrlAnswered(op, url, next) ==
  /\ Answered(op, next) /\ Head(requests).url = url
  /\ next \in Seq(Requests)
  /\ Len(next) = IF op \in {"mkdirp", "exists", "remove"} THEN 1 ELSE 0
  /\ \A j \in 1..Len(next) :
       /\ next[j].url = url /\ next[j].op \in {"exists", "remove", "create"}
       /\ next[j].op = "create" => node'[url] # "old"
  /\ registerMap' = IF op = "mkdirp" THEN registerMap \cup {url} ELSE registerMap
  /\ left' = left /\ UNCHANGED consumerVars
  /\ node' \in [Url -> {"none", "mine", "old"}]
  /\ \A u \in Url \ {url} : node'[u] = node[u]
  /\ node'[url] = IF op \in {"remove", "unRegister"} THEN "none"
                  ELSE IF op = "create" /\ node[url] = "none" THEN "mine"
                  ELSE node[url]

LEMMA UrlAnswersKeep ==
  ASSUME IInv, NEW url \in Url, NEW op, NEW next, UrlAnswered(op, url, next)
  PROVE  IInv'
<1> DEFINE n == Len(requests)  m == Len(next)
<1>1. /\ Answered(op, next) /\ Head(requests).url = url /\ next \in Seq(Requests)
      /\ m = IF op \in {"mkdirp", "exists", "remove"} THEN 1 ELSE 0
  BY DEF UrlAnswered
<1>2. \A j \in 1..m :
        /\ next[j].url = url /\ next[j].op \in {"exists", "remove", "create"}
        /\ next[j].op = "create" => node'[url] # "old"
  BY DEF UrlAnswered
<1>3. /\ registerMap' = IF op = "mkdirp" THEN registerMap \cup {url} ELSE registerMap
      /\ left' = left /\ UNCHANGED consumerVars
  BY DEF UrlAnswered
<1>4. /\ node' \in [Url -> {"none", "mine", "old"}]
      /\ \A u \in Url \ {url} : node'[u] = node[u]
      /\ node'[url] = IF op \in {"remove", "unRegister"} THEN "none"
                      ELSE IF op = "create" /\ node[url] = "none" THEN "mine"
                      ELSE node[url]
  BY DEF UrlAnswered
<1>5. StateOK /\ RegistrationsLast /\ CreationsFit /\ LeftIsLeft /\ SubscriptionLives
  BY DEF IInv
<1>6. m \in {0, 1} /\ session = "up" /\ session' = session
  BY <1>1 DEF Answered
<1>7. /\ requests' \in Seq(Requests)
      /\ n \in Nat /\ 1 \in 1..n
      /\ DOMAIN requests' = 1..(n - 1 + m) /\ DOMAIN requests = 1..n
      /\ \A i \in 1..(n - 1) : requests'[i] = requests[i + 1]
      /\ \A i \in 1..m : requests'[n - 1 + i] = next[i]
      /\ requests[1].op = op /\ requests[1].url = url
  BY <1>1, <1>5, AnsweredShifts DEF Answered
<1>8. op \in {"mkdirp", "exists", "remove", "create", "unRegister"}
  <2>1. requests[1] \in Requests
    BY <1>5, <1>7 DEF StateOK
  <2>2. QED
    BY <2>1, <1>7, RequestFields, NullAssumption
<1> HIDE DEF n, m
\* A request under way is one that was there before or the one just sent.
<1>9. ASSUME NEW j \in DOMAIN requests'
      PROVE  \/ j + 1 \in 1..n /\ j \in 1..(n - 1) /\ requests'[j] = requests[j + 1]
             \/ m = 1 /\ j = n /\ requests'[j] = next[1]
  <2>1. CASE j \in 1..(n - 1)
    BY <2>1, <1>7
  <2>2. CASE j \notin 1..(n - 1)
    <3>1. m = 1 /\ j = n /\ 1 \in 1..m /\ n - 1 + 1 = n
      BY <2>2, <1>6, <1>7
    <3>2. QED
      BY <3>1, <1>7
  <2>3. QED
    BY <2>1, <2>2
<1>10. ASSUME m = 1
       PROVE  /\ n \in DOMAIN requests' /\ requests'[n] = next[1]
              /\ \A j \in DOMAIN requests' : j = n \/ j < n
              /\ next[1].url = url /\ next[1].op \in {"exists", "remove", "create"}
  <2>1. 1 \in 1..m /\ n - 1 + 1 = n /\ n - 1 + m = n
    BY <1>10, <1>7
  <2>2. QED
    BY <2>1, <1>2, <1>7
<1>11. StateOK'
  <2>1. registerMap' \subseteq Url /\ left' \subseteq Url /\ session' \in {"up", "down"}
    BY <1>3, <1>5, <1>6 DEF StateOK
  <2>2. QED
    BY <2>1, <1>4, <1>7 DEF StateOK
<1>12. RegistrationsLast'
  <2> SUFFICES ASSUME NEW u \in registerMap'
               PROVE  \/ UnderWay(u)'
                      \/ node'[u] = "mine" /\ \A j \in DOMAIN requests' : ~ Unregisters(requests'[j], u)
    BY DEF RegistrationsLast
  <2>1. u \in Url
    BY <1>11 DEF StateOK
  <2>2. CASE m = 1 /\ u = url
    BY <2>2, <1>10 DEF UnderWay, Registers, Unregisters
  <2>3. ASSUME ~ (m = 1 /\ u = url)
        PROVE  /\ u \in registerMap
               /\ m = 1 => ~ Unregisters(next[1], u)
    BY <2>3, <1>1, <1>3, <1>10 DEF Unregisters, m
  <2>4. CASE ~ (m = 1 /\ u = url) /\ UnderWay(u)
    <3>1. PICK i \in 1..n :
            /\ Registers(requests[i], u)
            /\ \A j \in 1..n : Unregisters(requests[j], u) => j < i
      BY <2>4, <1>7 DEF UnderWay
    <3>2. CASE i > 1
      <4>1. i - 1 \in DOMAIN requests' /\ Registers(requests'[i - 1], u)
        BY <3>1, <3>2, <1>6, <1>7
      <4>2. ASSUME NEW j \in DOMAIN requests', Unregisters(requests'[j], u)
            PROVE  j < i - 1
        <5>1. j + 1 \in 1..n /\ Unregisters(requests[j + 1], u)
          BY <4>2, <2>3, <2>4, <1>9
        <5>2. j + 1 < i /\ j \in Int
          BY <5>1, <3>1, <1>6, <1>7
        <5>3. QED
          BY <5>2
      <4>3. QED
        BY <4>1, <4>2 DEF UnderWay
    <3>3. CASE i = 1
      <4>1. u = url /\ m = 0 /\ op = "create"
        BY <3>1, <3>3, <2>4, <1>1, <1>6, <1>7, <1>8 DEF Registers, m
      <4>2. node[u] # "old" /\ node[u] \in {"none", "mine", "old"}
        BY <4>1, <2>1, <1>5, <1>7 DEF CreationsFit, StateOK
      <4>3. node'[u] = "mine"
        BY <4>1, <4>2, <1>4
      <4>4. ASSUME NEW j \in DOMAIN requests'
            PROVE  ~ Unregisters(requests'[j], u)
        <5>1. j + 1 \in 1..n /\ requests'[j] = requests[j + 1] /\ j \in 1..(n - 1)
          BY <4>1, <1>9
        <5>2. QED
          BY <5>1, <3>1, <3>3
      <4>5. QED
        BY <4>3, <4>4
    <3>4. QED
      BY <3>2, <3>3, <1>7
  <2>5. CASE /\ ~ (m = 1 /\ u = url)
             /\ node[u] = "mine" /\ \A j \in DOMAIN requests : ~ Unregisters(requests[j], u)
    <3>1. ~ (u = url /\ op = "unRegister")
      BY <2>5, <1>7 DEF Unregisters
    <3>2. node'[u] = "mine"
      BY <3>1, <2>1, <2>5, <1>1, <1>4, <1>8 DEF m
    <3>3. ASSUME NEW j \in DOMAIN requests'
          PROVE  ~ Unregisters(requests'[j], u)
      BY <1>7, <1>9, <2>3, <2>5
    <3>4. QED
      BY <3>2, <3>3
  <2>6. QED
    BY <2>2, <2>3, <2>4, <2>5, <1>5, <1>6 DEF RegistrationsLast
<1>13. CreationsFit'
  <2> SUFFICES ASSUME NEW i \in DOMAIN requests', requests'[i].op = "create"
               PROVE  node'[requests'[i].url] # "old"
    BY DEF CreationsFit
  <2>1. CASE i + 1 \in 1..n /\ requests'[i] = requests[i + 1]
    <3>1. requests[i + 1] \in Requests
      BY <2>1, <1>5, <1>7 DEF StateOK
    <3>2. node[requests[i + 1].url] # "old" /\ requests[i + 1].url \in Url
      BY <2>1, <3>1, <1>5, <1>7, RequestFields DEF CreationsFit
    <3>3. QED
      BY <2>1, <3>2, <1>4
  <2>2. CASE m = 1 /\ requests'[i] = next[1]
    BY <2>2, <1>2, <1>10
  <2>3. QED
    BY <2>1, <2>2, <1>9
<1>14. LeftIsLeft'
  <2> SUFFICES ASSUME NEW u \in left
               PROVE  /\ u \notin registerMap'
                      /\ \A i \in DOMAIN requests' : requests'[i].url = u => requests'[i].op = "unRegister"
                      /\ ~ InFlight(u)' => node'[u] = "none"
    BY <1>3 DEF LeftIsLeft
  <2>1. /\ u \in Url /\ u \notin registerMap
        /\ \A i \in 1..n : requests[i].url = u => requests[i].op = "unRegister"
        /\ (\A i \in 1..n : requests[i].url # u) => node[u] = "none"
    <3>1. /\ u \notin registerMap
          /\ \A i \in DOMAIN requests : requests[i].url = u => requests[i].op = "unRegister"
          /\ ~ InFlight(u) => node[u] = "none"
      BY <1>5 DEF LeftIsLeft
    <3>2. InFlight(u) => \E i \in 1..n : requests[i].url = u
      BY <1>7 DEF InFlight
    <3>3. u \in Url
      BY <1>5 DEF StateOK
    <3>4. QED
      BY <3>1, <3>2, <3>3, <1>7
  <2>2. u = url => op = "unRegister" /\ m = 0
    BY <2>1, <1>1, <1>7 DEF m
  <2>3. u \notin registerMap'
    BY <2>1, <2>2, <1>3
  <2>4. ASSUME NEW i \in DOMAIN requests', requests'[i].url = u
        PROVE  requests'[i].op = "unRegister"
    BY <2>1, <2>2, <2>4, <1>9, <1>10
  <2>5. ASSUME ~ InFlight(u)'
        PROVE  node'[u] = "none"
    <3>1. CASE u = url
      BY <3>1, <2>2, <1>4
    <3>2. CASE u # url
      <4>1. ASSUME NEW i \in 1..n
            PROVE  requests[i].url # u
        <5>1. CASE i = 1
          BY <5>1, <3>2, <1>7
        <5>2. CASE i # 1
          <6>1. i - 1 \in DOMAIN requests' /\ requests'[i - 1] = requests[i]
            BY <5>2, <1>6, <1>7
          <6>2. QED
            BY <6>1, <2>5 DEF InFlight
        <5>3. QED
          BY <5>1, <5>2
      <4>2. QED
        BY <4>1, <3>2, <2>1, <1>4
    <3>3. QED
      BY <3>1, <3>2
  <2>6. QED
    BY <2>3, <2>4, <2>5
<1>15. SubscriptionLives'
  <2>1. ASSUME InFlight(Null) PROVE InFlight(Null)'
    <3>1. PICK i \in 1..n : requests[i].url = Null
      BY <2>1, <1>7 DEF InFlight
    <3>2. i # 1
      BY <3>1, <1>7, NullAssumption
    <3>3. i - 1 \in DOMAIN requests' /\ requests'[i - 1] = requests[i]
      BY <3>2, <1>6, <1>7
    <3>4. QED
      BY <3>1, <3>3 DEF InFlight
  <2>2. QED
    BY <2>1, <1>3, <1>5 DEF SubscriptionLives, consumerVars
<1>16. QED
  BY <1>11, <1>12, <1>13, <1>14, <1>15 DEF IInv

LEMMA AnswerKeeps == ASSUME IInv, Answer PROVE IInv'
<1> USE DEF Request
<1>0. StateOK
  BY DEF IInv
<1>1. CASE MkdirpDone
  <2>1. PICK url \in Url : /\ Answered("mkdirp", <<Request("exists", url)>>)
                           /\ Head(requests).url = url
                           /\ registerMap' = registerMap \cup {url}
                           /\ node' = node
                           /\ UNCHANGED <<left, consumerVars>>
    BY <1>1 DEF MkdirpDone, providerVars
  <2> DEFINE next == <<Request("exists", url)>>
  <2>2. /\ next \in Seq(Requests) /\ Len(next) = 1
        /\ \A j \in 1..Len(next) : next[j].url = url /\ next[j].op \in {"exists"}
        /\ \A j \in 1..Len(next) : next[j].op = "create" => node'[url] # "old"
    BY <2>1, <1>0 DEF Requests, StateOK
  <2> HIDE DEF next
  <2>3. Answered("mkdirp", next)
    BY <2>1 DEF next
  <2>4. node' \in [Url -> {"none", "mine", "old"}]
    BY <2>1, <1>0 DEF StateOK
  <2>5. UrlAnswered("mkdirp", url, next)
    BY <2>1, <2>2, <2>3, <2>4, <1>0 DEF UrlAnswered, StateOK
  <2>6. QED
    BY <2>5, UrlAnswersKeep
<1>2. CASE ExistsDone
  <2>1. PICK url \in Url : /\ Answered("exists", <<Request(IF node[url] = "none" THEN "create" ELSE "remove", url)>>)
                           /\ Head(requests).url = url
                           /\ registerMap' = registerMap
                           /\ node' = node
                           /\ UNCHANGED <<left, consumerVars>>
    BY <1>2 DEF ExistsDone, providerVars
  <2> DEFINE next == <<Request(IF node[url] = "none" THEN "create" ELSE "remove", url)>>
  <2>2. /\ next \in Seq(Requests) /\ Len(next) = 1
        /\ \A j \in 1..Len(next) : next[j].url = url /\ next[j].op \in {"create", "remove"}
        /\ \A j \in 1..Len(next) : next[j].op = "create" => node'[url] # "old"
    BY <2>1, <1>0 DEF Requests, StateOK
  <2> HIDE DEF next
  <2>3. Answered("exists", next)
    BY <2>1 DEF next
  <2>4. node' \in [Url -> {"none", "mine", "old"}]
    BY <2>1, <1>0 DEF StateOK
  <2>5. UrlAnswered("exists", url, next)
    BY <2>1, <2>2, <2>3, <2>4, <1>0 DEF UrlAnswered, StateOK
  <2>6. QED
    BY <2>5, UrlAnswersKeep
<1>3. CASE RemoveDone
  <2>1. PICK url \in Url : /\ Answered("remove", <<Request("create", url)>>)
                           /\ Head(requests).url = url
                           /\ registerMap' = registerMap
                           /\ node' = [node EXCEPT ![url] = "none"]
                           /\ UNCHANGED <<left, consumerVars>>
    BY <1>3 DEF RemoveDone, providerVars
  <2> DEFINE next == <<Request("create", url)>>
  <2>2. /\ next \in Seq(Requests) /\ Len(next) = 1
        /\ \A j \in 1..Len(next) : next[j].url = url /\ next[j].op \in {"create"}
        /\ \A j \in 1..Len(next) : next[j].op = "create" => node'[url] # "old"
    BY <2>1, <1>0 DEF Requests, StateOK
  <2> HIDE DEF next
  <2>3. Answered("remove", next)
    BY <2>1 DEF next
  <2>4. node' \in [Url -> {"none", "mine", "old"}]
    BY <2>1, <1>0 DEF StateOK
  <2>5. UrlAnswered("remove", url, next)
    BY <2>1, <2>2, <2>3, <2>4, <1>0 DEF UrlAnswered, StateOK
  <2>6. QED
    BY <2>5, UrlAnswersKeep
<1>4. CASE CreateDone
  <2>1. PICK url \in Url : /\ Answered("create", <<>>)
                           /\ Head(requests).url = url
                           /\ registerMap' = registerMap
                           /\ node' = [node EXCEPT ![url] = IF @ = "none" THEN "mine" ELSE @]
                           /\ UNCHANGED <<left, consumerVars>>
    BY <1>4 DEF CreateDone, providerVars
  <2> DEFINE next == <<>>
  <2>2. next \in Seq(Requests) /\ Len(next) = 0
    OBVIOUS
  <2> HIDE DEF next
  <2>3. Answered("create", next)
    BY <2>1 DEF next
  <2>4. node' \in [Url -> {"none", "mine", "old"}]
    BY <2>1, <1>0 DEF StateOK
  <2>5. UrlAnswered("create", url, next)
    BY <2>1, <2>2, <2>3, <2>4, <1>0 DEF UrlAnswered, StateOK
  <2>6. QED
    BY <2>5, UrlAnswersKeep
<1>5. CASE UnRegisterDone
  <2>1. PICK url \in Url : /\ Answered("unRegister", <<>>)
                           /\ Head(requests).url = url
                           /\ registerMap' = registerMap
                           /\ node' = [node EXCEPT ![url] = "none"]
                           /\ UNCHANGED <<left, consumerVars>>
    BY <1>5 DEF UnRegisterDone, providerVars
  <2> DEFINE next == <<>>
  <2>2. next \in Seq(Requests) /\ Len(next) = 0
    OBVIOUS
  <2> HIDE DEF next
  <2>3. Answered("unRegister", next)
    BY <2>1 DEF next
  <2>4. node' \in [Url -> {"none", "mine", "old"}]
    BY <2>1, <1>0 DEF StateOK
  <2>5. UrlAnswered("unRegister", url, next)
    BY <2>1, <2>2, <2>3, <2>4, <1>0 DEF UrlAnswered, StateOK
  <2>6. QED
    BY <2>5, UrlAnswersKeep
<1>6. CASE WatchReady
  <2> DEFINE n == Len(requests)
  <2>1. /\ Answered("watch", <<>>) /\ watches' # {}
        /\ UNCHANGED <<node, registerMap, left, session, lost>>
    BY <1>6 DEF WatchReady, providerVars, Answered
  <2>2. <<>> \in Seq(Requests) /\ Len(<<>>) = 0
    OBVIOUS
  <2>3. /\ requests' \in Seq(Requests)
        /\ n \in Nat /\ 1 \in 1..n
        /\ DOMAIN requests' = 1..(n - 1) /\ DOMAIN requests = 1..n
        /\ \A i \in 1..(n - 1) : requests'[i] = requests[i + 1]
        /\ requests[1].op = "watch" /\ requests[1].url = Null
    <3>1. /\ requests' \in Seq(Requests)
          /\ n \in Nat /\ 1 \in 1..n
          /\ DOMAIN requests' = 1..(n - 1 + Len(<<>>)) /\ DOMAIN requests = 1..n
          /\ \A i \in 1..(n - 1) : requests'[i] = requests[i + 1]
          /\ requests[1] = Head(requests)
      <4> DEFINE next == <<>>
      <4>1. next \in Seq(Requests) /\ Answered("watch", next)
        BY <2>1, <2>2
      <4> HIDE DEF next
      <4>2. QED
        BY <4>1, <1>0, AnsweredShifts DEF next
    <3>2. requests[1].op = "watch" /\ requests[1] \in Requests
      BY <3>1, <2>1, <1>0 DEF Answered, StateOK
    <3>3. QED
      BY <2>2, <3>1, <3>2, RequestFields
  <2> HIDE DEF n
  <2>4. IInv
    OBVIOUS
  <2>5. StateOK'
    BY <2>1, <2>3, <1>0 DEF StateOK
  <2>6. RegistrationsLast'
    <3> SUFFICES ASSUME session = "up", NEW u \in registerMap
                 PROVE  \/ UnderWay(u)'
                        \/ node[u] = "mine" /\ \A j \in DOMAIN requests' : ~ Unregisters(requests'[j], u)
      BY <2>1 DEF RegistrationsLast
    <3>1. CASE UnderWay(u)
      <4>1. PICK i \in 1..n :
              /\ Registers(requests[i], u)
              /\ \A j \in 1..n : Unregisters(requests[j], u) => j < i
        BY <3>1, <2>3 DEF UnderWay
      <4>2. i # 1
        BY <4>1, <2>3 DEF Registers
      <4>3. i - 1 \in 1..(n - 1) /\ requests'[i - 1] = requests[i]
        BY <4>2, <2>3
      <4>4. ASSUME NEW j \in 1..(n - 1), Unregisters(requests'[j], u)
            PROVE  j < i - 1
        BY <4>1, <4>4, <2>3
      <4>5. QED
        BY <4>1, <4>3, <4>4, <2>3 DEF UnderWay
    <3>2. CASE node[u] = "mine" /\ \A j \in DOMAIN requests : ~ Unregisters(requests[j], u)
      <4>1. ASSUME NEW j \in DOMAIN requests'
            PROVE  ~ Unregisters(requests'[j], u)
        BY <2>3, <3>2
      <4>2. QED
        BY <3>2, <4>1
    <3>3. QED
      BY <3>1, <3>2, <2>4 DEF IInv, RegistrationsLast
  <2>7. CreationsFit'
    <3>1. CreationsFit
      BY <2>4 DEF IInv
    <3>2. ASSUME NEW i \in DOMAIN requests'
          PROVE  requests'[i] = requests[i + 1] /\ i + 1 \in DOMAIN requests
      BY <2>3
    <3>3. QED
      BY <3>1, <3>2, <2>1 DEF CreationsFit
  <2>8. LeftIsLeft'
    <3>1. LeftIsLeft
      BY <2>4 DEF IInv
    <3>2. ASSUME NEW i \in DOMAIN requests'
          PROVE  requests'[i] = requests[i + 1] /\ i + 1 \in DOMAIN requests
      BY <2>3
    <3>3. ASSUME NEW u \in left, InFlight(u) PROVE InFlight(u)'
      <4>1. PICK i \in 1..n : requests[i].url = u
        BY <3>3, <2>3 DEF InFlight
      <4>2. u \in Url
        BY <1>0 DEF StateOK
      <4>3. i # 1
        BY <4>1, <4>2, <2>3, NullAssumption
      <4>4. i - 1 \in DOMAIN requests' /\ requests'[i - 1] = requests[i]
        BY <4>3, <2>3
      <4>5. QED
        BY <4>1, <4>4 DEF InFlight
    <3>4. QED
      BY <3>1, <3>2, <3>3, <2>1 DEF LeftIsLeft
  <2>9. SubscriptionLives'
    BY <2>1 DEF SubscriptionLives
  <2>10. QED
    BY <2>5, <2>6, <2>7, <2>8, <2>9 DEF IInv
<1>7. QED
  BY <1>1, <1>2, <1>3, <1>4, <1>5, <1>6 DEF Answer

\* Steps that send nothing and leave the providers alone.
LEMMA ListenersKeep ==
  ASSUME IInv,
         UNCHANGED <<session, node, requests, registerMap, left>>,
         SubscriptionLives'
  PROVE  IInv'
BY DEF IInv, StateOK, RegistrationsLast, UnderWay, CreationsFit, LeftIsLeft, InFlight

LEMMA NodeExpiresKeeps ==
  ASSUME IInv, NEW url \in Url, NodeExpires(url)
  PROVE  IInv'
<1>1. /\ UNCHANGED <<session, requests, registerMap, left, consumerVars>>
      /\ node[url] = "old" /\ node' = [node EXCEPT ![url] = "none"]
  BY DEF NodeExpires, providerVars
<1>2. StateOK /\ RegistrationsLast /\ CreationsFit /\ LeftIsLeft /\ SubscriptionLives
  BY DEF IInv
<1>3. /\ StateOK'
      /\ \A u \in Url : node[u] \in {"none", "mine"} => node'[u] = node[u]
      /\ \A u \in Url : node'[u] = "old" => node[u] = "old"
  BY <1>1, <1>2 DEF StateOK
<1>4. \A u : (UnderWay(u) <=> UnderWay(u)') /\ (InFlight(u) <=> InFlight(u)')
  BY <1>1 DEF UnderWay, InFlight
<1>5. RegistrationsLast'
  BY <1>1, <1>2, <1>3, <1>4 DEF RegistrationsLast, StateOK
<1>6. CreationsFit'
  <2> SUFFICES ASSUME NEW i \in DOMAIN requests, requests[i].op = "create"
               PROVE  node'[requests[i].url] # "old"
    BY <1>1 DEF CreationsFit
  <2>1. requests[i] \in Requests
    BY <1>2 DEF StateOK
  <2>2. requests[i].url \in Url
    BY <2>1, RequestFields
  <2>3. QED
    BY <2>2, <1>2, <1>3 DEF CreationsFit
<1>7. LeftIsLeft'
  BY <1>1, <1>2, <1>3, <1>4 DEF LeftIsLeft, StateOK
<1>8. SubscriptionLives'
  BY <1>1, <1>2 DEF SubscriptionLives, consumerVars, InFlight
<1>9. QED
  BY <1>3, <1>5, <1>6, <1>7, <1>8 DEF IInv

\* Whoever is still regarded as left has nothing under way, so that neither what
\* was carried out of the requests nor the new session changes its node.
LEMMA FailuresKeep ==
  ASSUME IInv, Disconnect \/ Expire
  PROVE  IInv'
<1>1. StateOK /\ LeftIsLeft /\ SubscriptionLives
  BY DEF IInv
<1>2. /\ session' = "down" /\ requests' = <<>> /\ registerMap' = registerMap
      /\ left' = left \ {url \in Url : \E i \in DOMAIN requests :
                           requests[i] = Request("unRegister", url)}
      /\ lost' = (lost \/ InFlight(Null))
      /\ UNCHANGED <<subscribeMap, watches>>
  BY DEF Disconnect, Expire, FailRequests
<1>3. node' \in [Url -> {"none", "mine", "old"}]
  <2>1. CASE Disconnect
    <3>1. PICK k \in 0..Len(requests) : node' = [url \in Url |-> Applied(k, url)]
      BY <2>1 DEF Disconnect
    <3>2. \A url \in Url : Applied(k, url) \in {"none", "mine", node[url]}
      BY DEF Applied
    <3>3. QED
      BY <3>1, <3>2, <1>1 DEF StateOK
  <2>2. CASE Expire
    BY <2>2, <1>1 DEF Expire, StateOK
  <2>3. QED
    BY <2>1, <2>2
<1>4. StateOK'
  BY <1>1, <1>2, <1>3 DEF StateOK
<1>5. RegistrationsLast' /\ CreationsFit'
  BY <1>2 DEF RegistrationsLast, CreationsFit
<1>6. LeftIsLeft'
  <2> SUFFICES ASSUME NEW u \in left'
               PROVE  u \notin registerMap' /\ node'[u] = "none"
    BY <1>2 DEF LeftIsLeft
  <2>1. u \in left /\ u \in Url /\ u \notin registerMap
          /\ \A i \in DOMAIN requests : requests[i].url = u => requests[i].op = "unRegister"
    BY <1>1, <1>2 DEF LeftIsLeft, StateOK
  <2>2. ASSUME NEW i \in DOMAIN requests, requests[i].url = u
        PROVE  requests[i] = Request("unRegister", u)
    <3>1. requests[i] \in Requests /\ requests[i].op = "unRegister"
      BY <2>1, <2>2, <1>1 DEF StateOK
    <3>2. \A l \in Listener : WatchRequest(l).op = "watch"
      BY DEF WatchRequest
    <3>3. requests[i] \in [op : {"mkdirp", "exists", "remove", "create", "unRegister"}, url : Url]
      BY <3>1, <3>2 DEF Requests
    <3>4. QED
      BY <3>1, <3>3, <2>2 DEF Request
  <2>3. \A i \in DOMAIN requests : requests[i].url # u
    BY <2>1, <2>2, <1>2
  <2>4. node[u] = "none"
    BY <2>1, <2>3, <1>1 DEF LeftIsLeft, InFlight
  <2>5. CASE Disconnect
    <3>1. PICK k \in 0..Len(requests) : node' = [url \in Url |-> Applied(k, url)]
      BY <2>5 DEF Disconnect
    <3>2. \A i \in 1..k : requests[i].url # u
      <4>1. 1..k \subseteq DOMAIN requests
        BY <1>1 DEF StateOK
      <4>2. QED
        BY <4>1, <2>3
    <3>3. Applied(k, u) = "none"
      BY <3>2, <2>4 DEF Applied
    <3>4. QED
      BY <3>1, <3>3, <2>1, <1>2
  <2>6. CASE Expire
    BY <2>1, <2>4, <2>6, <1>2 DEF Expire
  <2>7. QED
    BY <2>5, <2>6
<1>7. SubscriptionLives'
  BY <1>1, <1>2 DEF SubscriptionLives
<1>8. QED
  BY <1>4, <1>5, <1>6, <1>7 DEF IInv

\* A sequence of a finite set holds every element of it.
LEMMA SetToSeqsHolds ==
  ASSUME NEW S, IsFiniteSet(S), NEW s \in SetToSeqs(S)
  PROVE  /\ DOMAIN s = 1..Cardinality(S) /\ Cardinality(S) \in Nat
         /\ \A i \in DOMAIN s : s[i] \in S
         /\ \A x \in S : \E i \in DOMAIN s : s[i] = x
<1> DEFINE D == 1..Cardinality(S)
<1>1. s \in Injection(D, S)
  BY DEF SetToSeqs, Injection, IsInjective
<1>2. Cardinality(S) \in Nat
  BY FS_CardinalityType
<1>3. Cardinality(D) = Cardinality(S)
  BY <1>2, FS_Interval
<1>4. s \in Surjection(D, S)
  BY <1>1, <1>3, FS_Injection
<1>5. QED
  BY <1>1, <1>2, <1>4 DEF Surjection, Injection

LEMMA ConnectedKeeps ==
  ASSUME IInv, Connected
  PROVE  IInv'
<1>1. StateOK /\ CreationsFit /\ LeftIsLeft /\ SubscriptionLives
  BY DEF IInv
<1>2. UNCHANGED <<node, registerMap, left, consumerVars>> /\ session' = "up"
  BY DEF Connected, providerVars
<1>3. PICK urls \in SetToSeqs(registerMap) :
        requests' = requests \o [i \in DOMAIN urls |-> Request("mkdirp", urls[i])]
  BY DEF Connected
<1>4. IsFiniteSet(registerMap)
  BY <1>1, UrlAssumption, FS_Subset DEF StateOK
<1> DEFINE n == Len(requests)  m == Cardinality(registerMap)
           more == [i \in DOMAIN urls |-> Request("mkdirp", urls[i])]
<1>5. /\ DOMAIN urls = 1..m /\ m \in Nat
      /\ \A i \in 1..m : urls[i] \in registerMap
      /\ \A u \in registerMap : \E i \in 1..m : urls[i] = u
  BY <1>4, SetToSeqsHolds
<1> HIDE DEF m
<1>6. /\ more \in Seq(Requests) /\ Len(more) = m
      /\ \A i \in 1..m : more[i].op = "mkdirp" /\ more[i].url = urls[i]
  <2>1. more \in [1..m -> Requests]
    BY <1>1, <1>5 DEF Request, Requests, StateOK
  <2>2. \A i \in 1..m : more[i].op = "mkdirp" /\ more[i].url = urls[i]
    BY <1>5 DEF Request
  <2> HIDE DEF more
  <2>3. QED
    BY <2>1, <2>2, <1>5
<1>7. /\ requests' \in Seq(Requests)
      /\ DOMAIN requests' = 1..(n + m) /\ DOMAIN requests = 1..n /\ n \in Nat
      /\ \A i \in 1..n : requests'[i] = requests[i]
      /\ \A i \in 1..m : requests'[n + i] = more[i]
  <2> HIDE DEF more
  <2>1. requests' = requests \o more
    BY <1>3 DEF more
  <2>2. QED
    BY <2>1, <1>1, <1>6, ConcatAdds DEF StateOK
<1> HIDE DEF n, more
<1>8. ASSUME NEW j \in DOMAIN requests'
      PROVE  \/ j \in 1..n /\ requests'[j] = requests[j]
             \/ j > n /\ requests'[j].op = "mkdirp" /\ requests'[j].url \in registerMap
  <2>1. CASE j \in 1..n
    BY <2>1, <1>7
  <2>2. CASE j \notin 1..n
    <3>1. j - n \in 1..m /\ n + (j - n) = j /\ j > n
      BY <2>2, <1>5, <1>7
    <3>2. QED
      BY <3>1, <1>5, <1>6, <1>7
  <2>3. QED
    BY <2>1, <2>2
<1>9. StateOK'
  BY <1>1, <1>2, <1>7 DEF StateOK
<1>10. RegistrationsLast'
  <2> SUFFICES ASSUME NEW u \in registerMap PROVE UnderWay(u)'
    BY <1>2 DEF RegistrationsLast
  <2>1. PICK i \in 1..m : urls[i] = u
    BY <1>5
  <2>2. n + i \in DOMAIN requests' /\ Registers(requests'[n + i], u)
    <3>1. n + i \in 1..(n + m)
      BY <1>5, <1>7
    <3>2. QED
      BY <3>1, <2>1, <1>6, <1>7 DEF Registers
  <2>3. ASSUME NEW j \in DOMAIN requests', Unregisters(requests'[j], u)
        PROVE  j < n + i
    <3>1. j \in 1..n
      BY <2>3, <1>8 DEF Unregisters
    <3>2. QED
      BY <3>1, <1>5, <1>7
  <2>4. QED
    BY <2>2, <2>3 DEF UnderWay
<1>11. CreationsFit'
  BY <1>1, <1>2, <1>7, <1>8 DEF CreationsFit
<1>12. LeftIsLeft'
  <2>1. \A u : InFlight(u) => InFlight(u)'
    <3> SUFFICES ASSUME NEW u, NEW i \in DOMAIN requests, requests[i].url = u
                 PROVE  InFlight(u)'
      BY DEF InFlight
    <3>1. i \in DOMAIN requests' /\ requests'[i] = requests[i]
      BY <1>5, <1>7
    <3>2. QED
      BY <3>1 DEF InFlight
  <2>2. QED
    BY <2>1, <1>1, <1>2, <1>7, <1>8 DEF LeftIsLeft
<1>13. SubscriptionLives'
  <2>1. InFlight(Null) => InFlight(Null)'
    <3> SUFFICES ASSUME NEW i \in DOMAIN requests, requests[i].url = Null
                 PROVE  InFlight(Null)'
      BY DEF InFlight
    <3>1. i \in DOMAIN requests' /\ requests'[i] = requests[i]
      BY <1>5, <1>7
    <3>2. QED
      BY <3>1 DEF InFlight
  <2>2. QED
    BY <2>1, <1>1, <1>2 DEF SubscriptionLives, consumerVars
<1>14. QED
  BY <1>9, <1>10, <1>11, <1>12, <1>13 DEF IInv

LEMMA NextIInv == IInv /\ [Next]_vars => IInv'
<1> SUFFICES ASSUME IInv, [Next]_vars PROVE IInv'
  OBVIOUS
<1>0. SubscriptionLives
  BY DEF IInv
<1>1. ASSUME NEW url \in Url, Register(url) \/ UnRegister(url) PROVE IInv'
  BY <1>1, CallsKeep
<1>2. ASSUME NEW url \in Url, NodeExpires(url) PROVE IInv'
  BY <1>2, NodeExpiresKeeps
<1>3. ASSUME NEW l \in Listener, Subscribe(l) PROVE IInv'
  BY <1>3, WatchersKeep
<1>4. ASSUME NEW ls, UnSubscribe(ls) PROVE IInv'
  <2>1. SubscriptionLives'
    BY <1>0, <1>4 DEF UnSubscribe, SubscriptionLives, InFlight
  <2>2. QED
    BY <1>4, <2>1, ListenersKeep DEF UnSubscribe, providerVars
<1>5. ASSUME NEW w \in Listener, Notify(w) PROVE IInv'
  <2>1. SubscriptionLives'
    BY <1>0, <1>5 DEF Notify, SubscriptionLives, InFlight
  <2>2. QED
    BY <1>5, <2>1, ListenersKeep DEF Notify, providerVars
<1>6. CASE RunImmediate
  <2>1. SubscriptionLives'
    BY <1>0, <1>6 DEF RunImmediate, SubscriptionLives, InFlight
  <2>2. QED
    BY <1>6, <2>1, ListenersKeep DEF RunImmediate, providerVars
<1>7. CASE Answer
  BY <1>7, AnswerKeeps
<1>8. CASE Disconnect \/ Expire
  BY <1>8, FailuresKeep
<1>9. CASE Connected
  BY <1>9, ConnectedKeeps
<1>10. CASE UNCHANGED vars
  <2>1. UNCHANGED <<session, node, requests, registerMap, left>> /\ UNCHANGED consumerVars
    BY <1>10 DEF vars, providerVars
  <2>2. SubscriptionLives'
    BY <1>0, <2>1 DEF consumerVars, SubscriptionLives, InFlight
  <2>3. QED
    BY <2>1, <2>2, ListenersKeep
<1>11. QED
  BY <1>1, <1>2, <1>3, <1>4, <1>5, <1>6, <1>7, <1>8, <1>9, <1>10 DEF Next

LEMMA Invariance == Spec => []IInv
BY InitIInv, NextIInv, PTL DEF Spec

(* RegisteredIsVisible for all providers and any number of requests under   *)
(* way (data_client.js:63-108).                                             *)
THEOREM RegistrationsAreVisible == Spec => []RegisteredIsVisible
<1>1. IInv => RegisteredIsVisible
  BY DEF IInv, RegistrationsLast, UnderWay, RegisteredIsVisible
<1>2. QED
  BY <1>1, Invariance, PTL

(* UnregisteredStaysGone for all providers (data_client.js:101-108).        *)
THEOREM UnregisteredProvidersStayGone == Spec => []UnregisteredStaysGone
<1>1. IInv => UnregisteredStaysGone
  BY DEF IInv, LeftIsLeft, UnregisteredStaysGone
<1>2. QED
  BY <1>1, Invariance, PTL

(* SubscriptionLives for all listeners (data_client.js:114-170).            *)
THEOREM SubscriptionsLive == Spec => []SubscriptionLives
<1>1. IInv => SubscriptionLives
  BY DEF IInv
<1>2. QED
  BY <1>1, Invariance, PTL

-----------------------------------------------------------------------------
(* The rest of TypeOK: what the consumer's side of the client keeps.        *)
Deliveries == {<<l, list>> : l \in Listener, list \in Lists}

ConsumersOK ==
  /\ subscribeMap \in Lists \cup {Absent, Null}
  /\ watches \subseteq Listener
  /\ listeners \subseteq Listener
  /\ immediates \in Seq(Deliveries)
  /\ seen \in [Listener -> Lists \cup {Null}]
  /\ lost \in BOOLEAN

\* A list that is delivered later is a list for a listener.
LEMMA SubscribeKeepsType ==
  ASSUME ConsumersOK, NEW l \in Listener, Subscribe(l)
  PROVE  ConsumersOK'
<1>1. CASE subscribeMap \in {Absent, Null}
  BY <1>1 DEF Subscribe, ConsumersOK
<1>2. CASE subscribeMap \notin {Absent, Null}
  <2>1. immediates' = Append(immediates, <<l, subscribeMap>>) /\ UNCHANGED <<subscribeMap, lost>>
    BY <1>2 DEF Subscribe
  <2>2. <<l, subscribeMap>> \in Deliveries
    BY <1>2 DEF ConsumersOK, Deliveries
  <2>3. immediates \in Seq(Deliveries)
    BY DEF ConsumersOK
  <2>4. immediates' \in Seq(Deliveries)
    BY <2>1, <2>2, <2>3
  <2>5. /\ listeners' \subseteq Listener /\ seen' \in [Listener -> Lists \cup {Null}]
        /\ watches' = watches
    BY DEF Subscribe, ConsumersOK
  <2> QED BY <2>1, <2>4, <2>5 DEF ConsumersOK
<1> QED BY <1>1, <1>2

LEMMA RunImmediateKeepsType ==
  ASSUME ConsumersOK, RunImmediate
  PROVE  ConsumersOK'
<1>1. immediates \in Seq(Deliveries) /\ immediates # <<>>
  BY DEF ConsumersOK, RunImmediate
<1>2. \A p \in Deliveries : p[2] \in Lists
  BY DEF Deliveries
<1>3. Head(immediates) \in Deliveries /\ Tail(immediates) \in Seq(Deliveries)
  BY <1>1
<1>4. seen' \in [Listener -> Lists \cup {Null}]
  BY <1>2, <1>3 DEF RunImmediate, ConsumersOK
<1> QED BY <1>3, <1>4 DEF RunImmediate, ConsumersOK

LEMMA ConsumersInvariance == Spec => []ConsumersOK
<1>1. Init => ConsumersOK
  <2> SUFFICES ASSUME Init PROVE ConsumersOK
    OBVIOUS
  <2>1. immediates \in Seq(Deliveries)
    <3>1. immediates = <<>>
      BY DEF Init
    <3> QED BY <3>1
  <2>2. lost \in BOOLEAN
    BY DEF Init
  <2>3. seen \in [Listener -> Lists \cup {Null}]
    BY DEF Init
  <2> QED BY <2>1, <2>2, <2>3 DEF Init, ConsumersOK
<1>2. IInv /\ ConsumersOK /\ [Next]_vars => ConsumersOK'
  <2> SUFFICES ASSUME IInv, ConsumersOK, [Next]_vars PROVE ConsumersOK'
    OBVIOUS
  <2>1. CASE UNCHANGED consumerVars
    BY <2>1 DEF consumerVars, ConsumersOK
  <2>2. ASSUME NEW l \in Listener, Subscribe(l) PROVE ConsumersOK'
    BY <2>2, SubscribeKeepsType
  <2>3. ASSUME NEW ls \in SUBSET Listener, UnSubscribe(ls) PROVE ConsumersOK'
    BY <2>3 DEF UnSubscribe, ConsumersOK
  <2>4. ASSUME NEW w \in Listener, Notify(w) PROVE ConsumersOK'
    <3>1. subscribeMap' \in Lists
      BY <2>4 DEF Notify, Children, Lists
    <3>2. seen' \in [Listener -> Lists \cup {Null}]
      BY <2>4, <3>1 DEF Notify, ConsumersOK
    <3> QED BY <2>4, <3>1, <3>2 DEF Notify, ConsumersOK
  <2>5. CASE WatchReady
    <3>1. Head(requests).by \in Listener
      <4>1. requests \in Seq(Requests) /\ requests # <<>> /\ Head(requests).op = "watch"
        BY <2>5 DEF WatchReady, Answered, IInv, StateOK
      <4>2. \A r \in Requests : r.op = "watch" => r.by \in Listener
        BY DEF Requests, WatchRequest
      <4> QED BY <4>1, <4>2
    <3> QED BY <2>5, <3>1 DEF WatchReady, ConsumersOK
  <2>6. CASE RunImmediate
    BY <2>6, RunImmediateKeepsType
  <2>7. CASE Disconnect \/ Expire
    <3>1. lost' \in BOOLEAN
      BY <2>7 DEF Disconnect, Expire, FailRequests
    <3>2. UNCHANGED <<subscribeMap, watches, listeners, immediates, seen>>
      BY <2>7 DEF Disconnect, Expire
    <3> QED BY <3>1, <3>2 DEF ConsumersOK
  <2>8. CASE Connected
    BY <2>1, <2>8 DEF Connected
  <2>9. ASSUME NEW url \in Url, Register(url) \/ UnRegister(url) \/ NodeExpires(url)
        PROVE  ConsumersOK'
    BY <2>1, <2>9 DEF Register, UnRegister, NodeExpires
  <2>10. CASE MkdirpDone \/ ExistsDone \/ RemoveDone \/ CreateDone \/ UnRegisterDone
    BY <2>1, <2>10 DEF MkdirpDone, ExistsDone, RemoveDone, CreateDone, UnRegisterDone
  <2>11. CASE UNCHANGED vars
    BY <2>1, <2>11 DEF vars
  <2> QED
    BY <2>2, <2>3, <2>4, <2>5, <2>6, <2>7, <2>8, <2>9, <2>10, <2>11 DEF Next, Answer
<1> QED BY <1>1, <1>2, Invariance, PTL DEF Spec

(* Every variable of the registry client keeps its type: what is delivered  *)
(* late is a list for a listener, and only listeners watch.                 *)
THEOREM TypeCorrect == Spec => []TypeOK
<1>1. IInv /\ ConsumersOK => TypeOK
  BY DEF IInv, StateOK, ConsumersOK, Deliveries, TypeOK
<1> QED BY <1>1, Invariance, ConsumersInvariance, PTL

-----------------------------------------------------------------------------
(* Whoever waits waits for something: the safety half of                    *)
(* SubscribersAreServed.                                                    *)

Delivered(l) == \E i \in DOMAIN immediates : immediates[i][1] = l

\* A listener without a list has one on its way, or there is none so far.
Informed ==
  /\ listeners # {} => subscribeMap # Absent
  /\ \A l \in listeners : seen[l] = Null => Delivered(l) \/ subscribeMap = Null

\* Nothing that is to be delivered gets lost when more is put behind it.
LEMMA DeliveriesStay ==
  ASSUME ConsumersOK, NEW d \in Deliveries, immediates' = Append(immediates, d)
  PROVE  /\ \A l \in Listener : Delivered(l) => Delivered(l)'
         /\ \E i \in DOMAIN immediates' : immediates'[i] = d
<1> DEFINE n == Len(immediates)
<1>1. n \in Nat /\ DOMAIN immediates = 1..n /\ DOMAIN immediates' = 1..(n + 1)
        /\ (\A i \in 1..n : immediates'[i] = immediates[i]) /\ immediates'[n + 1] = d
  BY DEF ConsumersOK
<1> HIDE DEF n
<1>2. n + 1 \in 1..(n + 1) /\ \A i \in 1..n : i \in 1..(n + 1)
  BY <1>1
<1> QED BY <1>1, <1>2 DEF Delivered

\* What is delivered is a list, and what is behind it comes next.
LEMMA DeliveryCounts ==
  ASSUME ConsumersOK, RunImmediate
  PROVE  \A l \in Listener : Delivered(l) => Delivered(l)' \/ seen'[l] # Null
<1> SUFFICES ASSUME NEW l \in Listener, NEW i \in DOMAIN immediates, immediates[i][1] = l
             PROVE  Delivered(l)' \/ seen'[l] # Null
  BY DEF Delivered
<1>1. immediates \in Seq(Deliveries) /\ immediates # <<>> /\ immediates' = Tail(immediates)
        /\ seen' = [seen EXCEPT ![Head(immediates)[1]] = Head(immediates)[2]]
  BY DEF ConsumersOK, RunImmediate
<1> DEFINE n == Len(immediates)
<1>2. n \in Nat /\ DOMAIN immediates = 1..n /\ DOMAIN immediates' = 1..(n - 1)
        /\ (\A j \in 1..(n - 1) : immediates'[j] = immediates[j + 1])
        /\ Head(immediates) = immediates[1] /\ Head(immediates) \in Deliveries
  BY <1>1
<1> HIDE DEF n
<1>3. CASE i = 1
  <2>1. Head(immediates)[2] \in Lists /\ Head(immediates)[1] = l
    BY <1>2, <1>3 DEF Deliveries
  <2>2. seen'[l] = Head(immediates)[2]
    BY <1>1, <2>1 DEF ConsumersOK
  <2> QED BY <2>1, <2>2, AbsentAssumption DEF Lists
<1>4. CASE i # 1
  <2>1. i - 1 \in 1..(n - 1) /\ (i - 1) + 1 = i
    BY <1>2, <1>4
  <2>2. immediates'[i - 1] = immediates[i]
    BY <1>2, <2>1
  <2> QED BY <1>2, <2>1, <2>2 DEF Delivered
<1> QED BY <1>3, <1>4

LEMMA InformedStep == ConsumersOK /\ Informed /\ [Next]_vars => Informed'
<1> SUFFICES ASSUME ConsumersOK, Informed, [Next]_vars PROVE Informed'
  OBVIOUS
<1>1. CASE UNCHANGED <<subscribeMap, listeners, immediates, seen>>
  BY <1>1 DEF Informed, Delivered
<1>2. ASSUME NEW l \in Listener, Subscribe(l) PROVE Informed'
  <2>1. /\ listeners' = listeners \cup {l} /\ listeners \subseteq Listener
        /\ seen' = [seen EXCEPT ![l] = Null] /\ seen \in [Listener -> Lists \cup {Null}]
    BY <1>2 DEF Subscribe, ConsumersOK
  <2>2. CASE subscribeMap \in {Absent, Null}
    <3>1. subscribeMap' = Null
      BY <1>2, <2>2 DEF Subscribe
    <3> QED BY <3>1, AbsentAssumption DEF Informed
  <2>3. CASE subscribeMap \notin {Absent, Null}
    <3>1. subscribeMap' = subscribeMap /\ immediates' = Append(immediates, <<l, subscribeMap>>)
      BY <1>2, <2>3 DEF Subscribe
    <3>2. <<l, subscribeMap>> \in Deliveries
      BY <2>3 DEF ConsumersOK, Deliveries
    <3>3. Delivered(l)' /\ \A k \in Listener : Delivered(k) => Delivered(k)'
      <4>1. PICK i \in DOMAIN immediates' : immediates'[i] = <<l, subscribeMap>>
        BY <3>1, <3>2, DeliveriesStay
      <4>2. Delivered(l)'
        BY <4>1 DEF Delivered
      <4> QED BY <3>1, <3>2, <4>2, DeliveriesStay
    <3>4. \A k \in listeners' : seen'[k] = Null => Delivered(k)'
      BY <2>1, <2>3, <3>3 DEF Informed
    <3> QED BY <2>3, <3>1, <3>4 DEF Informed
  <2> QED BY <2>2, <2>3
<1>3. ASSUME NEW ls, UnSubscribe(ls) PROVE Informed'
  BY <1>3 DEF UnSubscribe, Informed, Delivered
<1>4. ASSUME NEW w \in Listener, Notify(w) PROVE Informed'
  <2>1. subscribeMap' \in SUBSET Url /\ listeners' = listeners /\ listeners \subseteq Listener
    BY <1>4 DEF Notify, Children, ConsumersOK
  <2>2. \A l \in listeners' : seen'[l] = subscribeMap'
    BY <1>4, <2>1 DEF Notify
  <2>3. subscribeMap' \notin {Absent, Null}
    BY <2>1, AbsentAssumption
  <2> QED BY <2>2, <2>3 DEF Informed
<1>5. CASE RunImmediate
  <2>1. /\ \A l \in Listener : Delivered(l) => Delivered(l)' \/ seen'[l] # Null
        /\ listeners \subseteq Listener
    BY <1>5, DeliveryCounts DEF ConsumersOK
  <2>2. UNCHANGED <<subscribeMap, listeners>>
    BY <1>5 DEF RunImmediate
  <2>3. \A l \in Listener : seen'[l] = Null => seen[l] = Null \/ Delivered(l)
    <3>1. immediates \in Seq(Deliveries) /\ immediates # <<>> /\ seen \in [Listener -> Lists \cup {Null}]
            /\ seen' = [seen EXCEPT ![Head(immediates)[1]] = Head(immediates)[2]]
      BY <1>5 DEF RunImmediate, ConsumersOK
    <3>2. 1 \in DOMAIN immediates /\ Head(immediates) = immediates[1]
      BY <3>1
    <3> QED BY <3>1, <3>2 DEF Delivered
  <2> QED BY <2>1, <2>2, <2>3 DEF Informed
<1>6. CASE WatchReady \/ Disconnect \/ Expire \/ Connected
  BY <1>1, <1>6 DEF WatchReady, Disconnect, Expire, Connected, consumerVars
<1>7. ASSUME NEW url \in Url, Register(url) \/ UnRegister(url) \/ NodeExpires(url)
      PROVE  Informed'
  BY <1>1, <1>7 DEF Register, UnRegister, NodeExpires, consumerVars
<1>8. CASE \/ MkdirpDone \/ ExistsDone \/ RemoveDone \/ CreateDone \/ UnRegisterDone
           \/ UNCHANGED vars
  BY <1>1, <1>8 DEF MkdirpDone, ExistsDone, RemoveDone, CreateDone, UnRegisterDone, vars,
                    consumerVars
<1> QED BY <1>2, <1>3, <1>4, <1>5, <1>6, <1>7, <1>8 DEF Next, Answer

SubscriberHasItsEvent ==
  \A l \in listeners : seen[l] = Null =>
    \/ Delivered(l)
    \/ subscribeMap = Null /\ (watches # {} \/ InFlight(Null) \/ lost)

(* No listener is forgotten: as long as it has not been called, the list    *)
(* that is known is on its way to it by setImmediate(), or there is none    *)
(* yet and a watch will bring the first one, is being set up, or has failed *)
(* to be (data_client.js:110-170).                                          *)
THEOREM SubscribersAreNeverForgotten == Spec => []SubscriberHasItsEvent
<1>1. Init => Informed
  BY DEF Init, Informed
<1>2. IInv /\ Informed => SubscriberHasItsEvent
  BY DEF IInv, SubscriptionLives, Informed, SubscriberHasItsEvent
<1> QED BY <1>1, <1>2, InformedStep, Invariance, ConsumersInvariance, PTL DEF Spec
=============================================================================
