--------------------------- MODULE RpcServerProofs ---------------------------
(***************************************************************************)
(* What holds of the server for every number of connections, requests and  *)
(* calls of close().  That nothing is left after close() rests on the map  *)
(* of connections being complete, and on every connection that is still    *)
(* there being awaited by every close() that has come that far.  The last  *)
(* part shows that neither close() nor publish() waits for nothing.        *)
(***************************************************************************)
EXTENDS RpcServer, TLAPS

Present == {c \in Conn : conn[c] \in {"open", "ending"}}

MapIsComplete == connections = Present

ClosersAwaitAll ==
  \A k \in Closer :
    /\ close[k] \in {"closing", "done"} =>
         ~ listening /\ \A c \in Conn : conn[c] # "open" /\ (c \in Present => c \in waits[k])
    /\ close[k] = "done" => waits[k] = {}

\* A connection that brought a request has been accepted: it is not open again
\* once it is not open.
RequestsArrived ==
  \A r \in Req :
    /\ req[r] = "none" => written[r] = 0
    /\ req[r] # "none" => of[r] \in Conn /\ conn[of[r]] # "new"
    /\ req[r] \in {"running", "sending", "apologizing"} => written[r] = 0

IInv ==
  /\ TypeOK
  /\ MapIsComplete
  /\ ClosersAwaitAll
  /\ RequestsArrived
  /\ AnsweredOnce

(* A server that has not been started keeps nothing.                        *)
LEMMA InitIInv == Init => IInv
<1> SUFFICES ASSUME Init PROVE IInv
  OBVIOUS
<1> USE ServerAssumption DEF Init
<1>1. TypeOK
  <2>1. /\ idle \in [Conn -> 0 .. MaxIdleTime] /\ timer \in [Conn -> 0 .. MaxIdleTime]
        /\ age \in [Req -> 0 .. Timeout]
    OBVIOUS
  <2>2. publishUrl \in Url \cup {NoUrl} /\ target \in [Closer -> Url \cup {NoUrl}]
    OBVIOUS
  <2>3. /\ code \in [Req -> Codes] /\ written \in [Req -> 0 .. 2]
        /\ of \in [Req -> Conn \cup {NoConn}] /\ waits \in [Closer -> SUBSET Conn]
    BY DEF Codes
  <2> QED BY <2>1, <2>2, <2>3 DEF TypeOK
<1>2. MapIsComplete /\ ClosersAwaitAll
  BY DEF MapIsComplete, Present, ClosersAwaitAll
<1>3. RequestsArrived /\ AnsweredOnce
  BY DEF RequestsArrived, AnsweredOnce
<1> QED BY <1>1, <1>2, <1>3 DEF IInv

-----------------------------------------------------------------------------
(* The clock and the sockets keep the invariant.                            *)
LEMMA TickKeeps == IInv /\ Tick => IInv'
<1> SUFFICES ASSUME IInv, Tick PROVE IInv'
  OBVIOUS
<1> USE ServerAssumption DEF Tick, netVars, closeVars, pubVars
<1>1. TypeOK'
  <2>1. idle' \in [Conn -> 0 .. MaxIdleTime] /\ age' \in [Req -> 0 .. Timeout]
    BY DEF IInv, TypeOK, Older
  <2>2. timer' \in [Conn -> 0 .. MaxIdleTime]
    BY DEF IInv, TypeOK
  <2> QED BY <2>1, <2>2 DEF IInv, TypeOK
<1>2. MapIsComplete' /\ ClosersAwaitAll'
  BY DEF IInv, MapIsComplete, Present, ClosersAwaitAll
<1>3. RequestsArrived' /\ AnsweredOnce'
  BY DEF IInv, RequestsArrived, AnsweredOnce
<1> QED BY <1>1, <1>2, <1>3 DEF IInv

LEMMA SocketSteps ==
  ASSUME IInv, Start \/ \E c \in Conn : Accept(c) \/ IdleCheck(c) \/ Heartbeat(c)
                                         \/ HandleClose(c)
  PROVE  IInv'
<1> USE ServerAssumption DEF netVars, connVars, reqVars, closeVars, pubVars
<1>1. ASSUME Start PROVE IInv'
  <2>1. TypeOK'
    BY <1>1 DEF Start, IInv, TypeOK
  <2>2. MapIsComplete' /\ ClosersAwaitAll'
    BY <1>1 DEF Start, IInv, MapIsComplete, Present, ClosersAwaitAll
  <2>3. RequestsArrived' /\ AnsweredOnce'
    BY <1>1 DEF Start, IInv, RequestsArrived, AnsweredOnce
  <2> QED BY <2>1, <2>2, <2>3 DEF IInv
<1>2. ASSUME NEW c \in Conn, Accept(c) PROVE IInv'
  <2>1. TypeOK'
    BY <1>2 DEF Accept, IInv, TypeOK
  <2>2. MapIsComplete'
    BY <1>2 DEF Accept, IInv, TypeOK, MapIsComplete, Present
  <2>3. ClosersAwaitAll'
    BY <1>2 DEF Accept, IInv, TypeOK, ClosersAwaitAll
  <2>4. RequestsArrived' /\ AnsweredOnce'
    BY <1>2 DEF Accept, IInv, TypeOK, RequestsArrived, AnsweredOnce
  <2> QED BY <2>1, <2>2, <2>3, <2>4 DEF IInv
<1>3. ASSUME NEW c \in Conn, IdleCheck(c) PROVE IInv'
  <2>1. /\ conn' \in [Conn -> {"new", "open", "ending", "closed"}]
        /\ \A d \in Conn : conn'[d] = conn[d] \/ (conn[d] = "open" /\ conn'[d] = "ending")
    BY <1>3 DEF IdleCheck, Ended, IInv, TypeOK
  <2>2. /\ timer' \in [Conn -> 0 .. MaxIdleTime]
        /\ UNCHANGED <<connections, idle, netVars, reqVars, closeVars, pubVars>>
    BY <1>3 DEF IdleCheck, IInv, TypeOK
  <2>3. TypeOK'
    BY <2>1, <2>2 DEF IInv, TypeOK
  <2>4. MapIsComplete' /\ ClosersAwaitAll'
    <3>1. Present' = Present
      BY <2>1 DEF Present
    <3> QED BY <2>1, <2>2, <3>1 DEF IInv, MapIsComplete, ClosersAwaitAll
  <2>5. RequestsArrived'
    BY <2>1, <2>2 DEF IInv, TypeOK, RequestsArrived
  <2>6. AnsweredOnce'
    <3>1. ASSUME NEW r \in Req, req[r] = "done", written[r] = 0
          PROVE  code[r] = "03" \/ conn'[of[r]] # "open"
      BY <2>1, <3>1 DEF IInv, RequestsArrived, AnsweredOnce
    <3> QED BY <2>2, <3>1 DEF IInv, AnsweredOnce
  <2> QED BY <2>3, <2>4, <2>5, <2>6 DEF IInv
<1>4. ASSUME NEW c \in Conn, Heartbeat(c) PROVE IInv'
  <2>1. TypeOK'
    BY <1>4 DEF Heartbeat, IInv, TypeOK
  <2>2. MapIsComplete' /\ ClosersAwaitAll'
    BY <1>4 DEF Heartbeat, IInv, MapIsComplete, Present, ClosersAwaitAll
  <2>3. RequestsArrived' /\ AnsweredOnce'
    BY <1>4 DEF Heartbeat, IInv, RequestsArrived, AnsweredOnce
  <2> QED BY <2>1, <2>2, <2>3 DEF IInv
<1>5. ASSUME NEW c \in Conn, HandleClose(c) PROVE IInv'
  <2>1. TypeOK'
    BY <1>5 DEF HandleClose, IInv, TypeOK
  <2>2. MapIsComplete'
    BY <1>5 DEF HandleClose, IInv, TypeOK, MapIsComplete, Present
  <2>3. ClosersAwaitAll'
    <3>1. \A d \in Conn : (conn'[d] = conn[d] /\ d # c) \/ conn'[d] = "closed"
      BY <1>5 DEF HandleClose, IInv, TypeOK
    <3>2. \A k \in Closer : waits'[k] = waits[k] \ {c}
      BY <1>5 DEF HandleClose
    <3> QED BY <1>5, <3>1, <3>2 DEF HandleClose, IInv, ClosersAwaitAll, Present
  <2>4. RequestsArrived' /\ AnsweredOnce'
    BY <1>5 DEF HandleClose, IInv, TypeOK, RequestsArrived, AnsweredOnce
  <2> QED BY <2>1, <2>2, <2>3, <2>4 DEF IInv
<1> QED BY <1>1, <1>2, <1>3, <1>4, <1>5

-----------------------------------------------------------------------------
(* Requests disturb no connection.                                          *)
LEMMA RequestSteps ==
  ASSUME IInv, NEW r \in Req,
         \/ \E c \in Conn : \/ Malformed(r, c) \/ NotFoundService(r, c)
                            \/ NotFoundMethod(r, c) \/ Invoke(r, c)
         \/ \E result \in {"00", "01", "02"} : MethodEnds(r, result)
         \/ SendOk(r) \/ SendFails(r)
  PROVE  IInv'
<1> USE ServerAssumption DEF netVars, connVars, reqVars, closeVars, pubVars
<1>1. ASSUME NEW c \in Conn, Arrives(r, c),
             NEW state \in {"rejected", "apologizing", "sending", "running"},
             req' = [req EXCEPT ![r] = state],
             NEW result \in Codes, code' = [code EXCEPT ![r] = result]
      PROVE  IInv'
  <2>1. TypeOK'
    BY <1>1 DEF Arrives, IInv, TypeOK
  <2>2. MapIsComplete' /\ ClosersAwaitAll'
    BY <1>1 DEF Arrives, IInv, MapIsComplete, Present, ClosersAwaitAll
  <2>3. RequestsArrived'
    BY <1>1 DEF Arrives, IInv, TypeOK, RequestsArrived
  <2>4. AnsweredOnce'
    BY <1>1 DEF Arrives, IInv, TypeOK, AnsweredOnce
  <2> QED BY <2>1, <2>2, <2>3, <2>4 DEF IInv
<1>2. ASSUME NEW c \in Conn, \/ Malformed(r, c) \/ NotFoundService(r, c)
                             \/ NotFoundMethod(r, c) \/ Invoke(r, c)
      PROVE  IInv'
  <2>1. code[r] \in Codes /\ code = [code EXCEPT ![r] = code[r]]
    BY DEF IInv, TypeOK
  <2>2. CASE Malformed(r, c)
    BY <1>1, <2>1, <2>2 DEF Malformed
  <2>3. CASE NotFoundService(r, c)
    BY <1>1, <2>3 DEF NotFoundService, Codes
  <2>4. CASE NotFoundMethod(r, c)
    BY <1>1, <2>4 DEF NotFoundMethod, Codes
  <2>5. CASE Invoke(r, c)
    BY <1>1, <2>1, <2>5 DEF Invoke
  <2> QED BY <1>2, <2>2, <2>3, <2>4, <2>5
<1>3. ASSUME NEW result \in {"00", "01", "02"}, MethodEnds(r, result) PROVE IInv'
  <2>1. TypeOK'
    BY <1>3 DEF MethodEnds, IInv, TypeOK, Codes
  <2>2. MapIsComplete' /\ ClosersAwaitAll'
    BY <1>3 DEF MethodEnds, IInv, MapIsComplete, Present, ClosersAwaitAll
  <2>3. RequestsArrived'
    BY <1>3 DEF MethodEnds, IInv, TypeOK, RequestsArrived
  <2>4. AnsweredOnce'
    BY <1>3 DEF MethodEnds, IsClosed, IInv, TypeOK, RequestsArrived, AnsweredOnce
  <2> QED BY <2>1, <2>2, <2>3, <2>4 DEF IInv
<1>4. ASSUME SendOk(r) PROVE IInv'
  <2>1. written[r] = 0 /\ written' = [written EXCEPT ![r] = 1]
    <3>1. written[r] = 0
      BY <1>4 DEF SendOk, IInv, RequestsArrived
    <3>2. written[r] + 1 = 1
      BY <3>1
    <3> QED BY <1>4, <3>1, <3>2 DEF SendOk
  <2>2. TypeOK'
    BY <1>4, <2>1 DEF SendOk, IInv, TypeOK
  <2>3. MapIsComplete' /\ ClosersAwaitAll'
    BY <1>4 DEF SendOk, IInv, MapIsComplete, Present, ClosersAwaitAll
  <2>4. RequestsArrived'
    BY <1>4, <2>1 DEF SendOk, IInv, TypeOK, RequestsArrived
  <2>5. AnsweredOnce'
    BY <1>4, <2>1 DEF SendOk, IInv, TypeOK, AnsweredOnce
  <2> QED BY <2>2, <2>3, <2>4, <2>5 DEF IInv
<1>5. ASSUME SendFails(r) PROVE IInv'
  <2>1. TypeOK'
    BY <1>5 DEF SendFails, IInv, TypeOK, Codes
  <2>2. MapIsComplete' /\ ClosersAwaitAll'
    BY <1>5 DEF SendFails, IInv, MapIsComplete, Present, ClosersAwaitAll
  <2>3. RequestsArrived' /\ AnsweredOnce'
    BY <1>5 DEF SendFails, IInv, TypeOK, RequestsArrived, AnsweredOnce
  <2> QED BY <2>1, <2>2, <2>3 DEF IInv
<1> QED BY <1>2, <1>3, <1>4, <1>5

-----------------------------------------------------------------------------
(* Publication touches the registry alone.                                  *)
LEMMA PublishSteps ==
  ASSUME IInv, NEW n \in Url,
         Publish(n) \/ Registered(n) \/ RegisterFails(n) \/ Notify(n)
  PROVE  IInv'
<1> USE DEF netVars, connVars, reqVars, closeVars, Publish, Registered,
            RegisterFails, Notify
<1>1. TypeOK'
  BY DEF IInv, TypeOK
<1>2. MapIsComplete' /\ ClosersAwaitAll'
  BY DEF IInv, MapIsComplete, Present, ClosersAwaitAll
<1>3. RequestsArrived' /\ AnsweredOnce'
  BY DEF IInv, RequestsArrived, AnsweredOnce
<1> QED BY <1>1, <1>2, <1>3 DEF IInv

(* close() keeps the invariant, however many calls of it overlap.           *)
LEMMA CloseSteps ==
  ASSUME IInv, NEW k \in Closer,
         BeginClose(k) \/ Unpublished(k) \/ UnpublishFails(k) \/ EndClose(k)
  PROVE  IInv'
<1> USE DEF netVars, connVars, reqVars, pubVars
<1>1. ASSUME BeginClose(k) \/ UnpublishFails(k) PROVE IInv'
  <2>1. TypeOK'
    BY <1>1 DEF BeginClose, UnpublishFails, IInv, TypeOK
  <2>2. MapIsComplete' /\ ClosersAwaitAll'
    BY <1>1 DEF BeginClose, UnpublishFails, IInv, TypeOK, MapIsComplete, Present,
                ClosersAwaitAll
  <2>3. RequestsArrived' /\ AnsweredOnce'
    BY <1>1 DEF BeginClose, UnpublishFails, IInv, RequestsArrived, AnsweredOnce
  <2> QED BY <2>1, <2>2, <2>3 DEF IInv
<1>2. ASSUME Unpublished(k) PROVE IInv'
  <2>1. /\ conn' \in [Conn -> {"new", "open", "ending", "closed"}]
        /\ \A c \in Conn : conn'[c] = IF conn[c] = "open" THEN "ending" ELSE conn[c]
    BY <1>2 DEF Unpublished, Ended, IInv, TypeOK, MapIsComplete, Present
  <2>2. TypeOK'
    BY <1>2, <2>1 DEF Unpublished, IInv, TypeOK
  <2>3. MapIsComplete'
    BY <1>2, <2>1 DEF Unpublished, IInv, MapIsComplete, Present
  <2>4. Present' = connections
    BY <2>1 DEF IInv, MapIsComplete, Present
  <2>5. ASSUME NEW d \in Closer PROVE
          /\ close'[d] \in {"closing", "done"} =>
               ~ listening' /\ \A c \in Conn :
                                 conn'[c] # "open" /\ (c \in Present' => c \in waits'[d])
          /\ close'[d] = "done" => waits'[d] = {}
    <3>1. CASE d = k
      BY <1>2, <2>1, <2>4, <3>1 DEF Unpublished, IInv, TypeOK
    <3>2. CASE d # k
      BY <1>2, <2>1, <2>4, <3>2 DEF Unpublished, IInv, TypeOK, MapIsComplete, Present,
                                    ClosersAwaitAll
    <3> QED BY <3>1, <3>2
  <2>6. ClosersAwaitAll'
    BY <2>5 DEF ClosersAwaitAll
  <2>7. RequestsArrived' /\ AnsweredOnce'
    BY <1>2, <2>1 DEF Unpublished, IInv, TypeOK, RequestsArrived, AnsweredOnce
  <2> QED BY <2>2, <2>3, <2>6, <2>7 DEF IInv
<1>3. ASSUME EndClose(k) PROVE IInv'
  <2>1. TypeOK'
    BY <1>3 DEF EndClose, IInv, TypeOK
  <2>2. MapIsComplete' /\ ClosersAwaitAll'
    BY <1>3 DEF EndClose, IInv, TypeOK, MapIsComplete, Present, ClosersAwaitAll
  <2>3. RequestsArrived' /\ AnsweredOnce'
    BY <1>3 DEF EndClose, IInv, RequestsArrived, AnsweredOnce
  <2> QED BY <2>1, <2>2, <2>3 DEF IInv
<1> QED BY <1>1, <1>2, <1>3

-----------------------------------------------------------------------------
LEMMA NextIInv == IInv /\ [Next]_vars => IInv'
<1> SUFFICES ASSUME IInv, [Next]_vars PROVE IInv'
  OBVIOUS
<1>1. CASE Next
  BY <1>1, TickKeeps, SocketSteps, RequestSteps, PublishSteps, CloseSteps DEF Next
<1>2. CASE UNCHANGED vars
  <2> USE <1>2 DEF vars, netVars, connVars, reqVars, closeVars, pubVars
  <2>1. TypeOK'
    BY DEF IInv, TypeOK
  <2>2. MapIsComplete' /\ ClosersAwaitAll'
    BY DEF IInv, MapIsComplete, Present, ClosersAwaitAll
  <2>3. RequestsArrived' /\ AnsweredOnce'
    BY DEF IInv, RequestsArrived, AnsweredOnce
  <2> QED BY <2>1, <2>2, <2>3 DEF IInv
<1> QED BY <1>1, <1>2

(* The invariant holds in every reachable state of the server.              *)
LEMMA Invariance == Spec => []IInv
  BY InitIInv, NextIInv, PTL DEF Spec

(* Every variable of the server keeps its type.                             *)
THEOREM TypeCorrect == Spec => []TypeOK
<1>1. IInv => TypeOK
  BY DEF IInv
<1> QED BY <1>1, Invariance, PTL

(* A request is answered at most once, and at least once unless it took too *)
(* long or its connection went away (server.js _invokeService, service.js   *)
(* invoke): for any number of requests and connections.                     *)
THEOREM RequestsAreAnsweredOnce == Spec => []AnsweredOnce
<1>1. IInv => AnsweredOnce
  BY DEF IInv
<1> QED BY <1>1, Invariance, PTL

(* When a close() has ended no connection is left, however many of them     *)
(* overlap (server.js close, _handleSocket).                                *)
THEOREM ClosedServerIsQuiet == Spec => []ClosedIsQuiet
<1>1. IInv => ClosedIsQuiet
  BY DEF IInv, TypeOK, ClosersAwaitAll, ClosedIsQuiet, Present
<1> QED BY <1>1, Invariance, PTL

-----------------------------------------------------------------------------
(* Publication.  publish() is not called any more once a close() has begun, *)
(* so every close() goes for the url that was published last.               *)
TargetIsPublished ==
  /\ \A k \in Closer : close[k] # "none" => target[k] = publishUrl
  /\ \A n \in Url : pub[n] # "none" => publishUrl # NoUrl

LEMMA TargetInvariance == Spec => []TargetIsPublished
<1>1. Init => TargetIsPublished
  BY DEF Init, TargetIsPublished
<1>2. TypeOK /\ TargetIsPublished /\ [Next]_vars => TargetIsPublished'
  <2> SUFFICES ASSUME TypeOK, TargetIsPublished, [Next]_vars PROVE TargetIsPublished'
    OBVIOUS
  <2> USE DEF TypeOK, TargetIsPublished, closeVars, pubVars
  <2>1. CASE UNCHANGED <<closeVars, pubVars>>
    BY <2>1
  <2>2. ASSUME NEW n \in Url, Publish(n) PROVE TargetIsPublished'
    BY <2>2 DEF Publish, Url, NoUrl
  <2>3. ASSUME NEW n \in Url, Registered(n) \/ RegisterFails(n) \/ Notify(n)
        PROVE  TargetIsPublished'
    BY <2>3 DEF Registered, RegisterFails, Notify
  <2>4. ASSUME NEW k \in Closer, BeginClose(k) PROVE TargetIsPublished'
    BY <2>4 DEF BeginClose
  <2>5. ASSUME NEW k \in Closer, Unpublished(k) \/ UnpublishFails(k) \/ EndClose(k)
        PROVE  TargetIsPublished'
    BY <2>5 DEF Unpublished, UnpublishFails, EndClose
  <2>6. ASSUME NEW c \in Conn, HandleClose(c) PROVE TargetIsPublished'
    BY <2>6 DEF HandleClose
  <2> QED BY <2>1, <2>2, <2>3, <2>4, <2>5, <2>6
          DEF Next, vars, Tick, Start, Accept, IdleCheck, Heartbeat, Malformed,
              NotFoundService, NotFoundMethod, Invoke, Arrives, MethodEnds, SendOk,
              SendFails
<1> QED BY <1>1, <1>2, TypeCorrect, PTL DEF Spec

(* When close() has removed the registration, nothing is left of a          *)
(* publish() that had ended (server.js close, service.js unPublish), if it  *)
(* was the only one, for any number of calls of close().                    *)
THEOREM ClosedServerIsUnpublished ==
  ASSUME MaxPublishes = 1
  PROVE  Spec => ClosedIsUnpublished
<1>1. TypeOK /\ TargetIsPublished /\ [Next]_vars
        => [\A n \in Url, k \in Closer :
              close[k] = "unpublishing" /\ close'[k] = "closing" /\ pub[n] = "resolved"
                => n \notin registered']_vars
  <2> SUFFICES ASSUME TypeOK, TargetIsPublished, [Next]_vars, NEW n \in Url, NEW k \in Closer,
                      close[k] = "unpublishing", close'[k] = "closing", pub[n] = "resolved"
               PROVE  n \notin registered'
    OBVIOUS
  <2>1. n = target[k]
    <3>1. Url = {1} /\ publishUrl \in Url \cup {NoUrl}
      BY DEF Url, TypeOK
    <3> QED BY <3>1 DEF TargetIsPublished
  <2>2. Unpublished(k)
    <3>1. \A d \in Closer : close'[d] = close[d] \/ Unpublished(d)
                            \/ close'[d] \in {"unpublishing", "failed", "done"}
      <4> SUFFICES ASSUME NEW d \in Closer, close'[d] # close[d]
                   PROVE  Unpublished(d) \/ close'[d] \in {"unpublishing", "failed", "done"}
        OBVIOUS
      <4>1. \E j \in Closer : BeginClose(j) \/ Unpublished(j) \/ UnpublishFails(j)
                              \/ EndClose(j)
        BY DEF Next, vars, closeVars, Tick, Start, Accept, IdleCheck, Heartbeat,
               HandleClose, Malformed, NotFoundService, NotFoundMethod, Invoke, Arrives,
               MethodEnds, SendOk, SendFails, Publish, Registered, RegisterFails, Notify
      <4> QED BY <4>1 DEF BeginClose, Unpublished, UnpublishFails, EndClose, TypeOK
    <3> QED BY <3>1
  <2> QED BY <2>1, <2>2 DEF Unpublished
<1> QED BY <1>1, TypeCorrect, TargetInvariance, PTL DEF Spec, ClosedIsUnpublished

-----------------------------------------------------------------------------
(* Whoever waits waits for something: the safety half of CloseEnds, and of  *)
(* publish().                                                               *)

CloseHasItsEvent ==
  \A k \in Closer : close[k] = "closing" => \A c \in waits[k] : conn[c] = "ending"

\* What close() awaits is in the map.
AwaitedIsPresent == \A k \in Closer : waits[k] \subseteq connections

LEMMA AwaitedIsPresentStep ==
  IInv /\ AwaitedIsPresent /\ [Next]_vars => AwaitedIsPresent'
<1> SUFFICES ASSUME IInv, AwaitedIsPresent, [Next]_vars PROVE AwaitedIsPresent'
  OBVIOUS
<1> USE DEF AwaitedIsPresent, IInv, TypeOK
<1>1. ASSUME NEW c \in Conn, HandleClose(c) PROVE AwaitedIsPresent'
  BY <1>1 DEF HandleClose
<1>2. ASSUME NEW c \in Conn, Accept(c) PROVE AwaitedIsPresent'
  BY <1>2 DEF Accept, closeVars
<1>3. ASSUME NEW k \in Closer, Unpublished(k) PROVE AwaitedIsPresent'
  BY <1>3 DEF Unpublished
<1>4. CASE UNCHANGED <<connections, waits>>
  BY <1>4
<1> QED BY <1>1, <1>2, <1>3, <1>4
        DEF Next, vars, netVars, connVars, reqVars, closeVars, pubVars, Tick, Start,
            IdleCheck, Heartbeat, Malformed, NotFoundService, NotFoundMethod, Invoke,
            Arrives, MethodEnds, SendOk, SendFails, Publish, Registered, RegisterFails,
            Notify, BeginClose, UnpublishFails, EndClose

(* A close() that has come to its connections waits for none but those      *)
(* whose streams are destroyed and whose 'close' is due, whether it was     *)
(* this close(), another one or the idle timer that destroyed them          *)
(* (server.js close, connection.js close).                                  *)
THEOREM ClosersNeverHang == Spec => []CloseHasItsEvent
<1>1. Init => AwaitedIsPresent
  BY DEF Init, AwaitedIsPresent
<1>2. IInv /\ AwaitedIsPresent => CloseHasItsEvent
  BY DEF IInv, MapIsComplete, Present, ClosersAwaitAll, AwaitedIsPresent, CloseHasItsEvent
<1> QED BY <1>1, <1>2, AwaitedIsPresentStep, Invariance, PTL DEF Spec

PublishHasItsEvent ==
  \A n \in Url : pub[n] = "waiting" =>
    n \in registered \/ \E k \in Closer : close[k] \in {"closing", "done"} /\ target[k] = n

(* A publish() that waits to see its url is registered, so that the         *)
(* registry will show it, unless a close() has removed the registration     *)
(* from under it (server.js publish, service.js publish).                   *)
THEOREM PublishersNeverHang == Spec => []PublishHasItsEvent
<1>1. Init => PublishHasItsEvent
  BY DEF Init, PublishHasItsEvent
<1>2. TypeOK /\ PublishHasItsEvent /\ [Next]_vars => PublishHasItsEvent'
  <2> SUFFICES ASSUME TypeOK, PublishHasItsEvent, [Next]_vars PROVE PublishHasItsEvent'
    OBVIOUS
  <2> USE DEF TypeOK, PublishHasItsEvent
  <2>1. ASSUME NEW n \in Url, Publish(n) \/ Registered(n) \/ RegisterFails(n) \/ Notify(n)
        PROVE  PublishHasItsEvent'
    BY <2>1 DEF Publish, Registered, RegisterFails, Notify, closeVars
  <2>2. ASSUME NEW k \in Closer,
               BeginClose(k) \/ Unpublished(k) \/ UnpublishFails(k) \/ EndClose(k)
        PROVE  PublishHasItsEvent'
    BY <2>2 DEF BeginClose, Unpublished, UnpublishFails, EndClose, pubVars
  <2>3. CASE UNCHANGED <<close, target, pub, registered>>
    BY <2>3
  <2> QED BY <2>1, <2>2, <2>3
          DEF Next, vars, netVars, connVars, reqVars, closeVars, pubVars, Tick, Start, Accept,
              IdleCheck, Heartbeat, HandleClose, Malformed, NotFoundService,
              NotFoundMethod, Invoke, Arrives, MethodEnds, SendOk, SendFails
<1> QED BY <1>1, <1>2, TypeCorrect, PTL DEF Spec
=============================================================================
