----------------------- MODULE ConnectionManagerProofs -----------------------
(***************************************************************************)
(* What the connection pool guarantees for any number of hosts, callers    *)
(* and connections.  An entry that never came up is deleted by whoever     *)
(* waits for it, so the inductive invariant must say that somebody waits   *)
(* (EntryIsAwaited); and an answer from a settled promise is fresh because *)
(* no 'close' event is handled before the continuations (SettledIsFresh).  *)
(* The last part shows that nobody waits for a promise that cannot settle. *)
(***************************************************************************)
EXTENDS ConnectionManager, TLAPS

WaitersHaveConn ==
  \A p \in Caller : pc[p] = "waiting" => conn[p] \in Conn /\ addr[conn[p]] \in Host

HoldersHaveConn == \A p \in Caller : pc[p] = "holding" => conn[p] \in Conn

EntryIsAwaited ==
  \A h \in Host : connections[h] # None /\ ready[connections[h]] # "ok" =>
    \E p \in Caller : pc[p] = "waiting" /\ conn[p] = connections[h]

SettledIsFresh ==
  \A p \in Caller : pc[p] = "waiting" /\ ready[conn[p]] = "ok" => sock[conn[p]] # "closed"

ConnectingIsPending == \A c \in Conn : sock[c] = "connecting" => ready[c] = "pending"

IInv ==
  /\ TypeOK
  /\ MapHoldsLive
  /\ WaitersHaveConn
  /\ HoldersHaveConn
  /\ EntryIsAwaited
  /\ SettledIsFresh
  /\ ConnectingIsPending

(* The initial state has no connection and no waiter.                       *)
LEMMA InitIInv == Init => IInv
  BY NoneAssumption DEF Init, IInv, TypeOK, MapHoldsLive, WaitersHaveConn,
     HoldersHaveConn, EntryIsAwaited, SettledIsFresh, ConnectingIsPending

(* createAndGet() and its continuations keep the invariant                  *)
(* (connection_mgr.js:81-110).                                              *)
LEMMA CallerSteps ==
  ASSUME IInv, NEW p \in Caller,
         \/ \E h \in Host : Create(p, h) \/ Reuse(p, h)
         \/ ReadyOk(p) \/ ReadyFailed(p) \/ Forget(p)
  PROVE  IInv'
<1> USE NoneAssumption
<1>1. ASSUME NEW h \in Host, Create(p, h) PROVE IInv'
  <2>1. PICK c \in Conn :
          /\ addr[c] = None
          /\ addr' = [addr EXCEPT ![c] = h]
          /\ sock' = [sock EXCEPT ![c] = "connecting"]
          /\ ready' = [ready EXCEPT ![c] = "pending"]
          /\ connections' = [connections EXCEPT ![h] = c]
          /\ Await(p, c)
    BY <1>1 DEF Create
  <2>2. pc[p] = "idle" /\ connections[h] = None /\ closing' = closing
    BY <1>1 DEF Create
  <2>3. TypeOK'
    BY <2>1, <2>2 DEF IInv, TypeOK, Await
  <2>4. \A g \in Host : connections[g] # c
    BY <2>1 DEF IInv, TypeOK, MapHoldsLive
  <2>5. \A q \in Caller : pc[q] = "waiting" => conn[q] # c
    BY <2>1 DEF IInv, TypeOK, WaitersHaveConn
  <2>6. MapHoldsLive'
    BY <2>1, <2>2, <2>4 DEF IInv, TypeOK, MapHoldsLive
  <2>7. WaitersHaveConn' /\ HoldersHaveConn'
    BY <2>1, <2>2, <2>5 DEF IInv, TypeOK, WaitersHaveConn, HoldersHaveConn, Await
  <2>8. EntryIsAwaited'
    <3> SUFFICES ASSUME NEW g \in Host, connections'[g] # None, ready'[connections'[g]] # "ok"
                 PROVE  \E q \in Caller : pc'[q] = "waiting" /\ conn'[q] = connections'[g]
      BY DEF EntryIsAwaited
    <3>1. CASE g = h
      BY <2>1, <2>2, <3>1 DEF IInv, TypeOK, Await
    <3>2. CASE g # h
      <4>1. connections[g] = connections'[g] /\ ready[connections[g]] # "ok"
        BY <2>1, <2>4, <3>2 DEF IInv, TypeOK
      <4>2. PICK q \in Caller : pc[q] = "waiting" /\ conn[q] = connections[g]
        BY <4>1 DEF IInv, EntryIsAwaited
      <4>3. pc'[q] = "waiting" /\ conn'[q] = connections'[g]
        BY <2>1, <2>2, <4>1, <4>2 DEF IInv, TypeOK, Await
      <4> QED BY <4>3
    <3> QED BY <3>1, <3>2
  <2>9. SettledIsFresh'
    BY <2>1, <2>2, <2>5 DEF IInv, TypeOK, SettledIsFresh, WaitersHaveConn, Await
  <2>10. ConnectingIsPending'
    BY <2>1 DEF IInv, TypeOK, ConnectingIsPending
  <2> QED BY <2>3, <2>6, <2>7, <2>8, <2>9, <2>10 DEF IInv
<1>2. ASSUME NEW h \in Host, Reuse(p, h) PROVE IInv'
  <2>1. connections[h] \in Conn /\ pc[p] = "idle" /\ UNCHANGED <<poolVars, connVars>>
    BY <1>2 DEF Reuse, IInv, TypeOK
  <2>2. /\ conn' = [conn EXCEPT ![p] = connections[h]]
        /\ \/ pc' = [pc EXCEPT ![p] = "waiting"]
           \/ pc' = [pc EXCEPT ![p] = "holding"]
    BY <1>2 DEF Reuse, Give, Await
  <2>3. TypeOK' /\ MapHoldsLive'
    BY <2>1, <2>2 DEF IInv, TypeOK, MapHoldsLive, poolVars, connVars
  <2>4. WaitersHaveConn' /\ HoldersHaveConn'
          /\ SettledIsFresh' /\ ConnectingIsPending'
    BY <2>1, <2>2 DEF IInv, TypeOK, MapHoldsLive, WaitersHaveConn, HoldersHaveConn,
       SettledIsFresh, ConnectingIsPending, poolVars, connVars
  <2>5. EntryIsAwaited'
    BY <2>1, <2>2 DEF IInv, TypeOK, EntryIsAwaited, poolVars, connVars
  <2> QED BY <2>3, <2>4, <2>5 DEF IInv
<1>3. CASE ReadyOk(p)
  <2>1. /\ pc[p] = "waiting" /\ ready[conn[p]] = "ok"
        /\ pc' = [pc EXCEPT ![p] = "holding"]
        /\ conn' = [conn EXCEPT ![p] = conn[p]]
        /\ UNCHANGED <<poolVars, connVars>>
    BY <1>3 DEF ReadyOk, Give
  <2>2. conn' = conn
    BY <2>1 DEF IInv, TypeOK
  <2>3. /\ TypeOK' /\ MapHoldsLive' /\ WaitersHaveConn' /\ HoldersHaveConn'
        /\ SettledIsFresh' /\ ConnectingIsPending'
    BY <2>1, <2>2 DEF IInv, TypeOK, MapHoldsLive, WaitersHaveConn, HoldersHaveConn,
       SettledIsFresh, ConnectingIsPending, poolVars, connVars
  <2>4. EntryIsAwaited'
    BY <2>1, <2>2 DEF IInv, TypeOK, EntryIsAwaited, poolVars, connVars
  <2> QED BY <2>3, <2>4 DEF IInv
<1>4. CASE ReadyFailed(p)
  <2>1. /\ pc[p] = "waiting" /\ ready[conn[p]] = "failed"
        /\ connections' = [connections EXCEPT ![addr[conn[p]]] = None]
        /\ pc' = [pc EXCEPT ![p] = "idle"]
        /\ conn' = [conn EXCEPT ![p] = None]
        /\ UNCHANGED connVars
    BY <1>4 DEF ReadyFailed, doDelete
  <2>2. /\ TypeOK' /\ MapHoldsLive' /\ WaitersHaveConn' /\ HoldersHaveConn'
        /\ SettledIsFresh' /\ ConnectingIsPending'
    BY <2>1 DEF IInv, TypeOK, MapHoldsLive, WaitersHaveConn, HoldersHaveConn,
       SettledIsFresh, ConnectingIsPending, connVars
  <2>3. EntryIsAwaited'
    <3> SUFFICES ASSUME NEW g \in Host, connections'[g] # None, ready'[connections'[g]] # "ok"
                 PROVE  \E q \in Caller : pc'[q] = "waiting" /\ conn'[q] = connections'[g]
      BY DEF EntryIsAwaited
    <3>1. connections[g] = connections'[g] /\ g # addr[conn[p]] /\ ready' = ready
      BY <2>1 DEF IInv, TypeOK, WaitersHaveConn, connVars
    <3>2. PICK q \in Caller : pc[q] = "waiting" /\ conn[q] = connections[g]
      BY <3>1 DEF IInv, EntryIsAwaited
    <3>3. q # p
      BY <3>1, <3>2 DEF IInv, MapHoldsLive
    <3> QED BY <2>1, <3>1, <3>2, <3>3 DEF IInv, TypeOK
  <2> QED BY <2>2, <2>3 DEF IInv
<1>5. CASE Forget(p)
  <2>1. /\ pc[p] = "holding"
        /\ pc' = [pc EXCEPT ![p] = "idle"]
        /\ conn' = [conn EXCEPT ![p] = None]
        /\ UNCHANGED <<poolVars, connVars>>
    BY <1>5 DEF Forget
  <2>2. /\ TypeOK' /\ MapHoldsLive' /\ WaitersHaveConn' /\ HoldersHaveConn'
        /\ SettledIsFresh' /\ ConnectingIsPending'
    BY <2>1 DEF IInv, TypeOK, MapHoldsLive, WaitersHaveConn, HoldersHaveConn,
       SettledIsFresh, ConnectingIsPending, poolVars, connVars
  <2>3. EntryIsAwaited'
    BY <2>1 DEF IInv, TypeOK, EntryIsAwaited, poolVars, connVars
  <2> QED BY <2>2, <2>3 DEF IInv
<1> QED BY <1>1, <1>2, <1>3, <1>4, <1>5

(* The socket events, close() and 'close' keep the invariant                *)
(* (connection_mgr.js:90, 113-119; rpc.js:77-93, 238-311).                  *)
LEMMA ConnSteps ==
  ASSUME IInv, NEW c \in Conn,
         Connect(c) \/ ConnectFails(c) \/ SocketDown(c) \/ ForceClose(c)
           \/ CloseEvent(c) \/ Recycle(c)
  PROVE  IInv'
<1> USE NoneAssumption
<1> USE DEF callerVars
<1>1. CASE Connect(c) \/ ConnectFails(c) \/ SocketDown(c) \/ ForceClose(c)
  <2>1. /\ UNCHANGED <<connections, addr, closing, pc, conn>>
        /\ \/ sock' = [sock EXCEPT ![c] = "open"]
           \/ sock' = [sock EXCEPT ![c] = "destroyed"]
        /\ sock[c] \in {"connecting", "open"}
    BY <1>1 DEF Connect, ConnectFails, SocketDown, ForceClose, poolVars
  <2>2. \/ ready' = ready
        \/ /\ Quiet
           /\ sock[c] = "connecting"
           /\ \/ ready' = [ready EXCEPT ![c] = "ok"]
              \/ ready' = [ready EXCEPT ![c] = "failed"]
    BY <1>1 DEF Connect, ConnectFails, SocketDown, ForceClose
  <2>3. TypeOK'
    BY <2>1, <2>2 DEF IInv, TypeOK
  <2>4. MapHoldsLive' /\ WaitersHaveConn' /\ HoldersHaveConn'
    BY <2>1 DEF IInv, TypeOK, MapHoldsLive, WaitersHaveConn, HoldersHaveConn
  <2>5. EntryIsAwaited'
    <3> SUFFICES ASSUME NEW h \in Host, connections'[h] # None, ready'[connections'[h]] # "ok"
                 PROVE  \E q \in Caller : pc'[q] = "waiting" /\ conn'[q] = connections'[h]
      BY DEF EntryIsAwaited
    <3>1. ready[connections[h]] # "ok"
      BY <2>1, <2>2 DEF IInv, TypeOK, ConnectingIsPending
    <3> QED BY <2>1, <3>1 DEF IInv, EntryIsAwaited
  <2>6. SettledIsFresh'
    BY <2>1, <2>2 DEF IInv, TypeOK, SettledIsFresh, WaitersHaveConn
  <2>7. ConnectingIsPending'
    BY <1>1 DEF IInv, TypeOK, ConnectingIsPending, Connect, ConnectFails, SocketDown, ForceClose
  <2> QED BY <2>3, <2>4, <2>5, <2>6, <2>7 DEF IInv
<1>2. CASE CloseEvent(c)
  <2>1. /\ Quiet
        /\ sock[c] = "destroyed"
        /\ sock' = [sock EXCEPT ![c] = "closed"]
        /\ connections' = [connections EXCEPT ![addr[c]] = None]
        /\ UNCHANGED <<addr, ready, closing, pc, conn>>
    BY <1>2 DEF CloseEvent, doDelete
  <2>2. TypeOK'
    BY <2>1 DEF IInv, TypeOK
  <2>3. MapHoldsLive'
    BY <2>1 DEF IInv, TypeOK, MapHoldsLive
  <2>4. WaitersHaveConn' /\ HoldersHaveConn' /\ ConnectingIsPending'
    BY <2>1 DEF IInv, TypeOK, WaitersHaveConn, HoldersHaveConn, ConnectingIsPending
  <2>5. EntryIsAwaited'
    BY <2>1 DEF IInv, TypeOK, EntryIsAwaited
  <2>6. SettledIsFresh'
    BY <2>1 DEF Quiet, SettledIsFresh
  <2> QED BY <2>2, <2>3, <2>4, <2>5, <2>6 DEF IInv
<1>3. CASE Recycle(c)
  <2>1. /\ sock[c] = "closed"
        /\ \A h \in Host : connections[h] # c
        /\ \A p \in Caller : conn[p] # c
        /\ addr' = [addr EXCEPT ![c] = None]
        /\ ready' = [ready EXCEPT ![c] = "pending"]
        /\ closing' = closing \ {c}
        /\ UNCHANGED <<connections, sock, pc, conn>>
    BY <1>3 DEF Recycle, poolVars
  <2>2. /\ TypeOK' /\ MapHoldsLive' /\ WaitersHaveConn' /\ HoldersHaveConn'
        /\ SettledIsFresh' /\ ConnectingIsPending'
    BY <2>1 DEF IInv, TypeOK, MapHoldsLive, WaitersHaveConn, HoldersHaveConn,
       SettledIsFresh, ConnectingIsPending
  <2>3. EntryIsAwaited'
    BY <2>1 DEF IInv, TypeOK, EntryIsAwaited
  <2> QED BY <2>2, <2>3 DEF IInv
<1> QED BY <1>1, <1>2, <1>3

(* Every step of the pool keeps the invariant.                              *)
LEMMA NextIInv == IInv /\ [Next]_vars => IInv'
<1> SUFFICES ASSUME IInv, [Next]_vars PROVE IInv'
  OBVIOUS
<1>1. CASE \E p \in Caller, h \in Host : Create(p, h) \/ Reuse(p, h)
  BY <1>1, CallerSteps
<1>2. CASE \E p \in Caller : ReadyOk(p) \/ ReadyFailed(p) \/ Forget(p)
  BY <1>2, CallerSteps
<1>3. CASE \E c \in Conn : Connect(c) \/ ConnectFails(c) \/ SocketDown(c)
                            \/ ForceClose(c) \/ CloseEvent(c) \/ Recycle(c)
  BY <1>3, ConnSteps
<1>4. ASSUME NEW cs, cs \subseteq Conn, Closes(cs) PROVE IInv'
  BY <1>4 DEF Closes, IInv, TypeOK, MapHoldsLive, WaitersHaveConn, HoldersHaveConn,
     EntryIsAwaited, SettledIsFresh, ConnectingIsPending, poolVars, callerVars
<1>5. CASE \E p \in Caller : CloseOne(p)
  BY <1>4, <1>5 DEF CloseOne, IInv, HoldersHaveConn
<1>6. CASE CloseAll
  BY <1>4, <1>6 DEF CloseAll, IInv, TypeOK
<1>7. CASE UNCHANGED vars
  BY <1>7 DEF IInv, TypeOK, MapHoldsLive, WaitersHaveConn, HoldersHaveConn,
     EntryIsAwaited, SettledIsFresh, ConnectingIsPending, vars, poolVars, connVars,
     callerVars
<1> QED BY <1>1, <1>2, <1>3, <1>5, <1>6, <1>7 DEF Next

(* The invariant holds in every state of the pool (connection_mgr.js).      *)
LEMMA Invariance == Spec => []IInv
  BY InitIInv, NextIInv, PTL DEF Spec

(* Every variable of the pool and of its connections keeps its type.        *)
THEOREM TypeCorrect == Spec => []TypeOK
<1>1. IInv => TypeOK
  BY DEF IInv
<1> QED BY <1>1, Invariance, PTL

(* An entry of the map is a connection to that host which has not closed,   *)
(* for any number of hosts, callers and connections                         *)
(* (connection_mgr.js:83-90).                                               *)
THEOREM EntriesAreLive == Spec => []MapHoldsLive
<1>1. IInv => MapHoldsLive
  BY DEF IInv
<1> QED BY <1>1, Invariance, PTL

(* A connection that failed to come up is not found again once the          *)
(* continuations have run (connection_mgr.js:94-107).                       *)
THEOREM FailuresAreForgotten == Spec => []FailedIsForgotten
<1>1. IInv => FailedIsForgotten
  BY DEF IInv, EntryIsAwaited, FailedIsForgotten, Quiet
<1> QED BY <1>1, Invariance, PTL

(* createAndGet() never answers with a connection that has closed already   *)
(* (connection_mgr.js:93-109).                                              *)
THEOREM AnswersAreFresh == Spec => AnswersAreNotClosed
<1> DEFINE Fresh == \A p \in Caller : pc'[p] = "holding" /\ pc[p] # "holding" =>
                      isConnected(conn'[p]) /\ sock[conn'[p]] # "closed"
<1>1. ASSUME IInv, Next PROVE Fresh
  <2> SUFFICES ASSUME NEW p \in Caller, pc'[p] = "holding", pc[p] # "holding"
               PROVE  isConnected(conn'[p]) /\ sock[conn'[p]] # "closed"
    OBVIOUS
  <2>1. PICK q \in Caller : (\E h \in Host : Reuse(q, h)) \/ ReadyOk(q)
    BY <1>1 DEF Next, Create, Await, ReadyFailed, Forget, CloseOne, CloseAll, Closes,
       Connect, ConnectFails, SocketDown, ForceClose, CloseEvent, Recycle, callerVars,
       IInv, TypeOK
  <2>2. CASE ReadyOk(q)
    BY <1>1, <2>2 DEF ReadyOk, Give, IInv, TypeOK, SettledIsFresh, isConnected
  <2>3. ASSUME NEW h \in Host, Reuse(q, h)
        PROVE  isConnected(conn'[p]) /\ sock[conn'[p]] # "closed"
    BY <1>1, <2>3 DEF Reuse, Give, Await, IInv, TypeOK, MapHoldsLive, isConnected
  <2> QED BY <2>1, <2>2, <2>3
<1>2. IInv /\ [Next]_vars => [Fresh]_vars
  BY <1>1
<1> QED BY <1>2, Invariance, PTL DEF Spec, AnswersAreNotClosed

-----------------------------------------------------------------------------
(* Whoever waits waits for something: the safety half of                    *)
(* WaitersAreAnswered.                                                      *)

\* A connection whose ready() is not settled still connects, unless it was
\* closed meanwhile.
PendingIsConnecting ==
  \A c \in Conn : addr[c] # None /\ ready[c] = "pending" =>
    sock[c] = "connecting" \/ c \in closing

LEMMA PendingIsConnectingStep ==
  TypeOK /\ PendingIsConnecting /\ [Next]_vars => PendingIsConnecting'
<1> SUFFICES ASSUME TypeOK, PendingIsConnecting, [Next]_vars PROVE PendingIsConnecting'
  OBVIOUS
<1> USE DEF TypeOK, PendingIsConnecting
<1>1. ASSUME NEW p \in Caller, NEW h \in Host, Create(p, h) PROVE PendingIsConnecting'
  BY <1>1 DEF Create
<1>2. ASSUME NEW c \in Conn, \/ Connect(c) \/ ConnectFails(c) \/ SocketDown(c)
                             \/ ForceClose(c) \/ CloseEvent(c)
      PROVE  PendingIsConnecting'
  BY <1>2 DEF Connect, ConnectFails, SocketDown, ForceClose, CloseEvent
<1>3. ASSUME NEW c \in Conn, Recycle(c) PROVE PendingIsConnecting'
  BY <1>3 DEF Recycle
<1>4. ASSUME \/ \E p \in Caller : \/ \E h \in Host : Reuse(p, h)
                                  \/ ReadyOk(p) \/ ReadyFailed(p) \/ Forget(p) \/ CloseOne(p)
             \/ CloseAll \/ UNCHANGED vars
      PROVE  PendingIsConnecting'
  <2>1. UNCHANGED <<addr, sock, ready>> /\ closing \subseteq closing'
    BY <1>4 DEF Reuse, ReadyOk, ReadyFailed, Forget, CloseOne, CloseAll, Closes, connVars, vars
  <2> QED BY <2>1
<1> QED BY <1>1, <1>2, <1>3, <1>4 DEF Next

WaitHasItsEvent ==
  \A p \in Caller : pc[p] = "waiting" =>
    \/ ready[conn[p]] # "pending"
    \/ sock[conn[p]] = "connecting"
    \/ conn[p] \in closing

(* Nobody waits for a connection that nothing can bring up or down any      *)
(* more: ready() is settled, or the socket still connects and its event or  *)
(* the connect timeout will come.  The only other way is a close() while it *)
(* connects, which settles nothing (connection_mgr.js:93-109,               *)
(* rpc.js:80-92).                                                           *)
THEOREM WaitersNeverHang == Spec => []WaitHasItsEvent
<1>1. Init => PendingIsConnecting
  BY DEF Init, PendingIsConnecting
<1>2. IInv /\ PendingIsConnecting => WaitHasItsEvent
  <2> SUFFICES ASSUME IInv, PendingIsConnecting, NEW p \in Caller, pc[p] = "waiting"
               PROVE  ready[conn[p]] # "pending" \/ sock[conn[p]] = "connecting"
                        \/ conn[p] \in closing
    BY DEF WaitHasItsEvent
  <2>1. conn[p] \in Conn /\ addr[conn[p]] \in Host
    BY DEF IInv, WaitersHaveConn
  <2>2. addr[conn[p]] # None
    BY <2>1, NoneAssumption
  <2> QED BY <2>1, <2>2 DEF PendingIsConnecting
<1> QED BY <1>1, <1>2, PendingIsConnectingStep, Invariance, TypeCorrect, PTL DEF Spec
=============================================================================
