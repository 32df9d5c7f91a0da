-------------------------- MODULE ConnectionManager --------------------------
(***************************************************************************)
(* The pool of connections that the address groups of a client share       *)
(* (lib/client/connection_mgr.js): one map from a host to its connection,  *)
(* createAndGet(), and the 'close' events that remove entries again.       *)
(*                                                                         *)
(* A connection is here what the manager sees of RpcConnection: its socket,*)
(* its ready promise, and isConnected, which stays true once it was up.    *)
(*                                                                         *)
(* A socket event or a timer is handled when the continuations of settled  *)
(* promises have run (Quiet).  createAndGet() and close() are called from  *)
(* anywhere, from such continuations too.                                  *)
(*                                                                         *)
(* Bound: a member of Conn stands for one connection at a time and is free *)
(* again when that connection is closed and nobody refers to it (Recycle). *)
(***************************************************************************)
EXTENDS Naturals

CONSTANTS Host, Caller, Conn, None

ASSUME NoneAssumption == None \notin Host /\ None \notin Conn

VARIABLES
  connections,   \* _connections: host -> connection, or None
  addr,          \* connection -> host of its address; None: not created
  sock,          \* connecting, open, destroyed ('close' is due) or closed
  ready,         \* what conn.ready() gives: pending, ok or failed
  closing,       \* connections whose close() awaits the pending calls
  pc,            \* idle; waiting for ready(); holding the answer
  conn           \* the connection a caller waits for or was given

poolVars == <<connections>>
connVars == <<addr, sock, ready, closing>>
callerVars == <<pc, conn>>
vars == <<poolVars, connVars, callerVars>>

Init ==
  /\ connections = [h \in Host |-> None]
  /\ addr = [c \in Conn |-> None]
  /\ sock = [c \in Conn |-> "closed"]
  /\ ready = [c \in Conn |-> "pending"]
  /\ closing = {}
  /\ pc = [p \in Caller |-> "idle"]
  /\ conn = [p \in Caller |-> None]

\* isConnected; close and loss of the socket do not reset it.
isConnected(c) == ready[c] = "ok"

Quiet == \A p \in Caller : pc[p] = "waiting" => ready[conn[p]] = "pending"

doDelete(h) == connections' = [connections EXCEPT ![h] = None]

-----------------------------------------------------------------------------
(* createAndGet(address) *)

Await(p, c) ==
  /\ pc' = [pc EXCEPT ![p] = "waiting"]
  /\ conn' = [conn EXCEPT ![p] = c]

Give(p, c) ==
  /\ pc' = [pc EXCEPT ![p] = "holding"]
  /\ conn' = [conn EXCEPT ![p] = c]

Create(p, h) ==
  /\ pc[p] = "idle"
  /\ connections[h] = None
  /\ \E c \in Conn :
       /\ addr[c] = None
       /\ addr' = [addr EXCEPT ![c] = h]
       /\ sock' = [sock EXCEPT ![c] = "connecting"]
       /\ ready' = [ready EXCEPT ![c] = "pending"]
       /\ connections' = [connections EXCEPT ![h] = c]
       /\ Await(p, c)
  /\ UNCHANGED closing

Reuse(p, h) ==
  /\ pc[p] = "idle"
  /\ connections[h] # None
  /\ IF isConnected(connections[h]) THEN Give(p, connections[h])
     ELSE Await(p, connections[h])
  /\ UNCHANGED <<poolVars, connVars>>

ReadyOk(p) ==
  /\ pc[p] = "waiting"
  /\ ready[conn[p]] = "ok"
  /\ Give(p, conn[p])
  /\ UNCHANGED <<poolVars, connVars>>

\* The catch block: the host's entry is deleted, whichever connection it
\* holds by now, and the caller gets null.
ReadyFailed(p) ==
  /\ pc[p] = "waiting"
  /\ ready[conn[p]] = "failed"
  /\ doDelete(addr[conn[p]])
  /\ pc' = [pc EXCEPT ![p] = "idle"]
  /\ conn' = [conn EXCEPT ![p] = None]
  /\ UNCHANGED connVars

\* The caller is done with its answer.
Forget(p) ==
  /\ pc[p] = "holding"
  /\ pc' = [pc EXCEPT ![p] = "idle"]
  /\ conn' = [conn EXCEPT ![p] = None]
  /\ UNCHANGED <<poolVars, connVars>>

-----------------------------------------------------------------------------
(* The connections *)

Connect(c) ==
  /\ Quiet
  /\ sock[c] = "connecting"
  /\ sock' = [sock EXCEPT ![c] = "open"]
  /\ ready' = [ready EXCEPT ![c] = "ok"]
  /\ UNCHANGED <<poolVars, addr, closing, callerVars>>

\* Variant: the socket is given up and ready() is not told.
ConnectFailsSilently(c) ==
  /\ Quiet
  /\ sock[c] = "connecting"
  /\ sock' = [sock EXCEPT ![c] = "destroyed"]
  /\ UNCHANGED <<poolVars, addr, ready, closing, callerVars>>

\* _handleSocketError before 'connect', or the connect timeout: ready(err).
ConnectFails(c) ==
  /\ Quiet
  /\ sock[c] = "connecting"
  /\ sock' = [sock EXCEPT ![c] = "destroyed"]
  /\ ready' = [ready EXCEPT ![c] = "failed"]
  /\ UNCHANGED <<poolVars, addr, closing, callerVars>>

SocketDown(c) ==
  /\ Quiet
  /\ sock[c] = "open"
  /\ sock' = [sock EXCEPT ![c] = "destroyed"]
  /\ UNCHANGED <<poolVars, addr, ready, closing, callerVars>>

\* conn.close() awaits its pending calls ...
Closes(cs) ==
  /\ closing' = closing \cup cs
  /\ UNCHANGED <<poolVars, addr, sock, ready, callerVars>>

CloseOne(p) == pc[p] = "holding" /\ Closes({conn[p]})

\* close(): every connection that is in the map now.
CloseAll == Closes({connections[h] : h \in Host} \ {None})

\* ... and destroys the socket, connected or not; nobody calls ready().
ForceClose(c) ==
  /\ c \in closing
  /\ sock[c] \in {"connecting", "open"}
  /\ sock' = [sock EXCEPT ![c] = "destroyed"]
  /\ UNCHANGED <<poolVars, addr, ready, closing, callerVars>>

\* Variant: nobody listens to 'close'.
CloseEventUnheard(c) ==
  /\ Quiet
  /\ sock[c] = "destroyed"
  /\ sock' = [sock EXCEPT ![c] = "closed"]
  /\ UNCHANGED <<poolVars, addr, ready, closing, callerVars>>

\* 'close': the host's entry is deleted, whichever connection it holds by now.
CloseEvent(c) ==
  /\ Quiet
  /\ sock[c] = "destroyed"
  /\ sock' = [sock EXCEPT ![c] = "closed"]
  /\ doDelete(addr[c])
  /\ UNCHANGED <<addr, ready, closing, callerVars>>

Recycle(c) ==
  /\ addr[c] # None /\ sock[c] = "closed"
  /\ \A h \in Host : connections[h] # c
  /\ \A p \in Caller : conn[p] # c
  /\ addr' = [addr EXCEPT ![c] = None]
  /\ ready' = [ready EXCEPT ![c] = "pending"]
  /\ closing' = closing \ {c}
  /\ UNCHANGED <<poolVars, sock, callerVars>>

Next ==
  \/ \E p \in Caller, h \in Host : Create(p, h) \/ Reuse(p, h)
  \/ \E p \in Caller : ReadyOk(p) \/ ReadyFailed(p) \/ Forget(p) \/ CloseOne(p)
  \/ \E c \in Conn : Connect(c) \/ ConnectFails(c) \/ SocketDown(c)
                     \/ ForceClose(c) \/ CloseEvent(c) \/ Recycle(c)
  \/ CloseAll

Spec == Init /\ [][Next]_vars

\* Continuations run; the connect timeout fires at the latest, and a destroyed
\* socket emits 'close' (SF: Quiet comes and goes).
Fairness ==
  /\ \A p \in Caller : WF_vars(ReadyOk(p)) /\ WF_vars(ReadyFailed(p))
  /\ \A c \in Conn : SF_vars(Connect(c) \/ ConnectFails(c)) /\ SF_vars(CloseEvent(c))

FairSpec == Spec /\ Fairness

-----------------------------------------------------------------------------
TypeOK ==
  /\ connections \in [Host -> Conn \cup {None}]
  /\ addr \in [Conn -> Host \cup {None}]
  /\ sock \in [Conn -> {"connecting", "open", "destroyed", "closed"}]
  /\ ready \in [Conn -> {"pending", "ok", "failed"}]
  /\ closing \subseteq Conn
  /\ pc \in [Caller -> {"idle", "waiting", "holding"}]
  /\ conn \in [Caller -> Conn \cup {None}]

(* isConnected stays true for ever, so the map alone keeps a closed         *)
(* connection from being handed out: an entry is a connection to that host  *)
(* that has not closed (connection_mgr.js:83-90).                           *)
MapHoldsLive ==
  \A h \in Host : connections[h] # None =>
    addr[connections[h]] = h /\ sock[connections[h]] # "closed"

(* When the continuations have run, the map holds no connection whose       *)
(* ready() has failed: the next createAndGet() tries anew                   *)
(* (connection_mgr.js:94-107).                                              *)
FailedIsForgotten ==
  Quiet => \A h \in Host :
    connections[h] # None => ready[connections[h]] # "failed"

(* createAndGet() never answers with a connection that is closed already,   *)
(* even when the answer comes from a promise that was settled a while ago   *)
(* (connection_mgr.js:93-109).                                              *)
AnswersAreNotClosed ==
  [][\A p \in Caller : pc'[p] = "holding" /\ pc[p] # "holding" =>
       isConnected(conn'[p]) /\ sock[conn'[p]] # "closed"]_vars

(* createAndGet() answers in the end, unless the connection it waits for is *)
(* closed while it connects: nobody settles its ready() then                *)
(* (connection_mgr.js:95, rpc.js:80-92, 304-311).                           *)
WaitersAreAnswered ==
  \A p \in Caller :
    pc[p] = "waiting" ~>
      pc[p] # "waiting" \/ (ready[conn[p]] = "pending" /\ conn[p] \in closing)
=============================================================================
