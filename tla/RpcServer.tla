------------------------------ MODULE RpcServer ------------------------------
(***************************************************************************)
(* The server (lib/server/server.js) with its connections                  *)
(* (lib/server/connection.js), the requests they bring (service.js invoke, *)
(* response.js) and the publication of its service (service.js publish).   *)
(*                                                                         *)
(* An action is one callback of the event loop: the code between two       *)
(* awaits.  The server has one service, one port, and a connection has an  *)
(* address of its own: an address is not used again before the server has  *)
(* seen the close of its connection.  url holds the time, so that every    *)
(* publish() has a url of its own, here its number.                        *)
(***************************************************************************)
EXTENDS Naturals

CONSTANTS
  Conn,          \* connections
  NoConn,        \* the connection of a request that has not arrived
  Req,           \* requests
  Closer,        \* calls of close()
  MaxIdleTime,   \* options.maxIdleTime, in steps of the clock
  Timeout,       \* the timeout the client sends; 0 is none
  MaxPublishes   \* bound: calls of publish()

ASSUME ServerAssumption ==
  /\ NoConn \notin Conn
  /\ MaxIdleTime \in Nat \ {0} /\ Timeout \in Nat /\ MaxPublishes \in Nat

VARIABLES
  started, listening,        \* _started; the net server accepts sockets
  connections,               \* _connections
  conn, idle, timer,         \* a connection, time without data, its interval
  req, of, code, age,        \* a request, its connection, resultCode, rt
  written,                   \* responses written for it
  close, target, waits,      \* a close(): phase, url to remove, open sockets
  publishUrl, pub, registered \* publishUrl, a publish(), urls in the registry

netVars == <<started, listening>>
connVars == <<connections, conn, idle, timer>>
reqVars == <<req, of, code, age, written>>
closeVars == <<close, target, waits>>
pubVars == <<publishUrl, pub, registered>>
vars == <<netVars, connVars, reqVars, closeVars, pubVars>>

Url == 1 .. MaxPublishes
NoUrl == 0
Codes == {"00", "01", "02", "03", "04"}

TypeOK ==
  /\ started \in BOOLEAN /\ listening \in BOOLEAN
  /\ connections \subseteq Conn
  /\ conn \in [Conn -> {"new", "open", "ending", "closed"}]
  /\ idle \in [Conn -> 0 .. MaxIdleTime]
  /\ timer \in [Conn -> 0 .. MaxIdleTime]
  /\ req \in [Req -> {"none", "running", "sending", "apologizing", "done",
                      "rejected"}]
  /\ of \in [Req -> Conn \cup {NoConn}]
  /\ code \in [Req -> Codes]
  /\ age \in [Req -> 0 .. Timeout]
  /\ written \in [Req -> 0 .. 2]
  /\ close \in [Closer -> {"none", "unpublishing", "closing", "done", "failed"}]
  /\ target \in [Closer -> Url \cup {NoUrl}]
  /\ waits \in [Closer -> SUBSET Conn]
  /\ publishUrl \in Url \cup {NoUrl}
  /\ pub \in [Url -> {"none", "registering", "waiting", "resolved", "failed"}]
  /\ registered \subseteq Url

Init ==
  /\ started = FALSE /\ listening = FALSE
  /\ connections = {}
  /\ conn = [c \in Conn |-> "new"]
  /\ idle = [c \in Conn |-> 0]
  /\ timer = [c \in Conn |-> MaxIdleTime]
  /\ req = [r \in Req |-> "none"]
  /\ of = [r \in Req |-> NoConn]
  /\ code = [r \in Req |-> "00"]
  /\ age = [r \in Req |-> 0]
  /\ written = [r \in Req |-> 0]
  /\ close = [k \in Closer |-> "none"]
  /\ target = [k \in Closer |-> NoUrl]
  /\ waits = [k \in Closer |-> {}]
  /\ publishUrl = NoUrl
  /\ pub = [n \in Url |-> "none"]
  /\ registered = {}

-----------------------------------------------------------------------------
(* The clock.  Callbacks may be late.                                      *)

Older(t, limit) == IF t < limit THEN t + 1 ELSE limit

Tick ==
  /\ idle' = [c \in Conn |-> IF conn[c] \in {"open", "ending"}
                             THEN Older(idle[c], MaxIdleTime) ELSE idle[c]]
  /\ timer' = [c \in Conn |-> IF conn[c] \in {"open", "ending"} /\ timer[c] > 0
                              THEN timer[c] - 1 ELSE timer[c]]
  /\ age' = [r \in Req |-> IF req[r] = "running"
                           THEN Older(age[r], Timeout) ELSE age[r]]
  /\ UNCHANGED <<netVars, connections, conn, req, of, code, written, closeVars,
                 pubVars>>

-----------------------------------------------------------------------------
(* Sockets.                                                                *)

\* start(): a server that has been closed does not listen a second time.  It
\* is not started while it is being closed.
Start ==
  /\ ~started /\ \A k \in Closer : close[k] = "none"
  /\ started' = TRUE
  /\ listening' \in BOOLEAN   \* FALSE: an error of listen(), ready(err)
  /\ UNCHANGED <<connVars, reqVars, closeVars, pubVars>>

Accept(c) ==
  /\ listening /\ conn[c] = "new"
  /\ conn' = [conn EXCEPT ![c] = "open"]
  /\ connections' = connections \cup {c}
  /\ UNCHANGED <<idle, timer, netVars, reqVars, closeVars, pubVars>>

\* conn after close() of the connections in C: the streams are destroyed, the
\* event is still to come.
Ended(C) == [c \in Conn |-> IF c \in C /\ conn[c] = "open" THEN "ending"
                                                           ELSE conn[c]]

\* The check warns and does not close.
IdleCheckWarning(c) ==
  /\ conn[c] \in {"open", "ending"} /\ timer[c] = 0
  /\ timer' = [timer EXCEPT ![c] = MaxIdleTime]
  /\ UNCHANGED <<connections, conn, idle, netVars, reqVars, closeVars, pubVars>>

IdleCheck(c) ==
  /\ conn[c] \in {"open", "ending"} /\ timer[c] = 0
  /\ timer' = [timer EXCEPT ![c] = MaxIdleTime]
  /\ conn' = IF idle[c] >= MaxIdleTime THEN Ended({c}) ELSE conn
  /\ UNCHANGED <<connections, idle, netVars, reqVars, closeVars, pubVars>>

Heartbeat(c) ==
  /\ conn[c] = "open"
  /\ idle' = [idle EXCEPT ![c] = 0]
  /\ UNCHANGED <<connections, conn, timer, netVars, reqVars, closeVars, pubVars>>

\* close is not emitted.
HandleCloseSilently(c) ==
  /\ conn[c] \in {"open", "ending"}
  /\ conn' = [conn EXCEPT ![c] = "closed"]
  /\ connections' = connections \ {c}
  /\ idle' = [idle EXCEPT ![c] = 0]
  /\ timer' = [timer EXCEPT ![c] = MaxIdleTime]
  /\ UNCHANGED <<netVars, reqVars, closeVars, pubVars>>

\* The socket has closed: by the client, or after close().
HandleClose(c) ==
  /\ conn[c] \in {"open", "ending"}
  /\ conn' = [conn EXCEPT ![c] = "closed"]
  /\ connections' = connections \ {c}
  /\ idle' = [idle EXCEPT ![c] = 0]
  /\ timer' = [timer EXCEPT ![c] = MaxIdleTime]
  /\ waits' = [k \in Closer |-> waits[k] \ {c}]
  /\ UNCHANGED <<netVars, reqVars, close, target, pubVars>>

-----------------------------------------------------------------------------
(* Requests.                                                               *)

Arrives(r, c) ==
  /\ conn[c] = "open" /\ req[r] = "none"
  /\ of' = [of EXCEPT ![r] = c]
  /\ idle' = [idle EXCEPT ![c] = 0]
  /\ UNCHANGED <<connections, conn, timer, age, written, netVars, closeVars,
                 pubVars>>

\* No name of a service: _handleRequest throws before there is a response.
Malformed(r, c) ==
  /\ Arrives(r, c)
  /\ req' = [req EXCEPT ![r] = "rejected"] /\ UNCHANGED code

NotFoundService(r, c) ==
  /\ Arrives(r, c)
  /\ req' = [req EXCEPT ![r] = "apologizing"]
  /\ code' = [code EXCEPT ![r] = "02"]

NotFoundMethod(r, c) ==
  /\ Arrives(r, c)
  /\ req' = [req EXCEPT ![r] = "sending"]
  /\ code' = [code EXCEPT ![r] = "04"]

Invoke(r, c) ==
  /\ Arrives(r, c)
  /\ req' = [req EXCEPT ![r] = "running"] /\ UNCHANGED code

IsClosed(r) == conn[of[r]] = "closed"

Expired(r) == Timeout > 0 /\ age[r] >= Timeout

\* The method has returned (00) or thrown (01, or 02 for a SystemError).
MethodEnds(r, result) ==
  /\ req[r] = "running"
  /\ code' = [code EXCEPT ![r] = IF Expired(r) THEN "03" ELSE result]
  /\ req' = [req EXCEPT ![r] =
               IF Expired(r) \/ IsClosed(r) THEN "done" ELSE "sending"]
  /\ age' = [age EXCEPT ![r] = 0]
  /\ UNCHANGED <<of, written, netVars, connVars, closeVars, pubVars>>

\* The encoder calls back: the response is written.
SendOk(r) ==
  /\ req[r] \in {"sending", "apologizing"} /\ conn[of[r]] = "open"
  /\ written' = [written EXCEPT ![r] = @ + 1]
  /\ req' = [req EXCEPT ![r] = "done"]
  /\ UNCHANGED <<of, code, age, netVars, connVars, closeVars, pubVars>>

\* The error is reported on the server, and nothing is sent instead.
SendFailsSilently(r) ==
  /\ req[r] \in {"sending", "apologizing"}
  /\ req' = [req EXCEPT ![r] = "done"]
  /\ code' = [code EXCEPT ![r] = "02"]
  /\ UNCHANGED <<of, age, written, netVars, connVars, closeVars, pubVars>>

\* The encoder calls back with an error.  A result may be one that cannot be
\* encoded; a mere message can, as long as the stream has not been destroyed.
SendFails(r) ==
  /\ \/ /\ req[r] = "sending"
        /\ req' = [req EXCEPT ![r] = "apologizing"]
        /\ code' = [code EXCEPT ![r] = "02"]
     \/ /\ req[r] = "apologizing" /\ conn[of[r]] # "open"
        /\ req' = [req EXCEPT ![r] = "done"]
        /\ UNCHANGED code
  /\ UNCHANGED <<of, age, written, netVars, connVars, closeVars, pubVars>>

-----------------------------------------------------------------------------
(* Publication.  Registry: register() makes the url visible and then tells *)
(* the caller, who subscribes and waits until he sees it.  A server that   *)
(* is being closed is not published.                                       *)

\* this.publishUrl is not set.
PublishForgettingUrl(n) ==
  /\ pub[n] = "none" /\ \A m \in Url : m < n => pub[m] # "none"
  /\ \A k \in Closer : close[k] = "none"
  /\ pub' = [pub EXCEPT ![n] = "registering"]
  /\ UNCHANGED <<publishUrl, registered, netVars, connVars, reqVars, closeVars>>

Publish(n) ==
  /\ pub[n] = "none" /\ \A m \in Url : m < n => pub[m] # "none"
  /\ \A k \in Closer : close[k] = "none"
  /\ publishUrl' = n
  /\ pub' = [pub EXCEPT ![n] = "registering"]
  /\ UNCHANGED <<registered, netVars, connVars, reqVars, closeVars>>

Registered(n) ==
  /\ pub[n] = "registering"
  /\ registered' = registered \cup {n}
  /\ pub' = [pub EXCEPT ![n] = "waiting"]
  /\ UNCHANGED <<publishUrl, netVars, connVars, reqVars, closeVars>>

RegisterFails(n) ==
  /\ pub[n] = "registering"
  /\ pub' = [pub EXCEPT ![n] = "failed"]
  /\ UNCHANGED <<publishUrl, registered, netVars, connVars, reqVars, closeVars>>

\* The listener is called with a list that holds the url.
Notify(n) ==
  /\ pub[n] = "waiting" /\ n \in registered
  /\ pub' = [pub EXCEPT ![n] = "resolved"]
  /\ UNCHANGED <<publishUrl, registered, netVars, connVars, reqVars, closeVars>>

-----------------------------------------------------------------------------
(* close().                                                                *)

\* unPublish() of the url at hand; without one it is resolved at once.
BeginClose(k) ==
  /\ close[k] = "none"
  /\ close' = [close EXCEPT ![k] = "unpublishing"]
  /\ target' = [target EXCEPT ![k] = publishUrl]
  /\ UNCHANGED <<waits, netVars, connVars, reqVars, pubVars>>

\* The net server is left for the end of close().
UnpublishedListening(k) ==
  /\ close[k] = "unpublishing"
  /\ registered' = registered \ {target[k]}
  /\ conn' = Ended(connections)
  /\ waits' = [waits EXCEPT ![k] = connections]
  /\ close' = [close EXCEPT ![k] = "closing"]
  /\ UNCHANGED <<netVars, connections, idle, timer, reqVars, target, publishUrl,
                 pub>>

\* unPublish() has ended: sockets are no longer accepted, and the connections
\* of this moment are closed.
Unpublished(k) ==
  /\ close[k] = "unpublishing"
  /\ registered' = registered \ {target[k]}
  /\ listening' = FALSE
  /\ conn' = Ended(connections)
  /\ waits' = [waits EXCEPT ![k] = connections]
  /\ close' = [close EXCEPT ![k] = "closing"]
  /\ UNCHANGED <<started, connections, idle, timer, reqVars, target, publishUrl,
                 pub>>

\* unRegister() is rejected, and close() with it: the sockets stay.
UnpublishFails(k) ==
  /\ close[k] = "unpublishing" /\ target[k] # NoUrl
  /\ close' = [close EXCEPT ![k] = "failed"]
  /\ UNCHANGED <<target, waits, netVars, connVars, reqVars, pubVars>>

EndClose(k) ==
  /\ close[k] = "closing" /\ waits[k] = {}
  /\ close' = [close EXCEPT ![k] = "done"]
  /\ UNCHANGED <<target, waits, netVars, connVars, reqVars, pubVars>>

-----------------------------------------------------------------------------
Next ==
  \/ Tick \/ Start
  \/ \E c \in Conn : Accept(c) \/ IdleCheck(c) \/ Heartbeat(c) \/ HandleClose(c)
  \/ \E r \in Req, c \in Conn :
       \/ Malformed(r, c) \/ NotFoundService(r, c)
       \/ NotFoundMethod(r, c) \/ Invoke(r, c)
  \/ \E r \in Req :
       \/ \E result \in {"00", "01", "02"} : MethodEnds(r, result)
       \/ SendOk(r) \/ SendFails(r)
  \/ \E n \in Url :
       Publish(n) \/ Registered(n) \/ RegisterFails(n) \/ Notify(n)
  \/ \E k \in Closer :
       BeginClose(k) \/ Unpublished(k) \/ UnpublishFails(k) \/ EndClose(k)

Spec == Init /\ [][Next]_vars

\* Time goes on and timers fire; a destroyed stream emits close; the registry
\* answers, and tells its subscribers what is registered.  Nothing is assumed
\* of clients, of methods or of the encoder.
Fairness ==
  /\ WF_vars(Tick)
  /\ \A c \in Conn : /\ WF_vars(IdleCheck(c))
                     /\ WF_vars(conn[c] = "ending" /\ HandleClose(c))
  /\ \A n \in Url : /\ WF_vars(Registered(n) \/ RegisterFails(n))
                    /\ WF_vars(Notify(n))
  /\ \A k \in Closer : /\ WF_vars(Unpublished(k) \/ UnpublishFails(k))
                       /\ WF_vars(EndClose(k))

FairSpec == Spec /\ Fairness

-----------------------------------------------------------------------------
(* Every request that names a service is answered at most once, and at     *)
(* least once unless it took too long or its connection went away: with    *)
(* methods that throw, results that cannot be encoded and the second send  *)
(* of _invokeService (server.js _invokeService, service.js invoke).        *)
AnsweredOnce ==
  \A r \in Req :
    /\ written[r] <= 1
    /\ req[r] = "done" /\ written[r] = 0 =>
         code[r] = "03" \/ conn[of[r]] # "open"

(* When a close() has ended no connection is left, and none comes later,   *)
(* whatever clients, idle timers and other calls of close() did meanwhile  *)
(* (server.js close, _handleSocket; connection.js close).                  *)
ClosedIsQuiet ==
  \A k \in Closer : close[k] = "done" =>
    \A c \in Conn : conn[c] \in {"new", "closed"}

(* A connection that has been silent for maxIdleTime is closed, or the     *)
(* client speaks again (connection.js, the interval).                      *)
SilentIsClosed ==
  \A c \in Conn :
    conn[c] = "open" /\ idle[c] = MaxIdleTime ~>
      conn[c] = "closed" \/ idle[c] < MaxIdleTime

(* close() ends, though its connections may close by themselves, by their  *)
(* idle timers or by another close() (server.js close).                    *)
CloseEnds ==
  \A k \in Closer : close[k] = "unpublishing" ~> close[k] \in {"done", "failed"}

(* When close() has removed the registration, nothing is left of a         *)
(* publish() that had ended (server.js close, service.js unPublish).       *)
ClosedIsUnpublished ==
  [][\A n \in Url, k \in Closer :
       close[k] = "unpublishing" /\ close'[k] = "closing" /\ pub[n] = "resolved"
         => n \notin registered']_vars
=============================================================================
