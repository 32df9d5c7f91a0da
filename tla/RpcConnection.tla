---------------------------- MODULE RpcConnection ----------------------------
(***************************************************************************)
(* One client connection of the bolt protocol                              *)
(* (lib/client/connection/rpc.js) with its circuit breaker: the calls      *)
(* multiplexed over it, their timers, the socket underneath, and the       *)
(* graceful and forced ways to close it.                                   *)
(*                                                                         *)
(* The event loop.  A socket event, a timer or an interval is only handled *)
(* when the process.nextTick queue and the promise continuations have been *)
(* worked off (Quiet).  invoke(), close() and forceClose() are called from *)
(* anywhere.                                                               *)
(*                                                                         *)
(* A member of Req stands for one call at a time.  Every invoke() draws a  *)
(* fresh id from utils.nextId(), so a member is reused (Renew) only once   *)
(* nothing about its previous call is left on the wire.                    *)
(*                                                                         *)
(* ready(), which invoke() does not look at, is in ConnectionManager.      *)
(***************************************************************************)
EXTENDS Integers, FiniteSets

CONSTANTS NumBuckets, RTs, RequestVolumeThreshold, ErrorThresholdPercentage,
          SleepWindow, ForceModes,
          Req,             \* calls that can be under way at the same time
          UserClosers,     \* calls of close() made by the users of the connection
          MaxWindow        \* bound: calls recorded in the window or under way

ASSUME BreakerAssumption ==
  NumBuckets \in Nat \ {0} /\ RTs \subseteq Nat /\ SleepWindow \in Nat

VARIABLES buckets, isClosed, status, openedFor, hc, force,   \* the breaker
          sock,            \* connecting, open, destroyed ('close' is due) or closed
          closed,          \* _closed
          isClosing,       \* _isClosing
          sentReqs,        \* ids in _sentReqs
          timers,          \* calls whose timeout timer is armed
          phase,           \* how far invoke() has come with each call
          resultCode,      \* req.meta.resultCode
          queued,          \* calls that a process.nextTick will answer with an error
          wire,            \* requests written whose response may still come
          closer,          \* how far each close() has come
          waits,           \* the unresolved promises that close() awaits
          owed,            \* history: calls unanswered when close() was first called
          forced           \* history: the socket went down without close()

breakerVars == <<buckets, isClosed, status, openedFor, hc, force>>
socketVars == <<sock, closed, isClosing>>
callVars == <<sentReqs, timers, phase, resultCode, queued, wire>>
closeVars == <<closer, waits, owed, forced>>
vars == <<breakerVars, socketVars, callVars, closeVars>>

CB == INSTANCE CircuitBreaker

\* close() is also called by the connect timeout.
Closers == UserClosers \cup {"timeout"}

Phases == {"idle", "waiting", "thrown", "resolved", "done"}

Init ==
  /\ CB!Init
  /\ sock = "connecting"
  /\ closed = FALSE
  /\ isClosing = FALSE
  /\ sentReqs = {}
  /\ timers = {}
  /\ phase = [r \in Req |-> "idle"]
  /\ resultCode = [r \in Req |-> "00"]
  /\ queued = {}
  /\ wire = {}
  /\ closer = [c \in Closers |-> "idle"]
  /\ waits = [c \in Closers |-> {}]
  /\ owed = {}
  /\ forced = FALSE

Quiet ==
  /\ queued = {}
  /\ \A r \in Req : phase[r] # "resolved"
  /\ \A c \in Closers : closer[c] = "waiting" => waits[c] # {}

closeBegun == \E c \in Closers : closer[c] # "idle"

UnderWay == {r \in Req : phase[r] \in {"waiting", "thrown", "resolved"}}
Room == Cardinality(UnderWay) + CB!Reduce(buckets).total < MaxWindow

-----------------------------------------------------------------------------
(* Answering a call *)

\* Variant: the timers of answered calls are not cleared.
HandleResponseKeepingTimers(ids) ==
  LET known == ids \cap sentReqs IN
  /\ sentReqs' = sentReqs \ known
  /\ phase' = [r \in Req |->
                 IF r \notin known THEN phase[r]
                 ELSE IF phase[r] = "thrown" THEN "done" ELSE "resolved"]
  /\ waits' = [c \in Closers |-> waits[c] \ known]
  /\ owed' = owed \ known
  /\ UNCHANGED timers

\* Variant: entry and timer go, and nobody is told.
HandleResponseSilently(ids) ==
  /\ sentReqs' = sentReqs \ ids
  /\ timers' = timers \ ids
  /\ UNCHANGED <<phase, waits, owed>>

\* _handleResponse for each of `ids`: those no longer in _sentReqs only get a
\* warning; the others lose entry and timer and their promise is resolved.  A
\* call whose invoke() has thrown has nobody left behind its promise.
HandleResponse(ids) ==
  LET known == ids \cap sentReqs IN
  /\ sentReqs' = sentReqs \ known
  /\ timers' = timers \ known
  /\ phase' = [r \in Req |->
                 IF r \notin known THEN phase[r]
                 ELSE IF phase[r] = "thrown" THEN "done" ELSE "resolved"]
  /\ waits' = [c \in Closers |-> waits[c] \ known]
  /\ owed' = owed \ known

\* A response is decoded.  The server may send another one for the same id
\* (server.js sends an error after a failed send).
Response(r) ==
  /\ Quiet
  /\ sock = "open"
  /\ r \in wire
  /\ HandleResponse({r})
  /\ wire' \in {wire, wire \ {r}}
  /\ UNCHANGED <<breakerVars, socketVars, resultCode, queued, closer, forced>>

Timeout(r) ==
  /\ Quiet
  /\ r \in timers
  /\ resultCode' = [resultCode EXCEPT ![r] = "03"]
  /\ HandleResponse({r})
  /\ UNCHANGED <<breakerVars, socketVars, queued, wire, closer, forced>>

\* process.nextTick(() => this._handleRpcError(id, err))
ErrorTick(r) ==
  /\ r \in queued
  /\ HandleResponse({r})
  /\ queued' = queued \ {r}
  /\ UNCHANGED <<breakerVars, socketVars, resultCode, wire, closer, forced>>

\* Variant: a call that timed out is not reported to the breaker.
ResumeForgettingTimeouts(r) ==
  /\ phase[r] = "resolved"
  /\ IF resultCode[r] = "03" THEN UNCHANGED breakerVars
     ELSE \E rt \in RTs : CB!Update(resultCode[r], rt)
  /\ phase' = [phase EXCEPT ![r] = "done"]
  /\ resultCode' = [resultCode EXCEPT ![r] = "00"]
  /\ UNCHANGED <<socketVars, sentReqs, timers, queued, wire, closeVars>>

\* invoke() goes on after `await resPromise`; nobody looks at resultCode after.
Resume(r) ==
  /\ phase[r] = "resolved"
  /\ \E rt \in RTs : CB!Update(resultCode[r], rt)
  /\ phase' = [phase EXCEPT ![r] = "done"]
  /\ resultCode' = [resultCode EXCEPT ![r] = "00"]
  /\ UNCHANGED <<socketVars, sentReqs, timers, queued, wire, closeVars>>

-----------------------------------------------------------------------------
(* invoke(req), by what becomes of the request *)

\* Variant: the timer is forgotten.
EnterUntimed(r, where) ==
  /\ phase[r] = "idle"
  /\ Room
  /\ sentReqs' = sentReqs \cup {r}
  /\ phase' = [phase EXCEPT ![r] = where]
  /\ UNCHANGED <<timers, socketVars, closeVars>>

\* Entry and timer are there before the breaker is asked.  Nothing keeps a
\* caller from invoking on a connection that is closing or closed.
Enter(r, where) ==
  /\ phase[r] = "idle"
  /\ Room
  /\ sentReqs' = sentReqs \cup {r}
  /\ timers' = timers \cup {r}
  /\ phase' = [phase EXCEPT ![r] = where]
  /\ UNCHANGED <<socketVars, closeVars>>

InvokeSent(r) ==
  /\ Enter(r, "waiting")
  /\ CB!Admit \/ CB!AdmitTest
  /\ wire' = IF sock \in {"connecting", "open"} THEN wire \cup {r} ELSE wire
  /\ UNCHANGED <<resultCode, queued>>

FailSoon(r) ==
  /\ resultCode' = [resultCode EXCEPT ![r] = "02"]
  /\ queued' = queued \cup {r}
  /\ UNCHANGED wire

\* The encoder reports an error.
InvokeUnsent(r) ==
  /\ Enter(r, "waiting")
  /\ CB!Admit \/ CB!AdmitTest
  /\ FailSoon(r)

InvokeRefused(r) ==
  /\ Enter(r, "waiting")
  /\ CB!Refuse
  /\ hc # CB!NoHealth
  /\ FailSoon(r)

\* latestHealthCount is undefined and hc.toString() throws: the caller gets a
\* TypeError, the entry and its timer stay behind.
InvokeThrows(r) ==
  /\ Enter(r, "thrown")
  /\ CB!Refuse
  /\ hc = CB!NoHealth
  /\ UNCHANGED <<resultCode, queued, wire>>

Invoke(r) == InvokeSent(r) \/ InvokeUnsent(r) \/ InvokeRefused(r) \/ InvokeThrows(r)

\* The next call in this place, with an id of its own.
Renew(r) ==
  /\ phase[r] = "done"
  /\ r \notin wire
  /\ phase' = [phase EXCEPT ![r] = "idle"]
  /\ resultCode' = [resultCode EXCEPT ![r] = "00"]
  /\ UNCHANGED <<breakerVars, socketVars, sentReqs, timers, queued, wire, closeVars>>

-----------------------------------------------------------------------------
(* Closing *)

\* Variant: close() awaits nothing.
BeginCloseImpatiently(c) ==
  /\ closer[c] = "idle"
  /\ isClosing' = TRUE
  /\ closer' = [closer EXCEPT ![c] = "waiting"]
  /\ owed' = IF closeBegun \/ closed THEN owed
             ELSE {r \in sentReqs : phase[r] = "waiting"}
  /\ UNCHANGED <<closed, forced, waits>>

\* close(): it awaits the calls that are pending now, not those that follow.
BeginClose(c) ==
  /\ closer[c] = "idle"
  /\ isClosing' = TRUE
  /\ closer' = [closer EXCEPT ![c] = "waiting"]
  /\ waits' = [waits EXCEPT ![c] = sentReqs]
  /\ owed' = IF closeBegun \/ closed THEN owed
             ELSE {r \in sentReqs : phase[r] = "waiting"}
  /\ UNCHANGED <<closed, forced>>

Close(c) ==
  /\ c \in UserClosers
  /\ BeginClose(c)
  /\ UNCHANGED <<breakerVars, sock, callVars>>

\* The socket's idle timeout strikes before it is connected: close(err), then
\* ready(err).
ConnectTimeout ==
  /\ Quiet
  /\ sock = "connecting"
  /\ BeginClose("timeout")
  /\ UNCHANGED <<breakerVars, sock, callVars>>

\* The end of close(): forceClose() after the await.
ForceClose(c) ==
  /\ closer[c] = "waiting"
  /\ waits[c] = {}
  /\ closer' = [closer EXCEPT ![c] = IF closed THEN "done" ELSE "destroying"]
  /\ sock' = IF closed THEN sock ELSE "destroyed"
  /\ wire' = IF closed THEN wire ELSE {}
  /\ UNCHANGED <<breakerVars, closed, isClosing, sentReqs, timers, phase,
                 resultCode, queued, waits, owed, forced>>

\* The socket is destroyed while calls may be pending.
Destroy ==
  /\ sock' = "destroyed"
  /\ wire' = {}
  /\ forced' = TRUE
  /\ UNCHANGED <<breakerVars, closed, isClosing, sentReqs, timers, phase,
                 resultCode, queued, closer, waits, owed>>

\* forceClose() called by a user of the connection; on a socket that is
\* destroyed already it only waits for 'close'.
UserForceClose ==
  /\ sock \in {"connecting", "open"}
  /\ Destroy

Connect ==
  /\ Quiet
  /\ sock = "connecting"
  /\ sock' = "open"
  /\ UNCHANGED <<breakerVars, closed, isClosing, callVars, closeVars>>

\* _handleSocketError before the connection is up.
ConnectError ==
  /\ Quiet
  /\ sock = "connecting"
  /\ Destroy

\* The peer ends or resets the connection, or a packet cannot be decoded.
SocketDown ==
  /\ Quiet
  /\ sock = "open"
  /\ Destroy

\* Variant: the calls that are pending are left to their timers.
HandleCloseLeavingCalls ==
  /\ Quiet
  /\ sock = "destroyed"
  /\ sock' = "closed"
  /\ closed' = TRUE
  /\ isClosing' = FALSE
  /\ CB!Close
  /\ closer' = [c \in Closers |->
                  IF closer[c] = "destroying" THEN "done" ELSE closer[c]]
  /\ UNCHANGED <<callVars, waits, owed, forced>>

\* The socket's 'close' event: every pending call is answered, then the breaker
\* closes, then whoever awaits 'close' goes on.
HandleClose ==
  /\ Quiet
  /\ sock = "destroyed"
  /\ sock' = "closed"
  /\ closed' = TRUE
  /\ isClosing' = FALSE
  /\ HandleResponse(sentReqs)
  /\ CB!Close
  /\ closer' = [c \in Closers |->
                  IF closer[c] = "destroying" THEN "done" ELSE closer[c]]
  /\ UNCHANGED <<resultCode, queued, wire, forced>>

-----------------------------------------------------------------------------
(* What the breaker does by itself *)

BreakerOnly == UNCHANGED <<socketVars, callVars, closeVars>>

Tick == Quiet /\ CB!Tick /\ BreakerOnly
Elapse == CB!Elapse /\ BreakerOnly
Configure == CB!Configure /\ BreakerOnly

\* The address group resets the counter of a degraded address.
ResetCounter == CB!Reset /\ BreakerOnly

Next ==
  \/ \E r \in Req : Response(r) \/ Timeout(r) \/ ErrorTick(r) \/ Resume(r)
  \/ \E r \in Req : Invoke(r) \/ Renew(r)
  \/ \E c \in Closers : Close(c) \/ ForceClose(c)
  \/ ConnectTimeout \/ Connect \/ ConnectError \/ SocketDown
  \/ UserForceClose \/ HandleClose
  \/ Tick \/ Elapse \/ Configure \/ ResetCounter

Spec == Init /\ [][Next]_vars

(* Fairness.  Node.js works off its nextTick queue and the continuations of *)
(* resolved promises before anything else (WF).  That can go on for ever    *)
(* only if the callers invoke again from every continuation: they are       *)
(* assumed to give the loop a turn again and again ([]<>Quiet).  Timers,    *)
(* the socket's 'close' and connect timeout are then handled in some turn   *)
(* (SF, as Quiet comes and goes).  Nothing is assumed of the peer, of       *)
(* Connect, or that anybody invokes or closes at all.                       *)
Fairness ==
  /\ []<>Quiet
  /\ \A r \in Req : WF_vars(ErrorTick(r)) /\ WF_vars(Resume(r)) /\ SF_vars(Timeout(r))
  /\ \A c \in Closers : WF_vars(ForceClose(c))
  /\ SF_vars(HandleClose)
  /\ SF_vars(ConnectTimeout)

FairSpec == Spec /\ Fairness

-----------------------------------------------------------------------------
ConnectionTypeOK ==
  /\ sock \in {"connecting", "open", "destroyed", "closed"}
  /\ closed \in BOOLEAN /\ isClosing \in BOOLEAN
  /\ sentReqs \subseteq Req /\ timers \subseteq Req /\ wire \subseteq Req
  /\ queued \subseteq Req
  /\ phase \in [Req -> Phases]
  /\ resultCode \in [Req -> CB!Codes]
  /\ closer \in [Closers -> {"idle", "waiting", "destroying", "done"}]
  /\ waits \in [Closers -> SUBSET Req]
  /\ owed \subseteq Req /\ forced \in BOOLEAN

TypeOK == CB!TypeOK /\ ConnectionTypeOK

(* Every call whose promise is unresolved is registered and timed, and no   *)
(* entry or timer outlives the promise, on all four ways to an answer       *)
(* (response, timeout, error, close: rpc.js:168-178, 217-271).              *)
PendingIsTimed ==
  /\ sentReqs = {r \in Req : phase[r] \in {"waiting", "thrown"}}
  /\ timers = sentReqs

(* "should wait pedding requests before close the client"                   *)
(* (test/client/connection.test.js:117): unless the socket fails or         *)
(* forceClose() is called, it is not destroyed before every call that was   *)
(* pending at the first close() has an answer, whatever calls and further   *)
(* close()s follow (rpc.js:304-311).                                        *)
CloseKeepsItsPromise ==
  sock \in {"destroyed", "closed"} => forced \/ owed = {}

-----------------------------------------------------------------------------
\* The calls and the link as their users see them.
callSeen ==
  [r \in Req |-> CASE phase[r] = "idle" -> "idle"
                   [] phase[r] = "waiting" -> "pending"
                   [] OTHER -> "answered"]

linkSeen == IF closed THEN "down" ELSE IF closeBegun THEN "draining" ELSE "up"

Calls == INSTANCE RpcCalls WITH call <- callSeen, link <- linkSeen, broken <- forced

(* The connection keeps what RpcCalls promises: every call is answered at   *)
(* most once, and a close() that nobody forces drops none of the calls it   *)
(* found pending.                                                           *)
ImplementsCalls == Calls!Spec

(* Every call is answered in the end, even when its connection is closing,  *)
(* closed or never came up.                                                 *)
EveryCallIsAnswered == \A r \in Req : phase[r] = "waiting" ~> phase[r] = "done"

\* The calls of close() that have not resolved yet.
Closing == {c \in Closers : closer[c] \in {"waiting", "destroying"}}

(* Every close() resolves in the end (rpc.js:304-311), however many calls   *)
(* follow, also one that begins while another goes on or is through.        *)
CloseEnds == []<>(Closing = {})

(* The breaker does not hang in HALF_OPEN: the single test gets an answer   *)
(* of some kind and invoke() reports it (rpc.js:207-213).                   *)
HalfOpenEnds == []<>(status # "HALF_OPEN")
=============================================================================
