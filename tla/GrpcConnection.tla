---------------------------- MODULE GrpcConnection ----------------------------
(***************************************************************************)
(* One client connection of the gRPC protocol                              *)
(* (lib/client/connection/grpc/index.js) with the streams of its calls     *)
(* (call_stream.js), the answers of the server (lib/server/grpc), and the  *)
(* circuit breaker as Breaker promises it.                                 *)
(*                                                                         *)
(* http2 is external.  A stream is open until one side ends or resets it,  *)
(* without an error or with one; its 'close' comes later.  A session that  *)
(* goes down takes its streams with it and emits its own 'close' after     *)
(* theirs.  After a GOAWAY it takes no new streams and is gone once the    *)
(* others are.                                                             *)
(*                                                                         *)
(* The event loop and the use of Req are as in RpcConnection.  The forced  *)
(* modes of the breaker, in which invoke() either always sends or always   *)
(* refuses, are left out.                                                  *)
(***************************************************************************)
EXTENDS Naturals

CONSTANTS Req,             \* calls that can be under way at the same time
          Closers          \* calls of close(), by users, a failed ping or the
                           \* connect timeout

VARIABLES status, rested,  \* the breaker
          session,         \* connecting, up, draining, destroyed or closed
          stream,          \* none, open; ended (without an error) or reset (with
                           \* one), so that 'close' is due; closed
          served,          \* what the server has sent: none, reply or failure
          heard,           \* how much of it came: nothing, headers, the message
                           \* or trailers
          mapped,          \* _mappedStatusCode
          sentReqs,        \* ids in _sentReqs
          timers,          \* calls whose timeout timer is armed
          phase,           \* how far invoke() has come with each call
          result,          \* what its caller is given
          resultCode,      \* req.meta.resultCode
          closer,          \* how far each close() has come
          waits,           \* the promises that close() awaits
          owed,            \* history: calls unanswered when close() was first called
          forced           \* history: the session went down without close()

breakerVars == <<status, rested>>
streamVars == <<stream, served, heard, mapped>>
callVars == <<sentReqs, timers, phase, result, resultCode>>
closeVars == <<closer, waits, owed, forced>>
vars == <<breakerVars, session, streamVars, callVars, closeVars>>

CB == INSTANCE Breaker

Init ==
  /\ CB!Init
  /\ session = "connecting"
  /\ stream = [r \in Req |-> "none"]
  /\ served = [r \in Req |-> "none"]
  /\ heard = [r \in Req |-> "nothing"]
  /\ mapped = [r \in Req |-> "UNKNOWN"]
  /\ sentReqs = {}
  /\ timers = {}
  /\ phase = [r \in Req |-> "idle"]
  /\ result = [r \in Req |-> "none"]
  /\ resultCode = [r \in Req |-> "00"]
  /\ closer = [c \in Closers |-> "idle"]
  /\ waits = [c \in Closers |-> {}]
  /\ owed = {}
  /\ forced = FALSE

closed == session = "closed"
closeBegun == \E c \in Closers : closer[c] # "idle"

\* call() of r has thrown, before or after it got an answer.
Rejected(r) == result[r] = "rejected"

Settled(c) == waits[c] = {} \/ \E r \in waits[c] : Rejected(r)

Quiet ==
  /\ \A r \in Req : phase[r] # "answered"
  /\ \A c \in Closers : closer[c] = "waiting" => ~ Settled(c)

-----------------------------------------------------------------------------
(* The end of a call *)

\* _endCall: the first one for a call counts.  Nobody listens to the answer of
\* a call that was rejected.
EndCall(ids, answer) ==
  LET open == {r \in ids : phase[r] = "waiting"} IN
  /\ phase' = [r \in Req |-> IF r \in open THEN "answered" ELSE phase[r]]
  /\ result' = [r \in Req |-> IF r \in open THEN answer ELSE result[r]]
  /\ owed' = owed \ open

Reset(ids) ==
  stream' = [r \in Req |-> IF r \in ids /\ stream[r] = "open" THEN "reset" ELSE stream[r]]

CancelCall(ids) == Reset(ids) /\ EndCall(ids, "error")

\* The timeout of a call.  If call() threw before there was a stream,
\* cancelCall() throws, too.
Timer(r) ==
  /\ Quiet
  /\ r \in timers
  /\ timers' = timers \ {r}
  /\ resultCode' = [resultCode EXCEPT ![r] = "03"]
  /\ IF stream[r] = "none" THEN UNCHANGED <<stream, phase, result, owed>>
                           ELSE CancelCall({r})
  /\ UNCHANGED <<breakerVars, session, served, heard, mapped, sentReqs, closer,
                 waits, forced>>

\* Variant: timeouts are not reported to the breaker.
AnswerForgettingTimeouts(r) ==
  /\ IF resultCode[r] = "03" THEN UNCHANGED breakerVars ELSE CB!Report(resultCode[r])
  /\ timers' = timers \ {r}
  /\ waits' = [c \in Closers |-> waits[c] \ {r}]
  /\ result' = [result EXCEPT ![r] = "none"]

\* invoke() goes on after `await resPromise`.  resultCode tells of timeouts only
\* here: that of other errors is set by the consumer, later.  The result has
\* been handed over.
Answer(r) ==
  /\ CB!Report(resultCode[r])
  /\ timers' = timers \ {r}
  /\ waits' = [c \in Closers |-> waits[c] \ {r}]
  /\ result' = [result EXCEPT ![r] = "none"]

\* The reply cannot be decoded: call() throws and invoke() does not go on.
Undecodable(r) ==
  /\ result[r] = "reply"
  /\ result' = [result EXCEPT ![r] = "rejected"]
  /\ UNCHANGED <<breakerVars, timers, waits>>

Resume(r) ==
  /\ phase[r] = "answered"
  /\ phase' = [phase EXCEPT ![r] = "done"]
  /\ Answer(r) \/ Undecodable(r)
  /\ resultCode' = [resultCode EXCEPT ![r] = "00"]
  /\ UNCHANGED <<session, streamVars, sentReqs, closer, owed, forced>>

-----------------------------------------------------------------------------
(* invoke(req), by what becomes of the request *)

Begin(r) ==
  /\ phase[r] = "idle"
  /\ UNCHANGED <<session, served, heard, mapped, resultCode, closeVars>>

TakesStreams == session \in {"connecting", "up"}

\* Variant: no timer is set.
InvokeSentUntimed(r) ==
  /\ Begin(r)
  /\ CB!Admit \/ CB!AdmitTest
  /\ TakesStreams
  /\ phase' = [phase EXCEPT ![r] = "waiting"]
  /\ stream' = [stream EXCEPT ![r] = "open"]
  /\ sentReqs' = sentReqs \cup {r}
  /\ UNCHANGED <<timers, result>>

InvokeSent(r) ==
  /\ Begin(r)
  /\ CB!Admit \/ CB!AdmitTest
  /\ TakesStreams
  /\ phase' = [phase EXCEPT ![r] = "waiting"]
  /\ stream' = [stream EXCEPT ![r] = "open"]
  /\ timers' = timers \cup {r}
  /\ sentReqs' = sentReqs \cup {r}
  /\ UNCHANGED result

\* call() throws: at the headers or at request(), as it always does on a session
\* that takes no streams, or at the encoding, when the stream is there already.
\* Timer and entry stay behind, and so does a test in the breaker.
InvokeRejected(r) ==
  /\ Begin(r)
  /\ CB!Admit \/ CB!AdmitTest
  /\ phase' = [phase EXCEPT ![r] = "done"]
  /\ result' = [result EXCEPT ![r] = "rejected"]
  /\ \/ UNCHANGED stream
     \/ TakesStreams /\ stream' = [stream EXCEPT ![r] = "open"]
  /\ timers' = timers \cup {r}
  /\ sentReqs' = sentReqs \cup {r}

\* The breaker refuses: the caller has its error at once.
InvokeRefused(r) ==
  /\ Begin(r)
  /\ CB!Refuse
  /\ phase' = [phase EXCEPT ![r] = "done"]
  /\ UNCHANGED <<stream, timers, sentReqs, result>>

\* The next call in this place, when nothing is left of the one before.
Renew(r) ==
  /\ phase[r] = "done"
  /\ r \notin sentReqs \cup timers
  /\ \A c \in Closers : r \notin waits[c]
  /\ phase' = [phase EXCEPT ![r] = "idle"]
  /\ result' = [result EXCEPT ![r] = "none"]
  /\ resultCode' = [resultCode EXCEPT ![r] = "00"]
  /\ stream' = [stream EXCEPT ![r] = "none"]
  /\ UNCHANGED <<breakerVars, session, served, heard, mapped, sentReqs, timers,
                 closeVars>>

-----------------------------------------------------------------------------
(* The stream of a call *)

\* What the server answers with: an http status and, in the trailers, a
\* grpc-status, as the client maps them.
HttpStatus(answer) == IF answer = "reply" THEN "OK" ELSE "UNKNOWN"
GrpcStatus(answer) == IF answer = "reply" THEN "OK" ELSE "UNKNOWN"

\* GRpcResponse#send, for a request that came to its end.  If the reply cannot
\* be encoded it is called again with the error.
Serve(r) ==
  /\ session \in {"up", "draining"}
  /\ stream[r] = "open" /\ ~ Rejected(r)
  /\ served[r] = "none"
  /\ \E answer \in {"reply", "failure"} : served' = [served EXCEPT ![r] = answer]
  /\ UNCHANGED <<breakerVars, session, stream, heard, mapped, callVars, closeVars>>

\* What the server sends comes as an event of the stream, in order.
StreamEvent(r) ==
  /\ Quiet
  /\ session \in {"up", "draining"}
  /\ stream[r] = "open"
  /\ UNCHANGED <<breakerVars, session, served, sentReqs, timers, resultCode,
                 closer, waits, forced>>

\* 'response'; headers that are no legal metadata cancel the call.
Headers(r) ==
  /\ StreamEvent(r)
  /\ served[r] # "none" /\ heard[r] = "nothing"
  /\ heard' = [heard EXCEPT ![r] = "headers"]
  /\ mapped' = [mapped EXCEPT ![r] = HttpStatus(served[r])]
  /\ \/ UNCHANGED <<stream, phase, result, owed>>
     \/ CancelCall({r})

\* 'data', which completes the message.  A failure comes without one.
Message(r) ==
  /\ StreamEvent(r)
  /\ served[r] = "reply" /\ heard[r] = "headers"
  /\ heard' = [heard EXCEPT ![r] = "message"]
  /\ UNCHANGED <<stream, mapped, phase, result, owed>>

\* 'trailers': they count if the http status was no known one, and end the call
\* if they are no legal metadata (like a message in another script).
Trailers(r) ==
  /\ StreamEvent(r)
  /\ heard[r] = IF served[r] = "reply" THEN "message" ELSE "headers"
  /\ heard' = [heard EXCEPT ![r] = "trailers"]
  /\ UNCHANGED stream
  /\ \/ /\ mapped' = [mapped EXCEPT ![r] = IF @ = "UNKNOWN" THEN GrpcStatus(served[r]) ELSE @]
        /\ UNCHANGED <<phase, result, owed>>
     \/ EndCall({r}, "error") /\ UNCHANGED mapped

\* 'end': the client closes the stream without an error.  It comes after the
\* trailers, or earlier if the answer is broken off without an error: the stream
\* is ended, or reset with NGHTTP2_NO_ERROR, before all of it was sent.
End(r) ==
  /\ StreamEvent(r)
  /\ stream' = [stream EXCEPT ![r] = "ended"]
  /\ UNCHANGED <<heard, mapped, phase, result, owed>>

\* The server resets the stream with an error, or refuses it.
StreamReset(r) ==
  /\ StreamEvent(r)
  /\ Reset({r})
  /\ UNCHANGED <<heard, mapped, phase, result, owed>>

\* 'error', which may precede the 'close' of a stream that was reset.
StreamError(r) ==
  /\ Quiet
  /\ stream[r] = "reset" /\ phase[r] = "waiting"
  /\ EndCall({r}, "error")
  /\ UNCHANGED <<breakerVars, session, streamVars, sentReqs, timers, resultCode,
                 closer, waits, forced>>

\* Variant: the error code of the stream is not looked at.
CloseCodeOfHeaders(r) == mapped[r]

\* The status by which a call ends with its stream: rstCode counts if it is one
\* of an error.
CloseCode(r) == IF stream[r] = "reset" THEN "CANCELLED" ELSE mapped[r]

\* Status OK is a success even if there is no message.
CloseAnswer(r) ==
  IF CloseCode(r) # "OK" THEN "error"
  ELSE IF heard[r] \in {"message", "trailers"} THEN "reply" ELSE "empty"

\* 'close' of the stream, on which the entry goes as well, and all that the
\* stream has heard.
StreamClose(r) ==
  /\ Quiet
  /\ stream[r] \in {"ended", "reset"}
  /\ stream' = [stream EXCEPT ![r] = "closed"]
  /\ served' = [served EXCEPT ![r] = "none"]
  /\ heard' = [heard EXCEPT ![r] = "nothing"]
  /\ mapped' = [mapped EXCEPT ![r] = "UNKNOWN"]
  /\ sentReqs' = sentReqs \ {r}
  /\ EndCall({r}, CloseAnswer(r))
  /\ UNCHANGED <<breakerVars, session, timers, resultCode, closer, waits, forced>>

-----------------------------------------------------------------------------
(* The session *)

Streams(states) == {r \in Req : stream[r] \in states}

Up ==
  /\ Quiet
  /\ session = "connecting"
  /\ session' = "up"
  /\ UNCHANGED <<breakerVars, streamVars, callVars, closeVars>>

\* The connection fails, or cannot be made; or the server ends it at once.  If
\* it is lost after a GOAWAY, http2 may see no error in that.
SessionDown ==
  /\ Quiet
  /\ session \in {"connecting", "up", "draining"}
  /\ session' = "destroyed"
  /\ \/ Reset(Req)
     \/ /\ session = "draining"
        /\ stream' = [r \in Req |-> IF stream[r] = "open" THEN "ended" ELSE stream[r]]
  /\ forced' = TRUE
  /\ UNCHANGED <<breakerVars, served, heard, mapped, callVars, closer, waits, owed>>

\* The server is closing and lets the streams come to their end.
Goaway ==
  /\ Quiet
  /\ session = "up"
  /\ session' = "draining"
  /\ forced' = TRUE
  /\ UNCHANGED <<breakerVars, streamVars, callVars, closer, waits, owed>>

SessionDrained ==
  /\ session = "draining"
  /\ Streams({"open", "ended", "reset"}) = {}
  /\ session' = "destroyed"
  /\ UNCHANGED <<breakerVars, streamVars, callVars, closeVars>>

\* Variant: the session does not wait for its streams.
HandleCloseEarly ==
  /\ Quiet
  /\ session = "destroyed"
  /\ session' = "closed"
  /\ closer' = [c \in Closers |->
                  IF closer[c] = "destroying" THEN "done" ELSE closer[c]]
  /\ UNCHANGED <<breakerVars, streamVars, callVars, waits, owed, forced>>

\* 'close' of the session: whoever awaits it goes on.
HandleClose ==
  /\ Quiet
  /\ session = "destroyed"
  /\ Streams({"open", "ended", "reset"}) = {}
  /\ session' = "closed"
  /\ closer' = [c \in Closers |->
                  IF closer[c] = "destroying" THEN "done" ELSE closer[c]]
  /\ UNCHANGED <<breakerVars, streamVars, callVars, waits, owed, forced>>

-----------------------------------------------------------------------------
(* Closing *)

\* Variant: close() awaits nothing.
BeginCloseImpatiently(c) ==
  /\ closer[c] = "idle"
  /\ closer' = [closer EXCEPT ![c] = "waiting"]
  /\ owed' = IF closeBegun \/ closed THEN owed ELSE {r \in Req : phase[r] = "waiting"}
  /\ UNCHANGED <<breakerVars, session, streamVars, callVars, waits, forced>>

\* close(): it awaits the promises of the entries that are there now.
BeginClose(c) ==
  /\ closer[c] = "idle"
  /\ closer' = [closer EXCEPT ![c] = "waiting"]
  /\ waits' = [waits EXCEPT ![c] =
                 {r \in sentReqs : phase[r] \in {"waiting", "answered"} \/ Rejected(r)}]
  /\ owed' = IF closeBegun \/ closed THEN owed ELSE {r \in Req : phase[r] = "waiting"}
  /\ UNCHANGED <<breakerVars, session, streamVars, callVars, forced>>

ConnectTimeout ==
  /\ Quiet
  /\ session = "connecting"
  /\ \E c \in Closers : BeginClose(c)

\* One of the promises is rejected, and close() with it: the session lives on.
CloseFails(c) ==
  /\ closer[c] = "waiting"
  /\ \E r \in waits[c] : Rejected(r)
  /\ closer' = [closer EXCEPT ![c] = "failed"]
  /\ waits' = [waits EXCEPT ![c] = {}]
  /\ UNCHANGED <<breakerVars, session, streamVars, callVars, owed, forced>>

\* forceClose().  An entry without a stream makes _cleanRequest() throw when it
\* comes to it, after some of the calls and before the session is destroyed.
Unattached == {r \in sentReqs : stream[r] = "none"}

CleanAndDestroy ==
  /\ Unattached = {}
  /\ CancelCall(sentReqs)
  /\ session' = "destroyed"

CleanAndThrow ==
  /\ Unattached # {}
  /\ \E ids \in SUBSET (sentReqs \ Unattached) : CancelCall(ids)
  /\ UNCHANGED session

\* The end of close().
ForceClose(c) ==
  /\ closer[c] = "waiting"
  /\ waits[c] = {}
  /\ \/ /\ closed
        /\ closer' = [closer EXCEPT ![c] = "done"]
        /\ UNCHANGED <<session, stream, phase, result, owed>>
     \/ /\ ~ closed
        /\ \/ CleanAndDestroy /\ closer' = [closer EXCEPT ![c] = "destroying"]
           \/ CleanAndThrow /\ closer' = [closer EXCEPT ![c] = "failed"]
  /\ UNCHANGED <<breakerVars, served, heard, mapped, sentReqs, timers, resultCode,
                 waits, forced>>

UserForceClose ==
  /\ ~ closed
  /\ CleanAndDestroy \/ CleanAndThrow
  /\ forced' = TRUE
  /\ UNCHANGED <<breakerVars, served, heard, mapped, sentReqs, timers, resultCode,
                 closer, waits>>

\* The counter, which other connections to the host share, ends a bad window,
\* and time passes.
Trip == ~ closed /\ CB!Trip /\ UNCHANGED <<session, streamVars, callVars, closeVars>>
Rest == CB!Rest /\ UNCHANGED <<session, streamVars, callVars, closeVars>>

Next ==
  \/ \E r \in Req : Timer(r) \/ Resume(r) \/ Renew(r)
  \/ \E r \in Req : InvokeSent(r) \/ InvokeRejected(r) \/ InvokeRefused(r)
  \/ \E r \in Req : Serve(r) \/ Headers(r) \/ Message(r) \/ Trailers(r) \/ End(r)
  \/ \E r \in Req : StreamReset(r) \/ StreamError(r) \/ StreamClose(r)
  \/ Up \/ SessionDown \/ Goaway \/ SessionDrained \/ HandleClose
  \/ \E c \in Closers : BeginClose(c) \/ CloseFails(c) \/ ForceClose(c)
  \/ ConnectTimeout \/ UserForceClose
  \/ Trip \/ Rest

Spec == Init /\ [][Next]_vars

(* Fairness, as in RpcConnection: continuations run (WF); timers, the end   *)
(* of streams and sessions that are due and the connect timeout are handled *)
(* in some turn of the loop (SF, as Quiet comes and goes).  The server may  *)
(* never answer and nothing has to connect.                                 *)
Fairness ==
  /\ []<>Quiet
  /\ \A r \in Req : WF_vars(Resume(r)) /\ SF_vars(Timer(r)) /\ SF_vars(StreamClose(r))
  /\ \A c \in Closers : WF_vars(ForceClose(c)) /\ WF_vars(CloseFails(c))
  /\ SF_vars(HandleClose)
  /\ SF_vars(ConnectTimeout)

FairSpec == Spec /\ Fairness

-----------------------------------------------------------------------------
TypeOK ==
  /\ status \in {"CLOSED", "OPEN", "HALF_OPEN"} /\ rested \in BOOLEAN
  /\ session \in {"connecting", "up", "draining", "destroyed", "closed"}
  /\ stream \in [Req -> {"none", "open", "ended", "reset", "closed"}]
  /\ served \in [Req -> {"none", "reply", "failure"}]
  /\ heard \in [Req -> {"nothing", "headers", "message", "trailers"}]
  /\ mapped \in [Req -> {"UNKNOWN", "OK"}]
  /\ sentReqs \subseteq Req /\ timers \subseteq Req
  /\ phase \in [Req -> {"idle", "waiting", "answered", "done"}]
  /\ result \in [Req -> {"none", "reply", "empty", "error", "rejected"}]
  /\ resultCode \in [Req -> {"00", "03"}]
  /\ closer \in [Closers -> {"idle", "waiting", "destroying", "done", "failed"}]
  /\ waits \in [Closers -> SUBSET Req]
  /\ owed \subseteq Req /\ forced \in BOOLEAN

(* A call that waits has an entry, a timer and a stream that will end, on   *)
(* every way a stream or a session can go; the entry of a call that was not *)
(* rejected goes with its stream (index.js:133-149, call_stream.js:183-212).*)
WaitingIsTracked ==
  \A r \in Req :
    /\ phase[r] = "waiting" =>
         r \in sentReqs \cap timers /\ stream[r] \in {"open", "ended", "reset"}
    /\ r \in sentReqs => stream[r] \in {"open", "ended", "reset"} \/ Rejected(r)
    /\ r \in timers => phase[r] \in {"waiting", "answered"} \/ Rejected(r)

(* A caller is told of a success only if the server served one and the     *)
(* stream ended without an error, and never for a call that counts as timed *)
(* out: neither a timeout, nor a stream or a session that fails, nor a      *)
(* close() makes a success of headers with status 200 or of a message that  *)
(* has come already.  The success is empty, without a message, only if the  *)
(* answer was broken off without an error between its headers and its       *)
(* message, which no status tells (call_stream.js:183-212).                 *)
RepliesAreWhole ==
  [][\A r \in Req : result'[r] \in {"reply", "empty"} /\ result'[r] # result[r] =>
       /\ served[r] = "reply" /\ stream[r] = "ended" /\ resultCode[r] = "00"
       /\ IF result'[r] = "empty" THEN heard[r] = "headers"
                                  ELSE heard[r] \in {"message", "trailers"}]_vars

(* Unless somebody forces it or the server ends the session, the session is *)
(* destroyed only when none of the calls that were pending at the first     *)
(* close() is left ("等待 pending 的请求结束", index.js:209).                *)
CloseDropsNothing ==
  [][session # "destroyed" /\ session' = "destroyed" /\ ~ forced' => owed = {}]_vars

-----------------------------------------------------------------------------
callSeen ==
  [r \in Req |-> IF phase[r] = "idle" THEN "idle"
                 ELSE IF phase[r] = "waiting" THEN "pending" ELSE "answered"]

linkSeen == IF closed THEN "down" ELSE IF closeBegun THEN "draining" ELSE "up"

Calls == INSTANCE RpcCalls WITH call <- callSeen, link <- linkSeen, broken <- forced

(* The gRPC connection keeps the same promise as the bolt connection: every *)
(* call is answered at most once, and by the time the link is down, which   *)
(* is a close()'s or the server's doing, none is pending (index.js:186-214).*)
ImplementsCalls == Calls!Spec

(* Every call is answered in the end, by the stream or by its timer, even   *)
(* if the server is silent or the session never comes up.                   *)
EveryCallIsAnswered == \A r \in Req : phase[r] = "waiting" ~> phase[r] # "waiting"

(* Every close() resolves in the end unless call() has thrown for some      *)
(* call: then Promise.all rejects, or _cleanRequest throws, and the session *)
(* stays (index.js:207-214).                                                *)
CloseEnds ==
  \A c \in Closers :
    closer[c] = "waiting" ~> \/ closer[c] = "done"
                             \/ closer[c] = "failed" /\ \E r \in Req : Rejected(r)

(* A call that is under way while the circuit is HALF_OPEN, the single test *)
(* itself if it was not rejected at once, ends that state, unless its reply *)
(* cannot be decoded: invoke() then ends before it reports (index.js:148).  *)
HalfOpenEnds ==
  \A r \in Req : status = "HALF_OPEN" /\ phase[r] = "waiting"
                   ~> status # "HALF_OPEN" \/ Rejected(r)
=============================================================================
