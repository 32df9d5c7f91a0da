------------------------ MODULE GrpcConnectionProofs ------------------------
(***************************************************************************)
(* What holds of a gRPC connection for every set of calls and of callers   *)
(* of close(): the bookkeeping of calls and streams, that a success which  *)
(* is handed over was served, that the connection implements RpcCalls, that *)
(* every close() that waits has something to wait for, and that only a call *)
(* that throws leaves the circuit in HALF_OPEN with nobody to end it.      *)
(***************************************************************************)
EXTENDS GrpcConnection, TLAPS

(* The strengthening for replies: the status that a stream has heard tells  *)
(* what the server has sent, and a call that waits has not timed out.       *)
StreamsTellTheTruth ==
  \A r \in Req :
    /\ mapped[r] = "OK" => served[r] = "reply" /\ heard[r] # "nothing"
    /\ phase[r] \in {"idle", "waiting"} => resultCode[r] = "00"
    /\ phase[r] # "idle" \/ result[r] = "none"
    /\ Rejected(r) => phase[r] = "done"

(* The strengthening for close(): the calls owed wait, every close() that   *)
(* has not gone on yet awaits them all, and a session that went down        *)
(* without force was destroyed by a close(), so that nothing is owed.       *)
OwedIsAwaited ==
  /\ \A r \in owed : phase[r] = "waiting"
  /\ \A c \in Closers : closer[c] = "waiting" => owed \subseteq waits[c]

DownForAReason ==
  session \in {"destroyed", "closed"} => forced \/ (owed = {} /\ closeBegun)

DrainsForAReason == session = "draining" => forced

ClosedHasNoStreams ==
  session = "closed" => \A r \in Req : stream[r] \in {"none", "closed"}

\* The parts of TypeOK the argument needs; the breaker is not among them.
ConnectionTypeOK ==
  /\ session \in {"connecting", "up", "draining", "destroyed", "closed"}
  /\ stream \in [Req -> {"none", "open", "ended", "reset", "closed"}]
  /\ served \in [Req -> {"none", "reply", "failure"}]
  /\ heard \in [Req -> {"nothing", "headers", "message", "trailers"}]
  /\ mapped \in [Req -> {"UNKNOWN", "OK"}]
  /\ sentReqs \subseteq Req /\ timers \subseteq Req
  /\ phase \in [Req -> {"idle", "waiting", "answered", "done"}]
  /\ result \in [Req -> {"none", "reply", "empty", "error", "rejected"}]
  /\ resultCode \in [Req -> {"00", "03"}]
  /\ closer \in [Closers -> {"idle", "waiting", "destroying", "done", "failed"}]
  /\ waits \in [Closers -> SUBSET Req]
  /\ owed \subseteq Req /\ forced \in BOOLEAN

IInv ==
  /\ ConnectionTypeOK
  /\ WaitingIsTracked
  /\ StreamsTellTheTruth
  /\ OwedIsAwaited
  /\ DownForAReason
  /\ DrainsForAReason
  /\ ClosedHasNoStreams

LEMMA InitIInv == Init => IInv
<1> SUFFICES ASSUME Init PROVE IInv
  OBVIOUS
<1>1. ConnectionTypeOK
  BY DEF Init, ConnectionTypeOK
<1>2. WaitingIsTracked /\ StreamsTellTheTruth
  BY DEF Init, WaitingIsTracked, StreamsTellTheTruth, Rejected
<1>3. OwedIsAwaited /\ DownForAReason /\ DrainsForAReason /\ ClosedHasNoStreams
  BY DEF Init, OwedIsAwaited, DownForAReason, DrainsForAReason, ClosedHasNoStreams
<1> QED BY <1>1, <1>2, <1>3 DEF IInv

LEMMA NextIInv == IInv /\ [Next]_vars => IInv'
<1> SUFFICES ASSUME IInv, [Next]_vars PROVE IInv'
  OBVIOUS
<1> USE DEF IInv, ConnectionTypeOK, WaitingIsTracked, StreamsTellTheTruth,
            OwedIsAwaited, DownForAReason, DrainsForAReason, ClosedHasNoStreams,
            Rejected, closed, closeBegun
<1>1. ASSUME NEW r \in Req, Timer(r) PROVE IInv'
  BY <1>1 DEF Timer, CancelCall, Reset, EndCall, breakerVars
<1>2. ASSUME NEW r \in Req, Resume(r) PROVE IInv'
  <2>1. CASE Answer(r)
    BY <1>2, <2>1 DEF Resume, Answer, streamVars
  <2>2. CASE Undecodable(r)
    BY <1>2, <2>2 DEF Resume, Undecodable, streamVars
  <2> QED BY <1>2, <2>1, <2>2 DEF Resume
<1>3. ASSUME NEW r \in Req, Renew(r) PROVE IInv'
  BY <1>3 DEF Renew, closeVars
<1>4. ASSUME NEW r \in Req, InvokeSent(r) PROVE IInv'
  BY <1>4 DEF InvokeSent, Begin, TakesStreams, closeVars
<1>5. ASSUME NEW r \in Req, InvokeRejected(r) PROVE IInv'
  BY <1>5 DEF InvokeRejected, Begin, TakesStreams, closeVars
<1>6. ASSUME NEW r \in Req, InvokeRefused(r) PROVE IInv'
  BY <1>6 DEF InvokeRefused, Begin, closeVars
<1>7. ASSUME NEW r \in Req, Serve(r) PROVE IInv'
  BY <1>7 DEF Serve, callVars, closeVars
<1>8. ASSUME NEW r \in Req, Headers(r) PROVE IInv'
  BY <1>8 DEF Headers, StreamEvent, HttpStatus, CancelCall, Reset, EndCall
<1>9. ASSUME NEW r \in Req, Message(r) PROVE IInv'
  BY <1>9 DEF Message, StreamEvent
<1>10. ASSUME NEW r \in Req, Trailers(r) PROVE IInv'
  BY <1>10 DEF Trailers, StreamEvent, GrpcStatus, EndCall
<1>11. ASSUME NEW r \in Req, End(r) PROVE IInv'
  BY <1>11 DEF End, StreamEvent
<1>12. ASSUME NEW r \in Req, StreamReset(r) PROVE IInv'
  BY <1>12 DEF StreamReset, StreamEvent, Reset
<1>13. ASSUME NEW r \in Req, StreamError(r) PROVE IInv'
  BY <1>13 DEF StreamError, EndCall, streamVars
<1>14. ASSUME NEW r \in Req, StreamClose(r) PROVE IInv'
  BY <1>14 DEF StreamClose, EndCall, CloseAnswer
<1>15. CASE Up \/ Goaway \/ SessionDrained
  <2>1. CASE Up
    BY <2>1 DEF Up, streamVars, callVars, closeVars
  <2>2. CASE Goaway
    BY <2>2 DEF Goaway, streamVars, callVars
  <2>3. CASE SessionDrained
    BY <2>3 DEF SessionDrained, streamVars, callVars, closeVars
  <2> QED BY <1>15, <2>1, <2>2, <2>3
<1>16. CASE SessionDown
  BY <1>16 DEF SessionDown, Reset, callVars
<1>17. CASE HandleClose
  BY <1>17 DEF HandleClose, Streams, streamVars, callVars
<1>18. ASSUME NEW c \in Closers, BeginClose(c) PROVE IInv'
  BY <1>18 DEF BeginClose, streamVars, callVars
<1>19. ASSUME NEW c \in Closers, CloseFails(c) PROVE IInv'
  BY <1>19 DEF CloseFails, streamVars, callVars
<1>20. ASSUME NEW c \in Closers, ForceClose(c) PROVE IInv'
  BY <1>20 DEF ForceClose, CleanAndDestroy, CleanAndThrow, CancelCall, Reset, EndCall
<1>21. CASE UserForceClose
  BY <1>21 DEF UserForceClose, CleanAndDestroy, CleanAndThrow, CancelCall, Reset, EndCall
<1>22. CASE Trip \/ Rest \/ UNCHANGED vars
  BY <1>22 DEF Trip, Rest, vars, streamVars, callVars, closeVars
<1> QED BY <1>1, <1>2, <1>3, <1>4, <1>5, <1>6, <1>7, <1>8, <1>9, <1>10, <1>11, <1>12,
           <1>13, <1>14, <1>15, <1>16, <1>17, <1>18, <1>19, <1>20, <1>21, <1>22
           DEF Next, ConnectTimeout

LEMMA Invariance == Spec => []IInv
BY InitIInv, NextIInv, PTL DEF Spec

-----------------------------------------------------------------------------
(* The breaker                                                              *)

LEMMA StepUsesBreaker == ConnectionTypeOK /\ [Next]_vars => [CB!Next]_(CB!vars)
<1> SUFFICES ASSUME ConnectionTypeOK, [Next]_vars PROVE CB!Next \/ UNCHANGED breakerVars
  BY DEF CB!vars, breakerVars
<1>1. ASSUME NEW r \in Req, Resume(r) PROVE CB!Next \/ UNCHANGED breakerVars
  <2>1. CASE Answer(r)
    <3>1. CB!Report(resultCode[r]) /\ resultCode[r] \in {"00", "03"}
      BY <2>1 DEF Answer, ConnectionTypeOK
    <3> QED BY <3>1 DEF CB!Next
  <2> QED BY <1>1, <2>1 DEF Resume, Undecodable
<1>2. ASSUME NEW r \in Req, InvokeSent(r) \/ InvokeRejected(r) \/ InvokeRefused(r)
      PROVE  CB!Next
  BY <1>2 DEF InvokeSent, InvokeRejected, InvokeRefused, CB!Next
<1>3. CASE Trip \/ Rest
  BY <1>3 DEF Trip, Rest, CB!Next
<1>4. ASSUME NEW r \in Req, \/ Timer(r) \/ Renew(r) \/ Serve(r) \/ Headers(r) \/ Message(r)
                            \/ Trailers(r) \/ End(r) \/ StreamReset(r) \/ StreamError(r) \/ StreamClose(r)
      PROVE  UNCHANGED breakerVars
  BY <1>4 DEF Timer, Renew, Serve, Headers, Message, Trailers, End, StreamReset,
              StreamEvent, StreamError, StreamClose
<1>5. ASSUME \/ Up \/ SessionDown \/ Goaway \/ SessionDrained \/ HandleClose
             \/ ConnectTimeout \/ UserForceClose
             \/ \E c \in Closers : BeginClose(c) \/ CloseFails(c) \/ ForceClose(c)
      PROVE  UNCHANGED breakerVars
  BY <1>5 DEF Up, SessionDown, Goaway, SessionDrained, HandleClose, ConnectTimeout,
              UserForceClose, BeginClose, CloseFails, ForceClose
<1>6. CASE UNCHANGED vars
  BY <1>6 DEF vars
<1> QED BY <1>1, <1>2, <1>3, <1>4, <1>5, <1>6 DEF Next

(* The connection drives its breaker only by the operations it offers, so   *)
(* that what Breaker promises, and CircuitBreaker keeps, holds of it here   *)
(* (index.js:133-160).                                                      *)
THEOREM BreakerIsUsedAsOffered == Spec => CB!Spec
<1>1. Init => CB!Init
  BY DEF Init
<1>2. IInv => ConnectionTypeOK
  BY DEF IInv
<1> QED BY <1>1, <1>2, StepUsesBreaker, Invariance, PTL DEF Spec, CB!Spec

(* Every variable of the connection, its breaker included, keeps its type.  *)
THEOREM TypeCorrect == Spec => []TypeOK
<1> DEFINE BreakerOK == status \in {"CLOSED", "OPEN", "HALF_OPEN"} /\ rested \in BOOLEAN
<1>1. Init => BreakerOK
  BY DEF Init, CB!Init
<1>2. BreakerOK /\ [CB!Next]_(CB!vars) => BreakerOK'
  BY DEF CB!Next, CB!vars, CB!Admit, CB!AdmitTest, CB!Refuse, CB!Report, CB!Trip, CB!Rest
<1>3. ConnectionTypeOK /\ BreakerOK => TypeOK
  BY DEF ConnectionTypeOK, TypeOK
<1>4. IInv => ConnectionTypeOK
  BY DEF IInv
<1> HIDE DEF BreakerOK
<1> QED BY <1>1, <1>2, <1>3, <1>4, StepUsesBreaker, Invariance, PTL DEF Spec

(* A call that waits has an entry, a timer and a stream that will end; no   *)
(* entry outlives its stream unless the call was rejected.                  *)
THEOREM WaitingCallsAreTracked == Spec => []WaitingIsTracked
<1>1. IInv => WaitingIsTracked
  BY DEF IInv
<1> QED BY <1>1, Invariance, PTL

(* A caller is told of a success only when the server served one and the    *)
(* stream ended without an error, in time; it lacks its message only if the *)
(* answer was broken off, without an error, after its headers.              *)
THEOREM HandedRepliesAreWhole == Spec => RepliesAreWhole
<1> DEFINE Success(r) == result'[r] \in {"reply", "empty"} /\ result'[r] # result[r]
           Whole(r) == /\ served[r] = "reply" /\ stream[r] = "ended" /\ resultCode[r] = "00"
                       /\ IF result'[r] = "empty" THEN heard[r] = "headers"
                                                  ELSE heard[r] \in {"message", "trailers"}
<1>1. IInv /\ [Next]_vars => [\A r \in Req : Success(r) => Whole(r)]_vars
  <2> SUFFICES ASSUME IInv, Next, NEW r \in Req, Success(r) PROVE Whole(r)
    OBVIOUS
  <2> USE DEF IInv, ConnectionTypeOK
  <2>1. ASSUME NEW ids, EndCall(ids, "error") PROVE FALSE
    BY <2>1 DEF EndCall
  <2>2. ~ UNCHANGED result
    OBVIOUS
  <2>3. ASSUME NEW q \in Req, StreamClose(q) PROVE Whole(r)
    <3>1. r = q /\ result'[q] = CloseAnswer(q) /\ phase[q] = "waiting"
      BY <2>3 DEF StreamClose, EndCall
    <3>2. CloseCode(q) = "OK"
      BY <3>1 DEF CloseAnswer
    <3>3. mapped[q] = "OK" /\ stream[q] = "ended"
      BY <2>3, <3>2 DEF StreamClose, CloseCode
    <3> QED BY <3>1, <3>2, <3>3 DEF StreamsTellTheTruth, CloseAnswer
  <2>4. ASSUME NEW q \in Req,
               \/ Timer(q) \/ Headers(q) \/ Message(q) \/ Trailers(q) \/ End(q)
               \/ StreamReset(q) \/ StreamError(q)
        PROVE  FALSE
    BY <2>1, <2>2, <2>4 DEF Timer, CancelCall, Headers, Message, Trailers, End,
                            StreamReset, StreamError, StreamEvent
  <2>5. ASSUME NEW q \in Req, Resume(q) \/ Renew(q) \/ Serve(q) PROVE FALSE
    BY <2>2, <2>5 DEF Resume, Answer, Undecodable, Renew, Serve, callVars
  <2>6. ASSUME NEW q \in Req, InvokeSent(q) \/ InvokeRejected(q) \/ InvokeRefused(q)
        PROVE  FALSE
    BY <2>2, <2>6 DEF InvokeSent, InvokeRejected, InvokeRefused
  <2>7. ASSUME Up \/ SessionDown \/ Goaway \/ SessionDrained \/ HandleClose \/ Trip \/ Rest
        PROVE  FALSE
    BY <2>2, <2>7 DEF Up, SessionDown, Goaway, SessionDrained, HandleClose, Trip, Rest,
                      callVars
  <2>8. ASSUME NEW c \in Closers, BeginClose(c) \/ CloseFails(c) PROVE FALSE
    BY <2>2, <2>8 DEF BeginClose, CloseFails, callVars
  <2>9. ASSUME NEW c \in Closers, ForceClose(c) PROVE FALSE
    BY <2>1, <2>2, <2>9 DEF ForceClose, CleanAndDestroy, CleanAndThrow, CancelCall
  <2>10. ~ UserForceClose
    BY <2>1, <2>2 DEF UserForceClose, CleanAndDestroy, CleanAndThrow, CancelCall
  <2> QED BY <2>3, <2>4, <2>5, <2>6, <2>7, <2>8, <2>9, <2>10 DEF Next, ConnectTimeout
<1> QED BY <1>1, Invariance, PTL DEF Spec, RepliesAreWhole

(* A session that nobody forces down is destroyed only by a close() to      *)
(* which no call is owed any more, however many calls and close()s follow.  *)
THEOREM CloseWaitsForPendingCalls == Spec => CloseDropsNothing
<1> DEFINE Destroyed == session # "destroyed" /\ session' = "destroyed"
<1>1. IInv /\ [Next]_vars => [Destroyed /\ ~ forced' => owed = {}]_vars
  <2> SUFFICES ASSUME IInv, Next, Destroyed, ~ forced' PROVE owed = {}
    OBVIOUS
  <2> USE DEF IInv, ConnectionTypeOK
  <2>1. ASSUME NEW r \in Req,
               \/ Timer(r) \/ Resume(r) \/ Renew(r) \/ InvokeSent(r) \/ InvokeRejected(r)
               \/ InvokeRefused(r) \/ Serve(r) \/ Headers(r) \/ Message(r) \/ Trailers(r)
               \/ End(r) \/ StreamReset(r) \/ StreamError(r) \/ StreamClose(r)
        PROVE  FALSE
    BY <2>1 DEF Timer, Resume, Renew, InvokeSent, InvokeRejected, InvokeRefused, Begin,
                Serve, Headers, Message, Trailers, End, StreamReset, StreamEvent,
                StreamError, StreamClose
  <2>2. ASSUME NEW c \in Closers, BeginClose(c) \/ CloseFails(c) PROVE FALSE
    BY <2>2 DEF BeginClose, CloseFails
  <2>3. ~ (Up \/ SessionDown \/ Goaway \/ HandleClose \/ UserForceClose \/ Trip \/ Rest)
    BY DEF Up, SessionDown, Goaway, HandleClose, UserForceClose, Trip, Rest
  <2>4. ~ SessionDrained
    BY DEF SessionDrained, DrainsForAReason, closeVars
  <2>5. ASSUME NEW c \in Closers, ForceClose(c) PROVE owed = {}
    BY <2>5 DEF ForceClose, OwedIsAwaited
  <2> QED BY <2>1, <2>2, <2>3, <2>4, <2>5 DEF Next, ConnectTimeout
<1> QED BY <1>1, Invariance, PTL DEF Spec, CloseDropsNothing

-----------------------------------------------------------------------------
\* Ending calls, as the abstract specification sees it.
LEMMA EndCallSeen ==
  ASSUME IInv, NEW ids \in SUBSET Req, NEW answer, EndCall(ids, answer)
  PROVE  /\ ids \cap Calls!Pending \in SUBSET Calls!Pending
         /\ Calls!Cancel(ids \cap Calls!Pending)
<1>1. Calls!Pending = {r \in Req : phase[r] = "waiting"}
  BY DEF Calls!Pending, callSeen, IInv, ConnectionTypeOK
<1> QED BY <1>1 DEF Calls!Cancel, callSeen, EndCall, IInv, ConnectionTypeOK

LEMMA OneEndImplements ==
  ASSUME IInv, NEW r \in Req, NEW answer, EndCall({r}, answer),
         UNCHANGED <<session, closer, forced>>
  PROVE  [Calls!Next]_(Calls!vars)
<1>1. UNCHANGED <<linkSeen, forced>>
  BY DEF linkSeen, closed, closeBegun
<1>2. CASE phase[r] = "waiting"
  <2>1. callSeen[r] = "pending" /\ callSeen' = [callSeen EXCEPT ![r] = "answered"]
    BY <1>2 DEF callSeen, EndCall, IInv, ConnectionTypeOK
  <2>2. Calls!Answer(r)
    BY <1>1, <1>2, <2>1 DEF Calls!Answer, EndCall
  <2> QED BY <2>2 DEF Calls!Next
<1>3. CASE phase[r] # "waiting"
  BY <1>1, <1>3 DEF Calls!vars, callSeen, EndCall, IInv, ConnectionTypeOK
<1> QED BY <1>2, <1>3

LEMMA BeginCloseImplements ==
  ASSUME IInv, NEW c \in Closers, BeginClose(c)
  PROVE  [Calls!Next]_(Calls!vars)
<1>1. closeBegun' /\ UNCHANGED <<callSeen, session, forced>>
  BY DEF BeginClose, closeBegun, callVars, callSeen, IInv, ConnectionTypeOK
<1>2. CASE closeBegun \/ closed
  BY <1>1, <1>2 DEF BeginClose, Calls!vars, linkSeen, closed
<1>3. CASE ~ closeBegun /\ ~ closed
  <2>1. linkSeen = "up" /\ linkSeen' = "draining"
    BY <1>1, <1>3 DEF linkSeen, closed
  <2>2. owed' = Calls!Pending
    BY <1>3 DEF BeginClose, Calls!Pending, callSeen, IInv
  <2>3. Calls!Drain
    BY <1>1, <2>1, <2>2 DEF Calls!Drain
  <2> QED BY <2>3 DEF Calls!Next
<1> QED BY <1>2, <1>3

\* forceClose(), by a user or at the end of close(), cancels calls in both of
\* its outcomes.
LEMMA ForcedCancels ==
  ASSUME IInv, CleanAndDestroy \/ CleanAndThrow
  PROVE  \E ids \in SUBSET Calls!Pending : Calls!Cancel(ids)
<1>1. PICK ids \in SUBSET Req : EndCall(ids, "error")
  BY DEF CleanAndDestroy, CleanAndThrow, CancelCall, IInv, ConnectionTypeOK
<1> QED BY <1>1, EndCallSeen

LEMMA UserForceCloseImplements ==
  ASSUME IInv, UserForceClose PROVE [Calls!Next]_(Calls!vars)
<1>1. PICK ids \in SUBSET Calls!Pending : Calls!Cancel(ids)
  BY ForcedCancels DEF UserForceClose
<1>2. linkSeen # "down" /\ UNCHANGED linkSeen
  BY DEF UserForceClose, CleanAndDestroy, CleanAndThrow, linkSeen, closed, closeBegun
<1>3. Calls!Break(ids)
  BY <1>1, <1>2 DEF Calls!Break, UserForceClose
<1> QED BY <1>3 DEF Calls!Next

LEMMA ForceCloseImplements ==
  ASSUME IInv, NEW c \in Closers, ForceClose(c) PROVE [Calls!Next]_(Calls!vars)
<1>1. closeBegun /\ closeBegun' /\ UNCHANGED forced
  BY DEF ForceClose, closeBegun, IInv, ConnectionTypeOK
<1>2. CASE closed
  BY <1>1, <1>2 DEF ForceClose, Calls!vars, callSeen, linkSeen, closed
<1>3. CASE ~ closed
  <2>1. PICK ids \in SUBSET Calls!Pending : Calls!Cancel(ids)
    BY <1>3, ForcedCancels DEF ForceClose
  <2>2. linkSeen = "draining" /\ linkSeen' = "draining"
    BY <1>1, <1>3 DEF ForceClose, CleanAndDestroy, CleanAndThrow, linkSeen, closed
  <2>3. owed = {}
    BY DEF ForceClose, IInv, OwedIsAwaited
  <2>4. Calls!Dismiss(ids)
    BY <1>1, <2>1, <2>2, <2>3 DEF Calls!Dismiss
  <2> QED BY <2>4 DEF Calls!Next
<1> QED BY <1>2, <1>3

LEMMA BreakImplements ==
  ASSUME IInv, SessionDown \/ Goaway PROVE [Calls!Next]_(Calls!vars)
<1>1. linkSeen # "down" /\ UNCHANGED <<linkSeen, callSeen, owed>> /\ forced' = TRUE
  BY DEF SessionDown, Goaway, linkSeen, callSeen, closed, closeBegun, callVars
<1>2. callSeen' = [r \in Req |-> IF r \in {} THEN "answered" ELSE callSeen[r]]
  BY <1>1 DEF callSeen
<1>3. Calls!Break({})
  BY <1>1, <1>2 DEF Calls!Break, Calls!Cancel
<1>4. {} \in SUBSET Calls!Pending
  OBVIOUS
<1> QED BY <1>3, <1>4 DEF Calls!Next

\* By the time the session closes, its streams have answered all calls.
LEMMA HandleCloseImplements ==
  ASSUME IInv, HandleClose PROVE [Calls!Next]_(Calls!vars)
<1>1. Calls!Pending = {} /\ owed = {}
  BY DEF HandleClose, Streams, Calls!Pending, callSeen, IInv, ConnectionTypeOK,
         WaitingIsTracked, OwedIsAwaited
<1>2. closeBegun' = closeBegun /\ UNCHANGED <<callSeen, owed, forced>>
  BY DEF HandleClose, callVars, callSeen, closeBegun, IInv, ConnectionTypeOK
<1>3. linkSeen # "down" /\ linkSeen' = "down"
  BY DEF HandleClose, linkSeen, closed
<1>4. forced \/ (linkSeen = "draining" /\ owed = {})
  BY <1>1 DEF HandleClose, linkSeen, closed, IInv, DownForAReason
<1>5. callSeen' = [r \in Req |-> IF r \in Calls!Pending THEN "answered" ELSE callSeen[r]]
  BY <1>1, <1>2 DEF callSeen
<1>6. Calls!GoDown
  BY <1>1, <1>2, <1>3, <1>4, <1>5 DEF Calls!GoDown
<1> QED BY <1>6 DEF Calls!Next

LEMMA StepImplements == IInv /\ [Next]_vars => [Calls!Next]_(Calls!vars)
<1> SUFFICES ASSUME IInv, [Next]_vars PROVE [Calls!Next]_(Calls!vars)
  OBVIOUS
<1>1. ASSUME NEW r \in Req, Timer(r) PROVE [Calls!Next]_(Calls!vars)
  <2>1. CASE stream[r] = "none"
    BY <1>1, <2>1 DEF Timer, Calls!vars, callSeen, linkSeen, closed, closeBegun
  <2>2. CASE stream[r] # "none"
    BY <1>1, <2>2, OneEndImplements DEF Timer, CancelCall
  <2> QED BY <2>1, <2>2
<1>2. ASSUME NEW r \in Req,
             Headers(r) \/ Trailers(r) \/ StreamError(r) \/ StreamClose(r)
      PROVE  [Calls!Next]_(Calls!vars)
  <2>1. ASSUME NEW answer, EndCall({r}, answer) PROVE [Calls!Next]_(Calls!vars)
    <3>1. UNCHANGED <<session, closer, forced>>
      BY <1>2 DEF Headers, Trailers, StreamEvent, StreamError, StreamClose
    <3> QED BY <2>1, <3>1, OneEndImplements
  <2>2. CASE UNCHANGED <<phase, owed>>
    BY <1>2, <2>2 DEF Headers, Trailers, StreamEvent, StreamError, StreamClose,
                      Calls!vars, callSeen, linkSeen, closed, closeBegun
  <2> QED BY <1>2, <2>1, <2>2 DEF Headers, Trailers, StreamError, StreamClose, CancelCall
<1>3. ASSUME NEW r \in Req, Message(r) \/ End(r) \/ StreamReset(r) \/ Serve(r)
      PROVE  [Calls!Next]_(Calls!vars)
  BY <1>3 DEF Message, End, StreamReset, Serve, StreamEvent, callVars, closeVars,
              Calls!vars, callSeen, linkSeen, closed, closeBegun
<1>4. ASSUME NEW r \in Req, Resume(r) PROVE [Calls!Next]_(Calls!vars)
  <2>1. callSeen' = callSeen
    BY <1>4 DEF Resume, callSeen, IInv, ConnectionTypeOK
  <2> QED BY <1>4, <2>1 DEF Resume, Calls!vars, linkSeen, closed, closeBegun
<1>5. ASSUME NEW r \in Req, InvokeSent(r) \/ InvokeRejected(r) \/ InvokeRefused(r)
      PROVE  [Calls!Next]_(Calls!vars)
  <2>1. UNCHANGED <<linkSeen, owed, forced>> /\ callSeen[r] = "idle"
    BY <1>5 DEF InvokeSent, InvokeRejected, InvokeRefused, Begin, closeVars, linkSeen,
                closed, closeBegun, callSeen
  <2>2. CASE InvokeSent(r)
    <3>1. callSeen' = [callSeen EXCEPT ![r] = "pending"]
      BY <2>2 DEF InvokeSent, callSeen, IInv, ConnectionTypeOK
    <3>2. Calls!Issue(r)
      BY <2>1, <3>1 DEF Calls!Issue
    <3> QED BY <3>2 DEF Calls!Next
  <2>3. CASE InvokeRejected(r) \/ InvokeRefused(r)
    <3>1. phase' = [phase EXCEPT ![r] = "done"]
      BY <2>3 DEF InvokeRejected, InvokeRefused
    <3>2. callSeen' = [callSeen EXCEPT ![r] = "answered"]
      BY <3>1 DEF callSeen, IInv, ConnectionTypeOK
    <3>3. Calls!Reject(r)
      BY <2>1, <3>2 DEF Calls!Reject
    <3> QED BY <3>3 DEF Calls!Next
  <2> QED BY <1>5, <2>2, <2>3
<1>6. ASSUME NEW r \in Req, Renew(r) PROVE [Calls!Next]_(Calls!vars)
  <2>1. callSeen[r] = "answered" /\ callSeen' = [callSeen EXCEPT ![r] = "idle"]
    BY <1>6 DEF Renew, callSeen, IInv, ConnectionTypeOK
  <2>2. Calls!Renew(r)
    BY <1>6, <2>1 DEF Renew, Calls!Renew, linkSeen, closed, closeBegun, closeVars
  <2> QED BY <2>2 DEF Calls!Next
<1>7. ASSUME NEW c \in Closers, CloseFails(c) PROVE [Calls!Next]_(Calls!vars)
  <2>1. closeBegun /\ closeBegun'
    BY <1>7 DEF CloseFails, closeBegun, IInv, ConnectionTypeOK
  <2> QED BY <1>7, <2>1 DEF CloseFails, Calls!vars, callSeen, linkSeen, closed, callVars
<1>8. CASE Up \/ SessionDrained
  BY <1>8 DEF Up, SessionDrained, Calls!vars, callSeen, linkSeen, closed, closeBegun,
              callVars, closeVars
<1>9. CASE Trip \/ Rest \/ UNCHANGED vars
  <2>1. UNCHANGED <<session, callVars, closeVars>>
    BY <1>9 DEF Trip, Rest, vars
  <2> QED BY <2>1 DEF Calls!vars, callSeen, linkSeen, closed, closeBegun, callVars, closeVars
<1> QED BY <1>1, <1>2, <1>3, <1>4, <1>5, <1>6, <1>7, <1>8, <1>9, BeginCloseImplements,
           UserForceCloseImplements, ForceCloseImplements, BreakImplements,
           HandleCloseImplements
           DEF Next, ConnectTimeout

(* A gRPC connection implements RpcCalls, like a bolt connection: its users *)
(* see every call answered at most once, and close() drop none of the calls *)
(* it found pending.                                                        *)
THEOREM GrpcConnectionImplementsCalls == Spec => ImplementsCalls
<1>1. Init => Calls!Init
  BY DEF Init, Calls!Init, callSeen, linkSeen, closed, closeBegun
<1> QED BY <1>1, Invariance, StepImplements, PTL DEF Spec, Calls!Spec, ImplementsCalls

-----------------------------------------------------------------------------
(* Whoever waits waits for something: the safety half of the liveness of    *)
(* the connection.                                                          *)

\* A promise that close() awaits and that invoke() or call() will settle.
Awaited(r) == phase[r] \in {"waiting", "answered"} \/ Rejected(r)

\* What the next step of each close() is, and what it waits for.
ClosersGoOn ==
  \A c \in Closers :
    /\ closer[c] = "waiting" => \A r \in waits[c] : Awaited(r)
    /\ closer[c] = "destroying" => session = "destroyed"
    /\ closer[c] = "done" => closed

\* Every open stream has an entry, by which forceClose() finds it.
OpenStreamsAreFound ==
  \A r \in Req : stream[r] = "open" => r \in sentReqs /\ session # "destroyed"

StreamsEnd == ClosersGoOn /\ OpenStreamsAreFound

LEMMA EndCallKeepsAwaited ==
  ASSUME IInv, NEW ids, NEW answer, EndCall(ids, answer)
  PROVE  \A r \in Req : Awaited(r) => Awaited(r)'
BY DEF IInv, ConnectionTypeOK, StreamsTellTheTruth, EndCall, Awaited, Rejected

LEMMA StreamsEndStep == IInv /\ StreamsEnd /\ [Next]_vars => StreamsEnd'
<1> SUFFICES ASSUME IInv, StreamsEnd, [Next]_vars PROVE StreamsEnd'
  OBVIOUS
<1>0. ConnectionTypeOK /\ \A r \in Req : Rejected(r) => phase[r] = "done"
  BY DEF IInv, StreamsTellTheTruth
\* Steps that leave the calls of close() alone.
<1>1. ASSUME UNCHANGED <<closer, waits, session>>, \A r \in Req : Awaited(r) => Awaited(r)'
      PROVE  ClosersGoOn'
  BY <1>0, <1>1 DEF ConnectionTypeOK, StreamsEnd, ClosersGoOn, closed
\* Steps by which no stream opens and no entry of an open one goes.
<1>2. ASSUME \A r \in Req : stream'[r] = "open" => stream[r] = "open" /\ r \in sentReqs',
             session' = "destroyed" => session = "destroyed"
      PROVE  OpenStreamsAreFound'
  BY <1>2 DEF StreamsEnd, OpenStreamsAreFound
<1>3. ASSUME NEW r \in Req, \/ Timer(r) \/ Headers(r) \/ Message(r) \/ Trailers(r)
                            \/ End(r) \/ StreamReset(r) \/ StreamError(r) \/ StreamClose(r)
      PROVE  StreamsEnd'
  <2>1. UNCHANGED <<closer, waits, session>>
    BY <1>3 DEF Timer, Headers, Message, Trailers, End, StreamReset, StreamEvent,
                StreamError, StreamClose
  <2>2. \/ UNCHANGED <<phase, result>>
        \/ \E answer : EndCall({r}, answer)
    BY <1>3 DEF Timer, Headers, Message, Trailers, End, StreamReset, StreamError,
                StreamClose, CancelCall
  <2>3. \A q \in Req : Awaited(q) => Awaited(q)'
    BY <2>2, EndCallKeepsAwaited DEF Awaited, Rejected
  <2>4. \A q \in Req : stream'[q] = "open" => stream[q] = "open" /\ q \in sentReqs'
    BY <1>0, <1>3 DEF Timer, Headers, Message, Trailers, End, StreamReset, StreamEvent,
       StreamError, StreamClose, CancelCall, Reset, streamVars, ConnectionTypeOK, StreamsEnd,
       OpenStreamsAreFound
  <2> QED BY <1>1, <1>2, <2>1, <2>3, <2>4 DEF StreamsEnd
<1>4. ASSUME NEW r \in Req, Resume(r) PROVE StreamsEnd'
  <2>1. OpenStreamsAreFound'
    BY <1>2, <1>4 DEF Resume, streamVars, StreamsEnd, OpenStreamsAreFound
  <2>2. \A q \in Req : q # r /\ Awaited(q) => Awaited(q)'
    BY <1>0, <1>4 DEF Resume, Answer, Undecodable, ConnectionTypeOK, Awaited, Rejected
  <2>3. \/ \A c \in Closers : waits'[c] = waits[c] \ {r}
        \/ waits' = waits /\ Rejected(r)'
    BY <1>0, <1>4 DEF Resume, Answer, Undecodable, ConnectionTypeOK, Rejected
  <2>4. UNCHANGED <<closer, session>>
    BY <1>4 DEF Resume
  <2>5. ClosersGoOn'
    BY <1>0, <2>2, <2>3, <2>4 DEF ConnectionTypeOK, StreamsEnd, ClosersGoOn, Awaited, closed
  <2> QED BY <2>1, <2>5 DEF StreamsEnd
<1>5. ASSUME NEW r \in Req, \/ Renew(r) \/ Serve(r)
                            \/ InvokeSent(r) \/ InvokeRejected(r) \/ InvokeRefused(r)
      PROVE  StreamsEnd'
  <2>1. UNCHANGED <<closer, waits, session>>
    BY <1>5 DEF Renew, Serve, InvokeSent, InvokeRejected, InvokeRefused, Begin, closeVars
  <2>2. /\ \A q \in Req : q # r /\ Awaited(q) => Awaited(q)'
        /\ Awaited(r)' \/ ~ Awaited(r) \/ \A c \in Closers : r \notin waits[c]
    BY <1>0, <1>5 DEF Renew, Serve, InvokeSent, InvokeRejected, InvokeRefused, Begin,
                      ConnectionTypeOK, Awaited, Rejected, callVars
  <2>3. ClosersGoOn'
    BY <1>0, <2>1, <2>2 DEF ConnectionTypeOK, StreamsEnd, ClosersGoOn, closed
  <2>4. OpenStreamsAreFound'
    BY <1>0, <1>5, <2>1 DEF Renew, Serve, InvokeSent, InvokeRejected, InvokeRefused,
       TakesStreams, ConnectionTypeOK, callVars, StreamsEnd, OpenStreamsAreFound
  <2> QED BY <2>3, <2>4 DEF StreamsEnd
<1>6. CASE Up \/ Goaway \/ SessionDrained
  <2>1. /\ UNCHANGED <<closer, waits, callVars, stream>>
        /\ session \notin {"destroyed", "closed"} /\ session' # "closed"
        /\ session' = "destroyed" => \A r \in Req : stream[r] # "open"
    BY <1>6 DEF Up, Goaway, SessionDrained, Streams, streamVars, closeVars
  <2>2. ClosersGoOn'
    BY <2>1 DEF callVars, StreamsEnd, ClosersGoOn, Awaited, Rejected, closed
  <2>3. OpenStreamsAreFound'
    BY <2>1 DEF callVars, StreamsEnd, OpenStreamsAreFound
  <2> QED BY <2>2, <2>3 DEF StreamsEnd
<1>7. CASE SessionDown
  <2>1. ClosersGoOn'
    BY <1>7 DEF SessionDown, callVars, StreamsEnd, ClosersGoOn, Awaited, Rejected, closed
  <2>2. OpenStreamsAreFound'
    BY <1>7 DEF SessionDown, Reset, OpenStreamsAreFound
  <2> QED BY <2>1, <2>2 DEF StreamsEnd
<1>8. CASE HandleClose
  <2>1. ClosersGoOn'
    BY <1>0, <1>8 DEF HandleClose, callVars, ConnectionTypeOK, StreamsEnd, ClosersGoOn,
                      Awaited, Rejected, closed
  <2>2. OpenStreamsAreFound'
    BY <1>8 DEF HandleClose, streamVars, callVars, StreamsEnd, OpenStreamsAreFound
  <2> QED BY <2>1, <2>2 DEF StreamsEnd
<1>9. ASSUME NEW c \in Closers, BeginClose(c) \/ CloseFails(c) PROVE StreamsEnd'
  <2>1. ClosersGoOn'
    BY <1>0, <1>9 DEF BeginClose, CloseFails, callVars, ConnectionTypeOK, StreamsEnd,
                      ClosersGoOn, Awaited, Rejected, closed
  <2>2. OpenStreamsAreFound'
    BY <1>2, <1>9 DEF BeginClose, CloseFails, streamVars, callVars, StreamsEnd,
                      OpenStreamsAreFound
  <2> QED BY <2>1, <2>2 DEF StreamsEnd
<1>10. ASSUME ~ closed, CleanAndDestroy \/ CleanAndThrow, UNCHANGED <<waits, sentReqs>>
       PROVE  /\ OpenStreamsAreFound'
              /\ \A r \in Req : Awaited(r) => Awaited(r)'
              /\ session' = session \/ session' = "destroyed"
  <2>1. /\ \E ids : EndCall(ids, "error")
        /\ session' = session \/ session' = "destroyed"
    BY <1>10 DEF CleanAndDestroy, CleanAndThrow, CancelCall
  <2>2. ASSUME CleanAndDestroy PROVE OpenStreamsAreFound'
    BY <1>10, <2>2 DEF CleanAndDestroy, CancelCall, Reset, StreamsEnd, OpenStreamsAreFound
  <2>3. ASSUME CleanAndThrow PROVE OpenStreamsAreFound'
    BY <1>10, <2>3 DEF CleanAndThrow, CancelCall, Reset, StreamsEnd, OpenStreamsAreFound
  <2> QED BY <1>10, <2>1, <2>2, <2>3, EndCallKeepsAwaited
<1>11. ASSUME NEW c \in Closers, ForceClose(c) PROVE StreamsEnd'
  <2>1. CASE closed
    <3>1. ClosersGoOn'
      BY <1>0, <1>11, <2>1 DEF ForceClose, ConnectionTypeOK, StreamsEnd, ClosersGoOn,
                               Awaited, Rejected, closed
    <3>2. OpenStreamsAreFound'
      BY <1>2, <1>11, <2>1 DEF ForceClose, StreamsEnd, OpenStreamsAreFound
    <3> QED BY <3>1, <3>2 DEF StreamsEnd
  <2>2. CASE ~ closed
    <3>1. /\ waits' = waits /\ sentReqs' = sentReqs
          /\ \/ CleanAndDestroy /\ closer' = [closer EXCEPT ![c] = "destroying"]
             \/ CleanAndThrow /\ closer' = [closer EXCEPT ![c] = "failed"]
      BY <1>11, <2>2 DEF ForceClose
    <3>2. /\ OpenStreamsAreFound'
          /\ \A r \in Req : Awaited(r) => Awaited(r)'
          /\ session' = session \/ session' = "destroyed"
          /\ CleanAndDestroy => session' = "destroyed"
      BY <1>10, <2>2, <3>1 DEF CleanAndDestroy
    <3>3. ClosersGoOn'
      BY <1>0, <2>2, <3>1, <3>2 DEF ConnectionTypeOK, StreamsEnd, ClosersGoOn, closed
    <3> QED BY <3>2, <3>3 DEF StreamsEnd
  <2> QED BY <2>1, <2>2
<1>12. CASE UserForceClose
  <2>1. /\ ~ closed /\ UNCHANGED <<waits, sentReqs, closer>>
        /\ CleanAndDestroy \/ CleanAndThrow
    BY <1>12 DEF UserForceClose
  <2>2. ClosersGoOn'
    BY <1>0, <1>10, <2>1 DEF ConnectionTypeOK, StreamsEnd, ClosersGoOn, closed
  <2> QED BY <1>10, <2>1, <2>2 DEF StreamsEnd
<1>13. CASE Trip \/ Rest \/ UNCHANGED vars
  <2>1. UNCHANGED <<session, streamVars, callVars, closeVars>>
    BY <1>13 DEF Trip, Rest, vars
  <2>2. ClosersGoOn'
    BY <1>1, <2>1 DEF callVars, closeVars, Awaited, Rejected
  <2>3. OpenStreamsAreFound'
    BY <1>2, <2>1 DEF callVars, streamVars, StreamsEnd, OpenStreamsAreFound
  <2> QED BY <2>2, <2>3 DEF StreamsEnd
<1> QED BY <1>3, <1>4, <1>5, <1>6, <1>7, <1>8, <1>9, <1>11, <1>12, <1>13
        DEF Next, ConnectTimeout

CloseHasItsEvent ==
  \A c \in Closers :
    /\ closer[c] = "waiting" =>
         \A r \in waits[c] : \/ phase[r] = "waiting" /\ r \in timers
                             \/ phase[r] = "answered"
                             \/ Rejected(r)
    /\ closer[c] = "destroying" =>
         session = "destroyed" /\ Streams({"open"}) = {}
    /\ closer[c] = "done" => closed

(* No close() hangs on nothing: what it awaits are calls with a timer, or   *)
(* that are about to go on, or one that was rejected, which makes it fail;  *)
(* then the 'close' of a session that is destroyed and whose streams have   *)
(* all come to an end or been reset.  It returns only when the session is   *)
(* closed (index.js:186-214).                                               *)
THEOREM ClosersNeverHang == Spec => []CloseHasItsEvent
<1>1. Init => StreamsEnd
  BY DEF Init, StreamsEnd, ClosersGoOn, OpenStreamsAreFound
<1>2. IInv /\ StreamsEnd => CloseHasItsEvent
  BY DEF IInv, ConnectionTypeOK, WaitingIsTracked, StreamsEnd, ClosersGoOn, Awaited,
         OpenStreamsAreFound, Streams, CloseHasItsEvent
<1> QED BY <1>1, <1>2, StreamsEndStep, Invariance, PTL DEF Spec

\* invoke() of r has yet to report to the breaker.
WillReport(r) == phase[r] \in {"waiting", "answered"}

HalfOpenHasACall == status = "HALF_OPEN" => \E r \in Req : WillReport(r)

Rejects == \E r \in Req : ~ Rejected(r) /\ Rejected(r)'

\* Calls that end without invoke() going on have not begun or were rejected.
LEMMA ReportsAreLost ==
  ASSUME IInv, [Next]_vars, NEW r \in Req, WillReport(r), ~ WillReport(r)'
  PROVE  status' # "HALF_OPEN" \/ Rejects
<1>0. phase \in [Req -> {"idle", "waiting", "answered", "done"}]
  BY DEF IInv, ConnectionTypeOK
<1>1. ASSUME NEW ids, NEW answer, EndCall(ids, answer) PROVE FALSE
  BY <1>0, <1>1 DEF EndCall, WillReport
<1>2. ASSUME NEW q \in Req, Timer(q) \/ StreamError(q) \/ StreamClose(q)
                            \/ Headers(q) \/ Trailers(q)
      PROVE  FALSE
  BY <1>1, <1>2 DEF Timer, CancelCall, StreamError, StreamClose, Headers, Trailers, WillReport
<1>3. ASSUME \/ \E c \in Closers : ForceClose(c) \/ BeginClose(c) \/ CloseFails(c)
             \/ ConnectTimeout \/ UserForceClose
      PROVE  FALSE
  BY <1>1, <1>3 DEF ForceClose, BeginClose, CloseFails, ConnectTimeout, UserForceClose,
                    CleanAndDestroy, CleanAndThrow, CancelCall, callVars, WillReport
<1>4. ASSUME NEW q \in Req,
             \/ Renew(q) \/ InvokeSent(q) \/ InvokeRejected(q) \/ InvokeRefused(q)
      PROVE  FALSE
  BY <1>0, <1>4 DEF Renew, InvokeSent, InvokeRejected, InvokeRefused, Begin, WillReport
<1>5. ASSUME \/ \E q \in Req : Serve(q) \/ Message(q) \/ End(q) \/ StreamReset(q)
             \/ Up \/ SessionDown \/ Goaway \/ SessionDrained \/ HandleClose
             \/ Trip \/ Rest \/ UNCHANGED vars
      PROVE  FALSE
  <2>1. UNCHANGED phase
    BY <1>5 DEF Serve, Message, End, StreamReset, Up, SessionDown, Goaway,
                SessionDrained, HandleClose, Trip, Rest, callVars, vars
  <2> QED BY <2>1 DEF WillReport
<1>6. ASSUME NEW q \in Req, Resume(q) PROVE status' # "HALF_OPEN" \/ Rejects
  <2>1. ASSUME Answer(q) PROVE status' # "HALF_OPEN"
    BY <2>1, SMT DEF Answer, CB!Report, CB!vars
  <2>2. ASSUME Undecodable(q) PROVE Rejects
    <3>1. q \in DOMAIN result
      BY DEF IInv, ConnectionTypeOK
    <3> QED BY <2>2, <3>1 DEF Undecodable, Rejects, Rejected
  <2> QED BY <1>6, <2>1, <2>2 DEF Resume
<1> QED BY <1>2, <1>3, <1>4, <1>5, <1>6 DEF Next

LEMMA TestsBegin ==
  ASSUME IInv, Next, status # "HALF_OPEN", status' = "HALF_OPEN"
  PROVE  Rejects \/ \E r \in Req : WillReport(r)'
<1>1. ASSUME NEW r \in Req, InvokeSent(r) PROVE WillReport(r)'
  BY <1>1 DEF InvokeSent, WillReport, IInv, ConnectionTypeOK
<1>2. ASSUME NEW r \in Req, InvokeRejected(r) PROVE Rejects
  BY <1>2 DEF InvokeRejected, Begin, Rejects, Rejected, IInv, ConnectionTypeOK,
              StreamsTellTheTruth
<1>3. ASSUME NEW r \in Req, Resume(r) PROVE FALSE
  BY <1>3 DEF Resume, Answer, Undecodable, CB!Report, CB!vars, breakerVars
<1>4. ASSUME NEW r \in Req,
             \/ Timer(r) \/ Renew(r) \/ InvokeRefused(r) \/ Serve(r) \/ Headers(r)
             \/ Message(r) \/ Trailers(r) \/ End(r) \/ StreamReset(r) \/ StreamError(r)
             \/ StreamClose(r)
      PROVE  FALSE
  BY <1>4 DEF Timer, Renew, InvokeRefused, CB!Refuse, CB!vars, Serve, Headers, Message,
              Trailers, End, StreamReset, StreamEvent, StreamError, StreamClose, breakerVars
<1>5. ASSUME \/ Up \/ SessionDown \/ Goaway \/ SessionDrained \/ HandleClose
             \/ \E c \in Closers : BeginClose(c) \/ CloseFails(c) \/ ForceClose(c)
             \/ ConnectTimeout \/ UserForceClose \/ Trip \/ Rest
      PROVE  FALSE
  BY <1>5 DEF Up, SessionDown, Goaway, SessionDrained, HandleClose, BeginClose, CloseFails,
              ForceClose, ConnectTimeout, UserForceClose, Trip, CB!Trip, Rest, CB!Rest,
              breakerVars
<1> QED BY <1>1, <1>2, <1>3, <1>4, <1>5 DEF Next

(* While the circuit is HALF_OPEN some call has yet to report to it, until  *)
(* a call() throws: only that can leave the circuit in HALF_OPEN with       *)
(* nobody to end it.  Timeouts, cancelled streams, the end of the session   *)
(* and close() do not (index.js:118-153, 173-214).                           *)
THEOREM OnlyRejectionsLoseTests ==
  Spec => HalfOpenHasACall /\ [][HalfOpenHasACall => HalfOpenHasACall' \/ Rejects]_vars
<1>1. Init => HalfOpenHasACall
  BY DEF Init, CB!Init, HalfOpenHasACall
<1>2. IInv /\ [Next]_vars => [HalfOpenHasACall => HalfOpenHasACall' \/ Rejects]_vars
  <2> SUFFICES ASSUME IInv, Next, HalfOpenHasACall, status' = "HALF_OPEN"
               PROVE  Rejects \/ \E r \in Req : WillReport(r)'
    BY DEF HalfOpenHasACall
  <2>1. CASE status = "HALF_OPEN"
    <3>1. PICK r \in Req : WillReport(r)
      BY <2>1 DEF HalfOpenHasACall
    <3> QED BY <3>1, ReportsAreLost
  <2>2. CASE status # "HALF_OPEN"
    BY <2>2, TestsBegin
  <2> QED BY <2>1, <2>2
<1> QED BY <1>1, <1>2, Invariance, PTL DEF Spec
=============================================================================
