------------------------- MODULE RpcConnectionProofs -------------------------
(***************************************************************************)
(* What holds of a connection for every set of calls and of callers of     *)
(* close(), and whatever its breaker decides: the bookkeeping of pending   *)
(* calls, the promise of close(), and that both together implement         *)
(* RpcCalls.  None of that looks into the breaker.  The last part is about *)
(* the two together: the connection uses its breaker as CircuitBreaker     *)
(* says, so that what holds of a breaker holds of it, and neither HALF_OPEN *)
(* nor a close() waits for nothing.                                        *)
(***************************************************************************)
EXTENDS RpcConnection, TLAPS

(* The strengthening that makes CloseKeepsItsPromise inductive: the calls   *)
(* owed are pending, every close() that has not gone on yet awaits them     *)
(* all, and a socket destroyed without force was destroyed by a close(), so *)
(* that nothing new can be owed.                                            *)
OwedIsAwaited ==
  /\ \A r \in owed : phase[r] = "waiting"
  /\ \A c \in Closers : closer[c] = "waiting" => owed \subseteq waits[c]

DestroyedForAReason ==
  sock \in {"destroyed", "closed"} => forced \/ (owed = {} /\ closeBegun)

ClosedWithSocket == closed <=> sock = "closed"

IInv ==
  /\ ConnectionTypeOK
  /\ PendingIsTimed
  /\ OwedIsAwaited
  /\ DestroyedForAReason
  /\ ClosedWithSocket

LEMMA InitIInv == Init => IInv
<1> SUFFICES ASSUME Init PROVE IInv
  OBVIOUS
<1>1. ConnectionTypeOK
  BY DEF Init, ConnectionTypeOK, Phases, CB!Codes
<1>2. PendingIsTimed
  BY DEF Init, PendingIsTimed
<1>3. OwedIsAwaited /\ DestroyedForAReason /\ ClosedWithSocket
  BY DEF Init, OwedIsAwaited, DestroyedForAReason, ClosedWithSocket
<1> QED BY <1>1, <1>2, <1>3 DEF IInv

-----------------------------------------------------------------------------
(* Answering calls keeps the bookkeeping, whichever ids are answered: the   *)
(* facts every way to an answer shares.                                     *)
LEMMA HandleResponseKeeps ==
  ASSUME IInv, NEW ids, HandleResponse(ids)
  PROVE  /\ sentReqs' \subseteq Req /\ timers' \subseteq Req
         /\ phase' \in [Req -> Phases]
         /\ waits' \in [Closers -> SUBSET Req]
         /\ owed' \subseteq owed
         /\ PendingIsTimed'
         /\ \A r \in owed' : phase'[r] = "waiting"
         /\ \A c \in Closers : closer[c] = "waiting" => owed' \subseteq waits'[c]
<1> DEFINE known == ids \cap sentReqs
<1> USE DEF IInv, ConnectionTypeOK, HandleResponse
<1>1. /\ sentReqs' = sentReqs \ known
      /\ timers' = timers \ known
      /\ owed' = owed \ known
      /\ waits' = [c \in Closers |-> waits[c] \ known]
      /\ phase' = [r \in Req |->
                     IF r \notin known THEN phase[r]
                     ELSE IF phase[r] = "thrown" THEN "done" ELSE "resolved"]
  OBVIOUS
<1>2. phase' \in [Req -> Phases]
  BY <1>1 DEF Phases
<1>3. waits' \in [Closers -> SUBSET Req]
  BY <1>1
<1>4. PendingIsTimed'
  BY <1>1 DEF PendingIsTimed
<1>5. \A r \in owed' : phase'[r] = "waiting"
  BY <1>1 DEF OwedIsAwaited
<1>6. \A c \in Closers : closer[c] = "waiting" => owed' \subseteq waits'[c]
  BY <1>1 DEF OwedIsAwaited
<1> QED BY <1>1, <1>2, <1>3, <1>4, <1>5, <1>6

(* close() keeps the invariant, whoever calls it.                           *)
LEMMA BeginCloseKeeps ==
  ASSUME IInv, NEW c \in Closers, BeginClose(c), UNCHANGED <<sock, callVars>>
  PROVE  IInv'
<1> USE DEF BeginClose, callVars
<1>1. closeBegun'
  BY DEF closeBegun, IInv, ConnectionTypeOK
<1>2. ConnectionTypeOK'
  BY DEF IInv, ConnectionTypeOK
<1>3. PendingIsTimed' /\ ClosedWithSocket'
  BY DEF IInv, PendingIsTimed, ClosedWithSocket
<1>4. OwedIsAwaited'
  <2>1. owed' \subseteq sentReqs /\ \A r \in owed' : phase[r] = "waiting"
    BY DEF IInv, ConnectionTypeOK, OwedIsAwaited, PendingIsTimed
  <2>2. ASSUME NEW d \in Closers, closer'[d] = "waiting"
        PROVE  owed' \subseteq waits'[d]
    <3>1. CASE d = c
      BY <2>1, <3>1 DEF IInv, ConnectionTypeOK
    <3>2. CASE d # c
      <4>1. closer[d] = "waiting" /\ waits'[d] = waits[d]
        BY <2>2, <3>2 DEF IInv, ConnectionTypeOK
      <4>2. closeBegun
        BY <4>1 DEF closeBegun
      <4> QED BY <4>1, <4>2 DEF IInv, OwedIsAwaited
    <3> QED BY <3>1, <3>2
  <2> QED BY <2>1, <2>2 DEF OwedIsAwaited
<1>5. DestroyedForAReason'
  BY <1>1 DEF IInv, DestroyedForAReason
<1> QED BY <1>2, <1>3, <1>4, <1>5 DEF IInv

(* Destroying the socket by force keeps the invariant.                      *)
LEMMA DestroyKeeps ==
  ASSUME IInv, Destroy, sock # "closed"
  PROVE  IInv'
<1> USE DEF Destroy
<1>1. ConnectionTypeOK'
  BY DEF IInv, ConnectionTypeOK
<1>2. PendingIsTimed' /\ OwedIsAwaited' /\ DestroyedForAReason' /\ ClosedWithSocket'
  BY DEF IInv, PendingIsTimed, OwedIsAwaited, DestroyedForAReason, ClosedWithSocket
<1> QED BY <1>1, <1>2 DEF IInv

-----------------------------------------------------------------------------
LEMMA NextIInv == IInv /\ [Next]_vars => IInv'
<1> SUFFICES ASSUME IInv, [Next]_vars PROVE IInv'
  OBVIOUS
<1>1. ASSUME NEW r \in Req, Response(r) PROVE IInv'
  <2>1. HandleResponse({r})
    BY <1>1 DEF Response
  <2>2. ConnectionTypeOK'
    BY <1>1, <2>1, HandleResponseKeeps
       DEF Response, breakerVars, socketVars, IInv, ConnectionTypeOK
  <2>3. DestroyedForAReason'
    BY <1>1, <2>1, HandleResponseKeeps
       DEF Response, socketVars, IInv, DestroyedForAReason, closeBegun
  <2> QED BY <1>1, <2>1, <2>2, <2>3, HandleResponseKeeps
          DEF Response, socketVars, IInv, OwedIsAwaited, ClosedWithSocket
<1>2. ASSUME NEW r \in Req, Timeout(r) PROVE IInv'
  <2>1. HandleResponse({r})
    BY <1>2 DEF Timeout
  <2>2. resultCode' \in [Req -> CB!Codes]
    BY <1>2 DEF Timeout, IInv, ConnectionTypeOK, CB!Codes
  <2>3. ConnectionTypeOK'
    BY <1>2, <2>1, <2>2, HandleResponseKeeps
       DEF Timeout, socketVars, IInv, ConnectionTypeOK
  <2>4. DestroyedForAReason'
    BY <1>2, <2>1, HandleResponseKeeps
       DEF Timeout, socketVars, IInv, DestroyedForAReason, closeBegun
  <2> QED BY <1>2, <2>1, <2>3, <2>4, HandleResponseKeeps
          DEF Timeout, socketVars, IInv, OwedIsAwaited, ClosedWithSocket
<1>3. ASSUME NEW r \in Req, ErrorTick(r) PROVE IInv'
  <2>1. HandleResponse({r})
    BY <1>3 DEF ErrorTick
  <2>2. ConnectionTypeOK'
    BY <1>3, <2>1, HandleResponseKeeps
       DEF ErrorTick, socketVars, IInv, ConnectionTypeOK
  <2>3. DestroyedForAReason'
    BY <1>3, <2>1, HandleResponseKeeps
       DEF ErrorTick, socketVars, IInv, DestroyedForAReason, closeBegun
  <2> QED BY <1>3, <2>1, <2>2, <2>3, HandleResponseKeeps
          DEF ErrorTick, socketVars, IInv, OwedIsAwaited, ClosedWithSocket
<1>4. ASSUME NEW r \in Req, Resume(r) PROVE IInv'
  <2>1. ConnectionTypeOK'
    BY <1>4 DEF Resume, socketVars, closeVars, IInv, ConnectionTypeOK, Phases, CB!Codes
  <2>2. PendingIsTimed'
    BY <1>4 DEF Resume, IInv, ConnectionTypeOK, PendingIsTimed
  <2> QED BY <1>4, <2>1, <2>2
          DEF Resume, socketVars, closeVars, IInv, ConnectionTypeOK, OwedIsAwaited,
              DestroyedForAReason, ClosedWithSocket, closeBegun
<1>5. ASSUME NEW r \in Req, Invoke(r) PROVE IInv'
  <2>1. PICK where \in {"waiting", "thrown"} : Enter(r, where)
    BY <1>5 DEF Invoke, InvokeSent, InvokeUnsent, InvokeRefused, InvokeThrows
  <2>2. /\ resultCode' \in [Req -> CB!Codes]
        /\ queued' \subseteq Req
        /\ wire' \subseteq Req
    BY <1>5 DEF Invoke, InvokeSent, InvokeUnsent, InvokeRefused, InvokeThrows,
                FailSoon, IInv, ConnectionTypeOK, CB!Codes
  <2>3. ConnectionTypeOK'
    BY <2>1, <2>2 DEF Enter, socketVars, closeVars, IInv, ConnectionTypeOK, Phases
  <2>4. PendingIsTimed'
    BY <2>1 DEF Enter, IInv, ConnectionTypeOK, PendingIsTimed
  <2> QED BY <2>1, <2>3, <2>4
          DEF Enter, socketVars, closeVars, IInv, ConnectionTypeOK, OwedIsAwaited,
              DestroyedForAReason, ClosedWithSocket, closeBegun
<1>6. ASSUME NEW r \in Req, Renew(r) PROVE IInv'
  <2>1. ConnectionTypeOK'
    BY <1>6 DEF Renew, socketVars, closeVars, IInv, ConnectionTypeOK, Phases, CB!Codes
  <2>2. PendingIsTimed'
    BY <1>6 DEF Renew, IInv, ConnectionTypeOK, PendingIsTimed
  <2> QED BY <1>6, <2>1, <2>2
          DEF Renew, socketVars, closeVars, IInv, ConnectionTypeOK, OwedIsAwaited,
              DestroyedForAReason, ClosedWithSocket, closeBegun
<1>7. ASSUME NEW c \in Closers, Close(c) PROVE IInv'
  BY <1>7, BeginCloseKeeps DEF Close, IInv, ConnectionTypeOK
<1>8. CASE ConnectTimeout
  BY <1>8, BeginCloseKeeps DEF ConnectTimeout, Closers
<1>9. ASSUME NEW c \in Closers, ForceClose(c) PROVE IInv'
  <2>1. ConnectionTypeOK'
    BY <1>9 DEF ForceClose, IInv, ConnectionTypeOK
  <2>2. closeBegun /\ closeBegun' /\ owed = {}
    BY <1>9 DEF ForceClose, closeBegun, IInv, ConnectionTypeOK, OwedIsAwaited
  <2> QED BY <1>9, <2>1, <2>2
          DEF ForceClose, IInv, ConnectionTypeOK, PendingIsTimed, OwedIsAwaited,
              DestroyedForAReason, ClosedWithSocket
<1>10. CASE UserForceClose
  BY <1>10, DestroyKeeps DEF UserForceClose, IInv, ConnectionTypeOK
<1>11. CASE ConnectError \/ SocketDown
  BY <1>11, DestroyKeeps DEF ConnectError, SocketDown, IInv, ConnectionTypeOK
<1>12. CASE Connect
  BY <1>12 DEF Connect, callVars, closeVars, IInv, ConnectionTypeOK, PendingIsTimed,
               OwedIsAwaited, DestroyedForAReason, ClosedWithSocket, closeBegun
<1>13. CASE HandleClose
  <2>1. HandleResponse(sentReqs)
    BY <1>13 DEF HandleClose
  <2>2. ConnectionTypeOK'
    BY <1>13, <2>1, HandleResponseKeeps DEF HandleClose, IInv, ConnectionTypeOK
  <2>3. OwedIsAwaited'
    BY <1>13, <2>1, HandleResponseKeeps
       DEF HandleClose, IInv, ConnectionTypeOK, OwedIsAwaited
  <2>4. DestroyedForAReason'
    <3>1. closeBegun => closeBegun'
      BY <1>13 DEF HandleClose, closeBegun, IInv, ConnectionTypeOK
    <3> QED BY <1>13, <2>1, <3>1, HandleResponseKeeps
            DEF HandleClose, IInv, DestroyedForAReason
  <2> QED BY <1>13, <2>1, <2>2, <2>3, <2>4, HandleResponseKeeps
          DEF HandleClose, IInv, ClosedWithSocket
<1>14. CASE Tick \/ Elapse \/ Configure \/ ResetCounter \/ UNCHANGED vars
  <2>1. UNCHANGED <<socketVars, callVars, closeVars>>
    BY <1>14 DEF Tick, Elapse, Configure, ResetCounter, BreakerOnly, vars
  <2> QED BY <2>1 DEF socketVars, callVars, closeVars, IInv, ConnectionTypeOK,
                      PendingIsTimed, OwedIsAwaited, DestroyedForAReason,
                      ClosedWithSocket, closeBegun
<1> QED BY <1>1, <1>2, <1>3, <1>4, <1>5, <1>6, <1>7, <1>8, <1>9, <1>10, <1>11,
           <1>12, <1>13, <1>14 DEF Next

LEMMA Invariance == Spec => []IInv
BY InitIInv, NextIInv, PTL DEF Spec

(* An unresolved promise always has its entry in _sentReqs and its timer,   *)
(* and neither outlives it.                                                 *)
THEOREM PendingCallsAreTimed == Spec => []PendingIsTimed
<1>1. IInv => PendingIsTimed
  BY DEF IInv
<1> QED BY <1>1, Invariance, PTL

(* close() never destroys the socket under a call that was pending at the   *)
(* first close(), however many calls and close()s follow.                   *)
THEOREM CloseWaitsForPendingCalls == Spec => []CloseKeepsItsPromise
<1>1. IInv => CloseKeepsItsPromise
  BY DEF IInv, DestroyedForAReason, CloseKeepsItsPromise
<1> QED BY <1>1, Invariance, PTL

-----------------------------------------------------------------------------
(* Answering a set of pending calls, as the abstract specification sees it. *)
LEMMA AnswerSeen ==
  ASSUME IInv, NEW ids, HandleResponse(ids)
  PROVE  callSeen' = [r \in Req |->
                        IF r \in ids /\ callSeen[r] = "pending"
                        THEN "answered" ELSE callSeen[r]]
<1>1. \A r \in Req : /\ phase[r] \in Phases
                     /\ r \in sentReqs <=> phase[r] \in {"waiting", "thrown"}
  BY DEF IInv, ConnectionTypeOK, PendingIsTimed
<1> QED BY <1>1 DEF HandleResponse, callSeen, Phases

LEMMA OneAnswerImplements ==
  ASSUME IInv, NEW r \in Req, HandleResponse({r}),
         UNCHANGED <<closed, closer, forced>>
  PROVE  [Calls!Next]_(Calls!vars)
<1>1. callSeen' = [q \in Req |-> IF q \in {r} /\ callSeen[q] = "pending"
                                THEN "answered" ELSE callSeen[q]]
  BY AnswerSeen
<1>2. UNCHANGED <<linkSeen, forced>>
  BY DEF linkSeen, closeBegun
<1>3. owed' = owed \ ({r} \cap sentReqs)
  BY DEF HandleResponse
<1>4. CASE phase[r] = "waiting"
  <2>1. r \in sentReqs /\ callSeen[r] = "pending"
    BY <1>4 DEF IInv, PendingIsTimed, callSeen
  <2>2. callSeen' = [callSeen EXCEPT ![r] = "answered"]
    BY <1>1, <2>1 DEF callSeen
  <2>3. Calls!Answer(r)
    BY <1>2, <1>3, <2>1, <2>2 DEF Calls!Answer
  <2> QED BY <2>3 DEF Calls!Next
<1>5. CASE phase[r] # "waiting"
  <2>1. callSeen[r] # "pending" /\ r \notin owed
    BY <1>5 DEF callSeen, IInv, ConnectionTypeOK, OwedIsAwaited
  <2>2. callSeen' = callSeen
    BY <1>1, <2>1 DEF callSeen
  <2> QED BY <1>2, <1>3, <2>1, <2>2 DEF Calls!vars
<1> QED BY <1>4, <1>5

LEMMA BeginCloseImplements ==
  ASSUME IInv, NEW c \in Closers, BeginClose(c), UNCHANGED callVars
  PROVE  [Calls!Next]_(Calls!vars)
<1>1. closeBegun' /\ UNCHANGED <<callSeen, closed, forced>>
  BY DEF BeginClose, closeBegun, callVars, callSeen, IInv, ConnectionTypeOK
<1>2. CASE closeBegun \/ closed
  BY <1>1, <1>2 DEF BeginClose, Calls!vars, linkSeen
<1>3. CASE ~ closeBegun /\ ~ closed
  <2>1. linkSeen = "up" /\ linkSeen' = "draining"
    BY <1>1, <1>3 DEF linkSeen
  <2>2. owed' = Calls!Pending
    BY <1>3 DEF BeginClose, Calls!Pending, callSeen, IInv, PendingIsTimed
  <2>3. Calls!Drain
    BY <1>1, <2>1, <2>2 DEF Calls!Drain
  <2> QED BY <2>3 DEF Calls!Next
<1> QED BY <1>2, <1>3

LEMMA DestroyImplements ==
  ASSUME IInv, Destroy, sock # "closed"
  PROVE  [Calls!Next]_(Calls!vars)
<1>1. UNCHANGED <<callSeen, linkSeen, owed>> /\ linkSeen # "down" /\ forced'
  BY DEF Destroy, callSeen, linkSeen, closeBegun, IInv, ClosedWithSocket
<1>2. forced' = TRUE
  BY DEF Destroy
<1>3. callSeen' = [r \in Req |-> IF r \in {} THEN "answered" ELSE callSeen[r]]
  BY <1>1 DEF callSeen
<1>4. Calls!Break({})
  BY <1>1, <1>2, <1>3 DEF Calls!Break, Calls!Cancel
<1>5. {} \in SUBSET Calls!Pending
  OBVIOUS
<1> QED BY <1>4, <1>5 DEF Calls!Next

LEMMA StepImplements == IInv /\ [Next]_vars => [Calls!Next]_(Calls!vars)
<1> SUFFICES ASSUME IInv, [Next]_vars PROVE [Calls!Next]_(Calls!vars)
  OBVIOUS
<1>1. ASSUME NEW r \in Req, Response(r) \/ Timeout(r) \/ ErrorTick(r)
      PROVE  [Calls!Next]_(Calls!vars)
  BY <1>1, OneAnswerImplements DEF Response, Timeout, ErrorTick, socketVars
<1>2. ASSUME NEW r \in Req, Resume(r) PROVE [Calls!Next]_(Calls!vars)
  <2>1. callSeen' = callSeen
    BY <1>2 DEF Resume, callSeen, IInv, ConnectionTypeOK
  <2> QED BY <1>2, <2>1 DEF Resume, Calls!vars, linkSeen, closeBegun, socketVars, closeVars
<1>3. ASSUME NEW r \in Req, NEW where \in {"waiting", "thrown"}, Enter(r, where)
      PROVE  [Calls!Next]_(Calls!vars)
  <2>1. UNCHANGED <<linkSeen, owed, forced>> /\ callSeen[r] = "idle"
    BY <1>3 DEF Enter, linkSeen, closeBegun, socketVars, closeVars, callSeen
  <2>2. callSeen' = [callSeen EXCEPT ![r] = IF where = "waiting" THEN "pending"
                                            ELSE "answered"]
    BY <1>3 DEF Enter, callSeen, IInv, ConnectionTypeOK
  <2>3. Calls!Issue(r) \/ Calls!Reject(r)
    BY <2>1, <2>2 DEF Calls!Issue, Calls!Reject
  <2> QED BY <2>3 DEF Calls!Next
<1>4. ASSUME NEW r \in Req, Invoke(r) PROVE [Calls!Next]_(Calls!vars)
  BY <1>3, <1>4 DEF Invoke, InvokeSent, InvokeUnsent, InvokeRefused, InvokeThrows
<1>5. ASSUME NEW r \in Req, Renew(r) PROVE [Calls!Next]_(Calls!vars)
  <2>1. callSeen[r] = "answered" /\ callSeen' = [callSeen EXCEPT ![r] = "idle"]
    BY <1>5 DEF Renew, callSeen, IInv, ConnectionTypeOK
  <2>2. Calls!Renew(r)
    BY <1>5, <2>1 DEF Renew, Calls!Renew, linkSeen, closeBegun, socketVars, closeVars
  <2> QED BY <2>2 DEF Calls!Next
<1>6. ASSUME NEW c \in Closers, Close(c) PROVE [Calls!Next]_(Calls!vars)
  BY <1>6, BeginCloseImplements DEF Close
<1>7. CASE ConnectTimeout
  BY <1>7, BeginCloseImplements DEF ConnectTimeout, Closers
<1>8. ASSUME NEW c \in Closers, ForceClose(c) PROVE [Calls!Next]_(Calls!vars)
  <2>1. closeBegun /\ closeBegun'
    BY <1>8 DEF ForceClose, closeBegun, IInv, ConnectionTypeOK
  <2> QED BY <1>8, <2>1 DEF ForceClose, Calls!vars, callSeen, linkSeen
<1>9. CASE UserForceClose \/ ConnectError \/ SocketDown
  BY <1>9, DestroyImplements DEF UserForceClose, ConnectError, SocketDown
<1>10. CASE Connect
  BY <1>10 DEF Connect, Calls!vars, callSeen, linkSeen, closeBegun, callVars, closeVars
<1>11. CASE HandleClose
  <2>1. linkSeen # "down" /\ linkSeen' = "down"
    BY <1>11 DEF HandleClose, linkSeen, IInv, ClosedWithSocket
  <2>2. forced \/ (linkSeen = "draining" /\ owed = {})
    BY <1>11, <2>1 DEF HandleClose, linkSeen, IInv, DestroyedForAReason
  <2>3. callSeen' = [r \in Req |-> IF r \in Calls!Pending THEN "answered" ELSE callSeen[r]]
    <3>1. \A r \in Req : callSeen[r] = "pending" => r \in sentReqs
      BY DEF callSeen, IInv, PendingIsTimed
    <3> QED BY <1>11, <3>1, AnswerSeen DEF HandleClose, Calls!Pending
  <2>4. owed' = {} /\ UNCHANGED forced
    BY <1>11 DEF HandleClose, HandleResponse, IInv, ConnectionTypeOK, OwedIsAwaited,
                 PendingIsTimed
  <2>5. Calls!GoDown
    BY <2>1, <2>2, <2>3, <2>4 DEF Calls!GoDown
  <2> QED BY <2>5 DEF Calls!Next
<1>12. CASE Tick \/ Elapse \/ Configure \/ ResetCounter \/ UNCHANGED vars
  <2>1. UNCHANGED <<socketVars, callVars, closeVars>>
    BY <1>12 DEF Tick, Elapse, Configure, ResetCounter, BreakerOnly, vars
  <2> QED BY <2>1 DEF socketVars, callVars, closeVars, Calls!vars, callSeen,
                      linkSeen, closeBegun
<1> QED BY <1>1, <1>2, <1>4, <1>5, <1>6, <1>7, <1>8, <1>9, <1>10, <1>11, <1>12
        DEF Next

(* A connection implements RpcCalls: its users see every call answered at   *)
(* most once, and close() drop none of the calls it found pending.          *)
THEOREM ConnectionImplementsCalls == Spec => ImplementsCalls
<1>1. Init => Calls!Init
  BY DEF Init, Calls!Init, callSeen, linkSeen, closeBegun
<1> QED BY <1>1, Invariance, StepImplements, PTL DEF Spec, Calls!Spec, ImplementsCalls

-----------------------------------------------------------------------------
(* The breaker                                                              *)

LEMMA StepUsesBreaker == IInv /\ [Next]_vars => [CB!Next]_(CB!breakerVars)
<1> SUFFICES ASSUME IInv, [Next]_vars PROVE CB!Next \/ UNCHANGED breakerVars
  BY DEF CB!breakerVars, breakerVars
<1>1. ASSUME NEW r \in Req, Resume(r) PROVE CB!Next
  <2>1. PICK rt \in RTs : CB!Update(resultCode[r], rt)
    BY <1>1 DEF Resume
  <2>2. resultCode[r] \in CB!Codes
    BY DEF IInv, ConnectionTypeOK
  <2> QED BY <2>1, <2>2 DEF CB!Next
<1>2. ASSUME NEW r \in Req, Invoke(r) PROVE CB!Next
  BY <1>2 DEF Invoke, InvokeSent, InvokeUnsent, InvokeRefused, InvokeThrows, CB!Next
<1>3. CASE HandleClose \/ Tick \/ Elapse \/ Configure \/ ResetCounter
  BY <1>3 DEF HandleClose, Tick, Elapse, Configure, ResetCounter, CB!Next
<1>4. ASSUME NEW r \in Req, Response(r) \/ Timeout(r) \/ ErrorTick(r) \/ Renew(r)
      PROVE  UNCHANGED breakerVars
  BY <1>4 DEF Response, Timeout, ErrorTick, Renew
<1>5. ASSUME \/ \E c \in Closers : Close(c) \/ ForceClose(c)
             \/ ConnectTimeout \/ Connect \/ ConnectError \/ SocketDown \/ UserForceClose
      PROVE  UNCHANGED breakerVars
  BY <1>5 DEF Close, ForceClose, ConnectTimeout, Connect, ConnectError, SocketDown,
              UserForceClose, Destroy
<1>6. CASE UNCHANGED vars
  BY <1>6 DEF vars
<1> QED BY <1>1, <1>2, <1>3, <1>4, <1>5, <1>6 DEF Next

(* The connection drives its breaker only by the operations it offers:      *)
(* what holds of every breaker holds of that of a connection (rpc.js).      *)
THEOREM BreakerIsUsedAsOffered == Spec => CB!Spec
<1>1. Init => CB!Init
  BY DEF Init
<1> QED BY <1>1, StepUsesBreaker, Invariance, PTL DEF Spec, CB!Spec

(* What a refusal prints: a circuit that is not closed has counts.          *)
BreakerAgrees == CB!StatusAgreesWithTime /\ CB!OpenHasCounts

LEMMA BreakerAgreesStep == BreakerAgrees /\ [CB!Next]_(CB!breakerVars) => BreakerAgrees'
<1> SUFFICES ASSUME BreakerAgrees, [CB!Next]_(CB!breakerVars) PROVE BreakerAgrees'
  OBVIOUS
<1> USE DEF BreakerAgrees, CB!StatusAgreesWithTime, CB!OpenHasCounts
<1>1. CASE CB!Tick
  <2>1. CB!NoHealth # hc'
    <3>1. DOMAIN hc' = {"total", "error", "rt"} /\ DOMAIN CB!NoHealth = {}
      BY <1>1 DEF CB!Tick, CB!Reduce, CB!NoHealth
    <3> QED BY <3>1
  <2> QED BY <1>1, <2>1 DEF CB!Tick, CB!stateVars
<1>2. ASSUME NEW code \in CB!Codes, NEW rt \in RTs, CB!Update(code, rt) PROVE BreakerAgrees'
  BY <1>2 DEF CB!Update, CB!MarkSuccess, CB!MarkNonSuccess, CB!stateVars
<1>3. CASE CB!Elapse
  BY <1>3, BreakerAssumption DEF CB!Elapse
<1>4. CASE CB!AdmitTest
  BY <1>4 DEF CB!AdmitTest
<1>5. CASE \/ CB!Admit \/ CB!Refuse \/ CB!Reset \/ CB!Close \/ CB!Configure
           \/ UNCHANGED CB!breakerVars
  BY <1>5 DEF CB!Admit, CB!Refuse, CB!Reset, CB!Close, CB!Configure, CB!breakerVars
<1> QED BY <1>1, <1>2, <1>3, <1>4, <1>5 DEF CB!Next

(* Refusing a call throws, and leaves its entry behind, only if the circuit *)
(* is forced open before the first window has ended (rpc.js:182-187).       *)
THEOREM RefusalsThrowOnlyWhenForced ==
  Spec => [][\A r \in Req : phase[r] = "idle" /\ phase'[r] = "thrown" => "open" \in force]_vars
<1>1. Init => BreakerAgrees
  BY DEF Init, CB!Init, BreakerAgrees, CB!StatusAgreesWithTime, CB!OpenHasCounts
<1>2. IInv /\ BreakerAgrees /\ [Next]_vars
        => [\A r \in Req : phase[r] = "idle" /\ phase'[r] = "thrown" => "open" \in force]_vars
  <2> SUFFICES ASSUME IInv, BreakerAgrees, [Next]_vars,
                      NEW r \in Req, phase[r] = "idle", phase'[r] = "thrown"
               PROVE  "open" \in force
    OBVIOUS
  <2>1. PICK q \in Req : InvokeThrows(q)
    <3> USE DEF IInv, ConnectionTypeOK
    <3>1. ASSUME NEW q \in Req, Invoke(q) PROVE InvokeThrows(q)
      BY <3>1 DEF Invoke, InvokeSent, InvokeUnsent, InvokeRefused, Enter
    <3>2. ASSUME NEW ids, HandleResponse(ids) PROVE FALSE
      BY <3>2 DEF HandleResponse
    <3>3. ASSUME NEW q \in Req, Response(q) \/ Timeout(q) \/ ErrorTick(q) PROVE FALSE
      BY <3>2, <3>3 DEF Response, Timeout, ErrorTick
    <3>4. ASSUME NEW q \in Req, Resume(q) \/ Renew(q) PROVE FALSE
      BY <3>4 DEF Resume, Renew
    <3>5. ~ HandleClose
      BY <3>2 DEF HandleClose
    <3>6. ~ UNCHANGED phase
      OBVIOUS
    <3> QED BY <3>1, <3>3, <3>4, <3>5, <3>6
            DEF Next, vars, callVars, Close, ForceClose, ConnectTimeout, Connect,
                ConnectError, SocketDown, UserForceClose, Destroy, BreakerOnly, Tick,
                Elapse, Configure, ResetCounter
  <2> QED BY <2>1 DEF InvokeThrows, CB!Refuse, BreakerAgrees, CB!OpenHasCounts
<1> QED BY <1>1, <1>2, BreakerAgreesStep, StepUsesBreaker, Invariance, PTL DEF Spec

(* The types of the breaker, by what the operations do to the window.       *)
LEMMA WindowKeepsType ==
  ASSUME CB!CounterTypeOK, UNCHANGED isClosed,
         \/ CB!Clear \/ CB!Roll
         \/ \E code \in CB!Codes, rt \in RTs : CB!Record(code, rt)
  PROVE  CB!CounterTypeOK'
<1> USE BreakerAssumption
<1>1. CASE CB!Clear
  BY <1>1 DEF CB!CounterTypeOK, CB!Clear, CB!EmptyWindow, CB!EmptyBucket, CB!Bucket
<1>2. CASE CB!Roll
  <2>1. buckets \in [1..NumBuckets -> CB!Bucket]
    BY <1>2 DEF CB!CounterTypeOK, CB!Roll
  <2>2. CB!Shifted(buckets) \in [1..NumBuckets -> CB!Bucket]
    BY <2>1 DEF CB!Shifted, CB!EmptyBucket, CB!Bucket
  <2> QED BY <1>2, <2>2 DEF CB!CounterTypeOK, CB!Roll
<1>3. ASSUME NEW code \in CB!Codes, NEW rt \in RTs, CB!Record(code, rt)
      PROVE  CB!CounterTypeOK'
  <2>1. CASE isClosed
    BY <1>3, <2>1 DEF CB!CounterTypeOK, CB!Record
  <2>2. CASE ~ isClosed
    <3>1. buckets \in [1..NumBuckets -> CB!Bucket] /\ NumBuckets \in 1..NumBuckets
      BY <2>2 DEF CB!CounterTypeOK
    <3>2. CB!Added(buckets[NumBuckets], code, rt) \in CB!Bucket
      BY <3>1 DEF CB!Added, CB!Bucket
    <3>3. buckets' \in [1..NumBuckets -> CB!Bucket]
      BY <1>3, <2>2, <3>1, <3>2 DEF CB!Record
    <3> QED BY <3>3 DEF CB!CounterTypeOK
  <2> QED BY <2>1, <2>2
<1> QED BY <1>1, <1>2, <1>3

LEMMA BreakerKeepsType == CB!TypeOK /\ [CB!Next]_(CB!breakerVars) => CB!TypeOK'
<1> SUFFICES ASSUME CB!TypeOK, [CB!Next]_(CB!breakerVars) PROVE CB!TypeOK'
  OBVIOUS
<1> USE BreakerAssumption
<1>1. CASE CB!Admit \/ CB!AdmitTest \/ CB!Refuse \/ UNCHANGED CB!breakerVars
  BY <1>1 DEF CB!Admit, CB!AdmitTest, CB!Refuse, CB!breakerVars, CB!counterVars,
              CB!TypeOK, CB!CounterTypeOK, CB!Statuses
<1>2. ASSUME NEW code \in CB!Codes, NEW rt \in RTs, CB!Update(code, rt)
      PROVE  CB!TypeOK'
  <2>1. UNCHANGED isClosed /\ (CB!Clear \/ CB!Record("00", rt) \/ CB!Record(code, rt))
    BY <1>2 DEF CB!Update, CB!MarkSuccess, CB!MarkNonSuccess
  <2>2. "00" \in CB!Codes
    BY DEF CB!Codes
  <2>3. CB!CounterTypeOK'
    BY <2>1, <2>2, WindowKeepsType DEF CB!TypeOK
  <2>4. (status \in CB!Statuses /\ openedFor \in -1..(SleepWindow + 1))'
    BY <1>2 DEF CB!Update, CB!MarkSuccess, CB!MarkNonSuccess, CB!stateVars, CB!TypeOK,
                CB!Statuses
  <2> QED BY <1>2, <2>3, <2>4 DEF CB!Update, CB!TypeOK
<1>3. CASE CB!Tick
  <2>1. CB!CounterTypeOK'
    BY <1>3, WindowKeepsType DEF CB!Tick, CB!TypeOK
  <2>2. DOMAIN hc' = {"total", "error", "rt"}
    BY <1>3 DEF CB!Tick, CB!Reduce
  <2>3. (status \in CB!Statuses /\ openedFor \in -1..(SleepWindow + 1))'
    BY <1>3 DEF CB!Tick, CB!stateVars, CB!TypeOK, CB!Statuses
  <2> QED BY <1>3, <2>1, <2>2, <2>3 DEF CB!Tick, CB!TypeOK
<1>4. CASE CB!Reset
  BY <1>4, WindowKeepsType DEF CB!Reset, CB!TypeOK
<1>5. CASE CB!Close
  BY <1>5 DEF CB!Close, CB!CloseCounter, CB!TypeOK, CB!CounterTypeOK
<1>6. CASE CB!Elapse \/ CB!Configure
  BY <1>6 DEF CB!Elapse, CB!Configure, CB!counterVars, CB!TypeOK, CB!CounterTypeOK
<1> QED BY <1>1, <1>2, <1>3, <1>4, <1>5, <1>6 DEF CB!Next

(* Every variable of the connection and of its breaker keeps its type.      *)
THEOREM TypeCorrect == Spec => []TypeOK
<1>1. Init => CB!TypeOK
  <2> SUFFICES ASSUME Init PROVE CB!TypeOK
    OBVIOUS
  <2>1. CB!CounterTypeOK
    <3>1. CB!EmptyWindow \in [1..NumBuckets -> CB!Bucket]
      BY DEF CB!EmptyWindow, CB!EmptyBucket, CB!Bucket
    <3> QED BY <3>1, Zenon DEF Init, CB!Init, CB!CounterInit, CB!CounterTypeOK
  <2> QED BY <2>1, BreakerAssumption DEF Init, CB!Init, CB!TypeOK, CB!Statuses
<1>2. IInv /\ CB!TypeOK => TypeOK
  BY DEF IInv, TypeOK
<1> QED BY <1>1, <1>2, BreakerKeepsType, StepUsesBreaker, Invariance, PTL DEF Spec

-----------------------------------------------------------------------------
(* The circuit of a connection                                              *)

TestIsRested == status = "HALF_OPEN" => CB!isAfterSleepWindow

LEMMA TestIsRestedStep ==
  CB!TypeOK /\ TestIsRested /\ [CB!Next]_(CB!breakerVars) => TestIsRested'
<1> SUFFICES ASSUME CB!TypeOK, TestIsRested, [CB!Next]_(CB!breakerVars)
             PROVE  TestIsRested'
  OBVIOUS
<1> USE BreakerAssumption DEF TestIsRested, CB!isAfterSleepWindow
<1>1. CASE CB!Admit \/ CB!AdmitTest \/ CB!Refuse \/ CB!Reset \/ CB!Close \/ CB!Configure
  BY <1>1 DEF CB!Admit, CB!AdmitTest, CB!Refuse, CB!Reset, CB!Close, CB!Configure,
              CB!breakerVars
<1>2. ASSUME NEW code \in CB!Codes, NEW rt \in RTs, CB!Update(code, rt)
      PROVE  TestIsRested'
  BY <1>2 DEF CB!Update, CB!MarkSuccess, CB!MarkNonSuccess, CB!stateVars
<1>3. CASE CB!Tick
  BY <1>3 DEF CB!Tick, CB!stateVars
<1>4. CASE CB!Elapse
  BY <1>4 DEF CB!Elapse, CB!TypeOK
<1>5. CASE UNCHANGED CB!breakerVars
  BY <1>5 DEF CB!breakerVars
<1> QED BY <1>1, <1>2, <1>3, <1>4, <1>5 DEF CB!Next

LEMMA CircuitStepImplements ==
  CB!TypeOK /\ BreakerAgrees /\ TestIsRested /\ [CB!Next]_(CB!breakerVars)
    => [CB!Abstract!Next]_(CB!Abstract!vars)
<1> SUFFICES ASSUME CB!TypeOK, BreakerAgrees, TestIsRested, [CB!Next]_(CB!breakerVars)
             PROVE  [CB!Abstract!Next]_(CB!Abstract!vars)
  OBVIOUS
<1> USE BreakerAssumption DEF CB!Abstract!vars, CB!isAfterSleepWindow
<1>0. /\ status \in {"CLOSED", "OPEN", "HALF_OPEN"}
      /\ openedFor \in -1..(SleepWindow + 1)
      /\ (status = "CLOSED") <=> (openedFor = -1)
  BY DEF CB!TypeOK, CB!Statuses, BreakerAgrees, CB!StatusAgreesWithTime
<1>1. CASE CB!Admit \/ CB!Refuse \/ CB!Reset \/ CB!Close \/ CB!Configure
           \/ UNCHANGED CB!breakerVars
  BY <1>1 DEF CB!Admit, CB!Refuse, CB!Reset, CB!Close, CB!Configure, CB!breakerVars
<1>2. CASE CB!AdmitTest
  <2>1. CB!Abstract!AdmitTest
    BY <1>0, <1>2 DEF CB!AdmitTest, CB!Abstract!AdmitTest
  <2> QED BY <2>1 DEF CB!Abstract!Next
<1>3. ASSUME NEW code \in CB!Codes, NEW rt \in RTs, CB!Update(code, rt)
      PROVE  [CB!Abstract!Next]_(CB!Abstract!vars)
  <2>1. CASE status # "HALF_OPEN"
    BY <1>3, <2>1 DEF CB!Update, CB!MarkSuccess, CB!MarkNonSuccess, CB!stateVars
  <2>2. CASE status = "HALF_OPEN" /\ code = "00"
    <3>1. CB!Abstract!Report("00")
      BY <1>3, <2>2 DEF CB!Update, CB!MarkSuccess, CB!Abstract!Report
    <3> QED BY <3>1 DEF CB!Abstract!Next
  <2>3. CASE status = "HALF_OPEN" /\ code # "00"
    <3>1. CB!Abstract!Report("03")
      BY <1>3, <2>3 DEF CB!Update, CB!MarkNonSuccess, CB!Abstract!Report
    <3> QED BY <3>1 DEF CB!Abstract!Next
  <2> QED BY <2>1, <2>2, <2>3
<1>4. CASE CB!Tick
  <2>1. CASE status' # status
    <3>1. CB!Abstract!Trip
      BY <1>0, <1>4, <2>1 DEF CB!Tick, CB!stateVars, CB!Abstract!Trip
    <3> QED BY <3>1 DEF CB!Abstract!Next
  <2>2. CASE status' = status
    BY <1>0, <1>4, <2>2 DEF CB!Tick, CB!stateVars
  <2> QED BY <2>1, <2>2
<1>5. CASE CB!Elapse
  <2>1. CASE openedFor' <= SleepWindow
    BY <1>0, <1>5, <2>1 DEF CB!Elapse
  <2>2. CASE openedFor' > SleepWindow /\ status = "OPEN"
    <3>1. CB!Abstract!Rest
      BY <1>0, <1>5, <2>2 DEF CB!Elapse, CB!Abstract!Rest
    <3> QED BY <3>1 DEF CB!Abstract!Next
  <2>3. CASE openedFor' > SleepWindow /\ status = "HALF_OPEN"
    BY <1>0, <1>5, <2>3 DEF CB!Elapse, TestIsRested
  <2> QED BY <1>0, <1>5, <2>1, <2>2, <2>3 DEF CB!Elapse
<1> QED BY <1>1, <1>2, <1>3, <1>4, <1>5 DEF CB!Next

(* The circuit of a connection is what Breaker promises, with the calls,    *)
(* timeouts and closes of rpc.js around it: one call is let through after   *)
(* each whole sleep window, and only a result ends its test.                *)
THEOREM ConnectionImplementsBreaker == Spec => CB!ImplementsBreaker
<1>1. Init => CB!Abstract!Init /\ BreakerAgrees /\ TestIsRested
  <2> SUFFICES ASSUME Init PROVE CB!Abstract!Init /\ BreakerAgrees /\ TestIsRested
    OBVIOUS
  <2>1. status = "CLOSED" /\ openedFor = -1
    BY DEF Init, CB!Init
  <2>2. ~ (-1 > SleepWindow)
    BY BreakerAssumption
  <2> QED BY <2>1, <2>2 DEF CB!Abstract!Init, CB!isAfterSleepWindow, BreakerAgrees,
                            CB!StatusAgreesWithTime, CB!OpenHasCounts, TestIsRested
<1>2. TypeOK => CB!TypeOK
  BY DEF TypeOK
<1> QED BY <1>1, <1>2, BreakerAgreesStep, TestIsRestedStep, CircuitStepImplements,
           StepUsesBreaker, Invariance, TypeCorrect, PTL
        DEF Spec, CB!ImplementsBreaker, CB!Abstract!Spec

-----------------------------------------------------------------------------
(* Whoever waits waits for something: the safety half of the liveness of a  *)
(* connection.                                                              *)

\* A call whose result invoke() will report to the breaker.
WillReport(r) == phase[r] \in {"waiting", "resolved"}

TestIsUnderWay == status = "HALF_OPEN" => \E r \in Req : WillReport(r)

LEMMA AnswersWillBeReported ==
  ASSUME IInv, NEW ids, HandleResponse(ids)
  PROVE  \A r \in Req : WillReport(r) => WillReport(r)'
BY DEF IInv, ConnectionTypeOK, HandleResponse, WillReport

LEMMA TestIsUnderWayStep == IInv /\ TestIsUnderWay /\ [Next]_vars => TestIsUnderWay'
<1> SUFFICES ASSUME IInv, TestIsUnderWay, [Next]_vars, status' = "HALF_OPEN"
             PROVE  \E r \in Req : WillReport(r)'
  BY DEF TestIsUnderWay
<1>0. phase \in [Req -> Phases]
  BY DEF IInv, ConnectionTypeOK
<1>1. ASSUME status = "HALF_OPEN", \A r \in Req : WillReport(r) => WillReport(r)'
      PROVE  \E r \in Req : WillReport(r)'
  BY <1>1 DEF TestIsUnderWay
<1>2. ASSUME NEW r \in Req, Response(r) \/ Timeout(r) \/ ErrorTick(r)
      PROVE  \E q \in Req : WillReport(q)'
  <2>1. HandleResponse({r}) /\ status = "HALF_OPEN"
    BY <1>2 DEF Response, Timeout, ErrorTick, breakerVars
  <2> QED BY <1>1, <2>1, AnswersWillBeReported
<1>3. ASSUME NEW r \in Req, Resume(r) PROVE FALSE
  BY <1>3 DEF Resume, CB!Update, CB!MarkSuccess, CB!MarkNonSuccess, CB!stateVars
<1>4. ASSUME NEW r \in Req, Invoke(r) PROVE \E q \in Req : WillReport(q)'
  <2>1. PICK where \in {"waiting", "thrown"} : Enter(r, where)
    BY <1>4 DEF Invoke, InvokeSent, InvokeUnsent, InvokeRefused, InvokeThrows
  <2>2. CASE CB!AdmitTest
    <3>1. ~ CB!Refuse
      BY <2>2 DEF CB!AdmitTest, CB!Refuse, CB!breakerVars
    <3>2. Enter(r, "waiting")
      BY <1>4, <3>1 DEF Invoke, InvokeSent, InvokeUnsent, InvokeRefused, InvokeThrows
    <3> QED BY <1>0, <3>2 DEF Enter, WillReport
  <2>3. CASE ~ CB!AdmitTest
    <3>1. status = "HALF_OPEN"
      BY <1>4, <2>3 DEF Invoke, InvokeSent, InvokeUnsent, InvokeRefused, InvokeThrows,
                        CB!Admit, CB!Refuse, CB!breakerVars
    <3>2. \A q \in Req : WillReport(q) => WillReport(q)'
      BY <1>0, <2>1 DEF Enter, WillReport
    <3> QED BY <1>1, <3>1, <3>2
  <2> QED BY <2>2, <2>3
<1>5. ASSUME NEW r \in Req, Renew(r) PROVE \E q \in Req : WillReport(q)'
  <2>1. status = "HALF_OPEN" /\ \A q \in Req : WillReport(q) => WillReport(q)'
    BY <1>0, <1>5 DEF Renew, breakerVars, WillReport
  <2> QED BY <1>1, <2>1
<1>6. CASE HandleClose
  <2>1. HandleResponse(sentReqs) /\ status = "HALF_OPEN"
    BY <1>6 DEF HandleClose, CB!Close
  <2> QED BY <1>1, <2>1, AnswersWillBeReported
<1>7. ASSUME \/ \E c \in Closers : Close(c) \/ ForceClose(c)
             \/ ConnectTimeout \/ Connect \/ ConnectError \/ SocketDown \/ UserForceClose
             \/ Tick \/ Elapse \/ Configure \/ ResetCounter \/ UNCHANGED vars
      PROVE  \E r \in Req : WillReport(r)'
  <2>1. UNCHANGED phase
    BY <1>7 DEF Close, ForceClose, ConnectTimeout, Connect, ConnectError, SocketDown,
                UserForceClose, Destroy, Tick, Elapse, Configure, ResetCounter,
                BreakerOnly, callVars, vars
  <2>2. status = "HALF_OPEN"
    BY <1>7 DEF Close, ForceClose, ConnectTimeout, Connect, ConnectError, SocketDown,
                UserForceClose, Destroy, breakerVars, vars,
                Tick, CB!Tick, CB!stateVars, Elapse, CB!Elapse, Configure, CB!Configure,
                ResetCounter, CB!Reset
  <2> QED BY <1>1, <2>1, <2>2 DEF WillReport
<1> QED BY <1>2, <1>3, <1>4, <1>5, <1>6, <1>7 DEF Next

HalfOpenHasACall ==
  status = "HALF_OPEN" =>
    \E r \in Req : \/ phase[r] = "waiting" /\ r \in timers
                   \/ phase[r] = "resolved"

(* The circuit never waits in HALF_OPEN for nobody: some call is pending,   *)
(* with its timer armed, or answered and about to report, even when the     *)
(* single test itself was answered long ago and the connection is closing   *)
(* or closed (rpc.js:207-213).                                              *)
THEOREM HalfOpenAlwaysHasACall == Spec => []HalfOpenHasACall
<1>1. Init => TestIsUnderWay
  BY DEF Init, CB!Init, TestIsUnderWay
<1>2. IInv /\ TestIsUnderWay => HalfOpenHasACall
  BY DEF IInv, PendingIsTimed, TestIsUnderWay, WillReport, HalfOpenHasACall
<1> QED BY <1>1, <1>2, TestIsUnderWayStep, Invariance, PTL DEF Spec

\* What the next step of each close() is, and what it waits for.
ClosersGoOn ==
  \A c \in Closers :
    /\ closer[c] = "waiting" => waits[c] \subseteq sentReqs
    /\ closer[c] = "destroying" => sock = "destroyed"
    /\ closer[c] = "done" => closed

LEMMA ClosersGoOnStep == IInv /\ ClosersGoOn /\ [Next]_vars => ClosersGoOn'
<1> SUFFICES ASSUME IInv, ClosersGoOn, [Next]_vars PROVE ClosersGoOn'
  OBVIOUS
<1>0. /\ closer \in [Closers -> {"idle", "waiting", "destroying", "done"}]
      /\ waits \in [Closers -> SUBSET Req]
      /\ closed <=> sock = "closed"
  BY DEF IInv, ConnectionTypeOK, ClosedWithSocket
<1>1. ASSUME NEW ids, HandleResponse(ids)
      PROVE  \A c \in Closers : waits[c] \subseteq sentReqs => waits'[c] \subseteq sentReqs'
  BY <1>1 DEF HandleResponse
<1>2. ASSUME NEW r \in Req, Response(r) \/ Timeout(r) \/ ErrorTick(r) PROVE ClosersGoOn'
  <2>1. HandleResponse({r}) /\ UNCHANGED <<closer, sock, closed>>
    BY <1>2 DEF Response, Timeout, ErrorTick, socketVars
  <2> QED BY <1>1, <2>1 DEF ClosersGoOn
<1>3. ASSUME NEW r \in Req, Resume(r) \/ Renew(r) PROVE ClosersGoOn'
  BY <1>3 DEF Resume, Renew, socketVars, closeVars, ClosersGoOn
<1>4. ASSUME NEW r \in Req, Invoke(r) PROVE ClosersGoOn'
  <2>1. sentReqs \subseteq sentReqs' /\ UNCHANGED <<closer, waits, sock, closed>>
    BY <1>4 DEF Invoke, InvokeSent, InvokeUnsent, InvokeRefused, InvokeThrows, Enter,
                socketVars, closeVars
  <2> QED BY <2>1 DEF ClosersGoOn
<1>5. ASSUME NEW c \in Closers, BeginClose(c), UNCHANGED <<sock, callVars>>
      PROVE  ClosersGoOn'
  BY <1>0, <1>5 DEF BeginClose, callVars, ClosersGoOn
<1>6. ASSUME NEW c \in Closers, ForceClose(c) PROVE ClosersGoOn'
  BY <1>0, <1>6 DEF ForceClose, ClosersGoOn
<1>7. CASE HandleClose
  <2>1. /\ HandleResponse(sentReqs) /\ sock' = "closed" /\ closed'
        /\ closer' = [c \in Closers |-> IF closer[c] = "destroying" THEN "done" ELSE closer[c]]
    BY <1>7 DEF HandleClose
  <2> QED BY <1>1, <2>1 DEF ClosersGoOn
<1>8. ASSUME Destroy, sock \in {"connecting", "open", "destroyed"} PROVE ClosersGoOn'
  BY <1>0, <1>8 DEF Destroy, ClosersGoOn
<1>9. CASE Connect
  BY <1>0, <1>9 DEF Connect, callVars, closeVars, ClosersGoOn
<1>10. CASE Tick \/ Elapse \/ Configure \/ ResetCounter \/ UNCHANGED vars
  BY <1>10 DEF Tick, Elapse, Configure, ResetCounter, BreakerOnly, vars, socketVars,
               callVars, closeVars, ClosersGoOn
<1>11. ASSUME NEW c \in Closers, Close(c) PROVE ClosersGoOn'
  BY <1>5, <1>11 DEF Close
<1>12. CASE ConnectTimeout
  BY <1>5, <1>12 DEF ConnectTimeout, Closers
<1>13. CASE UserForceClose \/ ConnectError \/ SocketDown
  BY <1>8, <1>13 DEF UserForceClose, ConnectError, SocketDown
<1> QED BY <1>2, <1>3, <1>4, <1>6, <1>7, <1>9, <1>10, <1>11, <1>12, <1>13 DEF Next

CloseHasItsEvent ==
  \A c \in Closers :
    /\ closer[c] = "waiting" => waits[c] \subseteq timers
    /\ closer[c] = "destroying" => sock = "destroyed"
    /\ closer[c] = "done" => closed

(* No close() hangs on nothing: what it awaits are calls with a timer, then *)
(* the 'close' of a socket that is destroyed, and it returns only when the  *)
(* connection is closed (rpc.js:304-327).                                   *)
THEOREM ClosersNeverHang == Spec => []CloseHasItsEvent
<1>1. Init => ClosersGoOn
  BY DEF Init, ClosersGoOn
<1>2. IInv /\ ClosersGoOn => CloseHasItsEvent
  BY DEF IInv, PendingIsTimed, ClosersGoOn, CloseHasItsEvent
<1> QED BY <1>1, <1>2, ClosersGoOnStep, Invariance, PTL DEF Spec
=============================================================================
