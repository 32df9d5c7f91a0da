--------------------------- MODULE MCRpcConnection ---------------------------
(***************************************************************************)
(* RpcConnection for TLC, with the identity of the single                  *)
(* test as a history variable.                                             *)
(***************************************************************************)
EXTENDS RpcConnection

VARIABLE tester            \* the call that turned the circuit HALF_OPEN last

NoReq == "none"

mcVars == <<vars, tester>>

MCInit == Init /\ tester = NoReq

MCNext ==
  /\ Next
  /\ tester' = IF status # "HALF_OPEN" /\ status' = "HALF_OPEN"
               THEN CHOOSE r \in Req : phase[r] = "idle" /\ phase'[r] = "waiting"
               ELSE tester

MCSpec == MCInit /\ [][MCNext]_mcVars

-----------------------------------------------------------------------------
(* "HALF_OPEN 需要等待 single test 的结果" (circuit_breaker.js:25): the circuit *)
(* stays HALF_OPEN until its single test has been answered.                 *)
HalfOpenWaitsForItsTest ==
  [][status = "HALF_OPEN" /\ status' # "HALF_OPEN" =>
       tester \notin sentReqs]_mcVars
=============================================================================
