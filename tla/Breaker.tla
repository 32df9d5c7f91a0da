-------------------------------- MODULE Breaker --------------------------------
(***************************************************************************)
(* What a circuit breaker promises the connection that asks it, without    *)
(* window, counts and clock: while the circuit is open requests are        *)
(* refused; one test is let through after each sleep window; the first     *)
(* result reported after that closes the circuit or starts a new sleep     *)
(* window.  CircuitBreaker implements it, GrpcConnection relies on it.     *)
(***************************************************************************)
VARIABLES status,          \* CLOSED, OPEN or HALF_OPEN
          rested           \* the sleep window since the circuit opened is over

vars == <<status, rested>>

Init ==
  /\ status = "CLOSED"
  /\ rested = FALSE

\* allowRequest(), by its outcome.
Admit ==
  /\ status = "CLOSED"
  /\ UNCHANGED vars

AdmitTest ==
  /\ status = "OPEN"
  /\ rested
  /\ status' = "HALF_OPEN"
  /\ UNCHANGED rested

Refuse ==
  /\ status = "HALF_OPEN" \/ (status = "OPEN" /\ ~ rested)
  /\ UNCHANGED vars

\* update(rpcContext)
Report(code) ==
  IF status = "HALF_OPEN"
  THEN /\ status' = IF code = "00" THEN "CLOSED" ELSE "OPEN"
       /\ rested' = FALSE
  ELSE UNCHANGED vars

\* A window of the counter ends with too many errors in it.
Trip ==
  /\ status = "CLOSED"
  /\ status' = "OPEN"
  /\ UNCHANGED rested

Rest ==
  /\ status = "OPEN"
  /\ ~ rested
  /\ rested' = TRUE
  /\ UNCHANGED status

Next ==
  \/ Admit \/ AdmitTest \/ Refuse
  \/ \E code \in {"00", "03"} : Report(code)
  \/ Trip
  \/ Rest

Spec == Init /\ [][Next]_vars
=============================================================================
