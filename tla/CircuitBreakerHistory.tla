------------------------ MODULE CircuitBreakerHistory ------------------------
(***************************************************************************)
(* The breaker driven by callers that ask, answer, tick, reset, close and  *)
(* reconfigure in every order, watched by three history variables: a log   *)
(* of the recorded calls, the time since the last single test, and the     *)
(* number of calls recorded since the circuit last recovered.              *)
(***************************************************************************)
EXTENDS CircuitBreaker, Sequences, FiniteSets

CONSTANTS MaxCalls,          \* bound: calls in the log
          MaxPeriod          \* bound: ticks of the counter

VARIABLES period,            \* number of ticks so far
          log,               \* the recorded calls since the window was last wiped
          sinceTest,         \* time since the last single test was admitted
          sinceRecovery      \* calls recorded since HALF_OPEN last became CLOSED,
                             \* counted up to RequestVolumeThreshold

historyVars == <<period, log, sinceTest, sinceRecovery>>
mcVars == <<breakerVars, historyVars>>

MCInit ==
  /\ Init
  /\ period = 0
  /\ log = << >>
  /\ sinceTest = SleepWindow + 1
  /\ sinceRecovery = 0

Ask ==
  \/ (Admit \/ Refuse) /\ UNCHANGED historyVars
  \/ AdmitTest /\ sinceTest' = 0 /\ UNCHANGED <<period, log, sinceRecovery>>

Recovers == status = "HALF_OPEN" /\ status' = "CLOSED"

Answer(code, rt) ==
  /\ Len(log) < MaxCalls
  /\ Update(code, rt)
  /\ IF Recovers
     THEN log' = << >> /\ sinceRecovery' = 0
     ELSE IF isClosed
     THEN UNCHANGED <<log, sinceRecovery>>
     ELSE /\ log' = Append(log, [period |-> period, code |-> code, rt |-> rt])
          /\ sinceRecovery' = IF sinceRecovery = RequestVolumeThreshold
                              THEN sinceRecovery ELSE sinceRecovery + 1
  /\ UNCHANGED <<period, sinceTest>>

Ticks ==
  /\ period < MaxPeriod
  /\ Tick
  /\ period' = period + 1
  /\ UNCHANGED <<log, sinceTest, sinceRecovery>>

Wipe ==
  /\ Reset
  /\ log' = << >>
  /\ UNCHANGED <<period, sinceTest, sinceRecovery>>

Passes ==
  /\ Elapse
  /\ sinceTest' = IF sinceTest > SleepWindow THEN sinceTest ELSE sinceTest + 1
  /\ UNCHANGED <<period, log, sinceRecovery>>

MCNext ==
  \/ Ask
  \/ \E code \in {"00", "03"}, rt \in RTs : Answer(code, rt)
  \/ Ticks
  \/ Wipe
  \/ Close /\ UNCHANGED historyVars
  \/ Passes
  \/ Configure /\ UNCHANGED historyVars

MCSpec == MCInit /\ [][MCNext]_mcVars

-----------------------------------------------------------------------------
(* The window counts exactly the calls recorded in the last NumBuckets     *)
(* periods, every one once, however ticks, resets and calls interleave     *)
(* (rolling_counter.js:23-29, health_counts.js:28-38).                     *)
WindowHoldsLastPeriods ==
  LET recent == {i \in DOMAIN log : log[i].period > period - NumBuckets}
      failed == {i \in recent : log[i].code # "00"}
  IN ~ isClosed =>
       Reduce(buckets) = [total |-> Cardinality(recent),
                          error |-> Cardinality(failed),
                          rt    |-> SumFunctionOnSet([i \in recent |-> log[i].rt], recent)]

(* Between two single tests there is always a whole sleep window, even     *)
(* when the circuit closes and trips again in between: a failing server is *)
(* never probed faster than that (circuit_breaker.js:88-91).               *)
TestsSpaced ==
  [][status # "HALF_OPEN" /\ status' = "HALF_OPEN" => sinceTest > SleepWindow]_mcVars

(* After a recovery the circuit trips again only on fresh evidence: at     *)
(* least RequestVolumeThreshold calls recorded since then                  *)
(* (circuit_breaker.js:108-114 resets the window before it closes).        *)
FreshEvidenceTrips ==
  [][status = "CLOSED" /\ status' = "OPEN" =>
       sinceRecovery >= RequestVolumeThreshold]_mcVars
=============================================================================
