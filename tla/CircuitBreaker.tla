---------------------------- MODULE CircuitBreaker ----------------------------
(***************************************************************************)
(* The circuit breaker of a connection (lib/client/circuit_breaker.js) over*)
(* its health counter.  The breaker listens to the counter's 'next' event, *)
(* so the tick of the counter and the breaker's reaction are one step.     *)
(*                                                                         *)
(* Time.  _circuitOpened is a timestamp (-1 when the circuit is closed)    *)
(* that is only compared with Date.now(): openedFor is the time since then,*)
(* stuck at SleepWindow + 1 where isAfterSleepWindow has become true for   *)
(* good, and -1 when _circuitOpened is -1.                                 *)
(***************************************************************************)
EXTENDS HealthCounter

CONSTANTS RequestVolumeThreshold,      \* calls in the window before it counts
          ErrorThresholdPercentage,    \* error rate that trips the circuit
          SleepWindow,                 \* sleepWindowInMilliseconds, in units of time
          ForceModes                   \* the settings of forceOpen / forceClosed

ASSUME ThresholdAssumption ==
  /\ RequestVolumeThreshold \in Nat
  /\ ErrorThresholdPercentage \in 0..100
ASSUME SleepWindowAssumption == SleepWindow \in Nat
ASSUME ForceModesAssumption == ForceModes \subseteq SUBSET {"open", "closed"}

VARIABLES status,                      \* CLOSED, OPEN or HALF_OPEN
          openedFor,                   \* time since _circuitOpened, or -1
          hc,                          \* _hc: the counts of the latest window, if any
          force                        \* which of forceOpen, forceClosed is set

counterVars == <<buckets, isClosed>>
stateVars == <<status, openedFor>>
breakerVars == <<buckets, isClosed, status, openedFor, hc, force>>

Statuses == {"CLOSED", "OPEN", "HALF_OPEN"}
NoHealth == [i \in {} |-> 0]           \* _hc is undefined before the first 'next'

Init ==
  /\ CounterInit
  /\ status = "CLOSED"
  /\ openedFor = -1
  /\ hc = NoHealth
  /\ force \in ForceModes

isAfterSleepWindow == openedFor > SleepWindow

-----------------------------------------------------------------------------
(* allowRequest(), by its outcome *)

\* Allowed without a trace: forced so, or the circuit is closed.
Admit ==
  /\ "open" \notin force
  /\ "closed" \in force \/ openedFor = -1
  /\ UNCHANGED breakerVars

\* Allowed as the single test that follows a sleep window.
AdmitTest ==
  /\ force = {}
  /\ openedFor # -1
  /\ status # "HALF_OPEN"
  /\ isAfterSleepWindow
  /\ status' = "HALF_OPEN"
  /\ UNCHANGED <<counterVars, openedFor, hc, force>>

Refuse ==
  /\ \/ "open" \in force
     \/ /\ force = {}
        /\ openedFor # -1
        /\ status = "HALF_OPEN" \/ ~ isAfterSleepWindow
  /\ UNCHANGED breakerVars

-----------------------------------------------------------------------------
(* update(rpcContext): record the result, then judge the single test by it *)

\* Variants: the recovery keeps the old window, or the old opening time.
MarkSuccessKeepingWindow(rt) ==
  /\ Record("00", rt)
  /\ IF status = "HALF_OPEN"
     THEN status' = "CLOSED" /\ openedFor' = -1
     ELSE UNCHANGED stateVars

\* reset() wipes what update() has just recorded, too.
MarkSuccess(rt) ==
  IF status = "HALF_OPEN"
  THEN /\ Clear
       /\ status' = "CLOSED"
       /\ openedFor' = -1
  ELSE /\ Record("00", rt)
       /\ UNCHANGED stateVars

\* Variant: a failed test does not start a new sleep window.
MarkNonSuccessKeepingTime(code, rt) ==
  /\ Record(code, rt)
  /\ status' = IF status = "HALF_OPEN" THEN "OPEN" ELSE status
  /\ UNCHANGED openedFor

MarkNonSuccess(code, rt) ==
  /\ Record(code, rt)
  /\ IF status = "HALF_OPEN"
     THEN /\ status' = "OPEN"
          /\ openedFor' = 0
     ELSE UNCHANGED stateVars

Update(code, rt) ==
  /\ IF code = "00" THEN MarkSuccess(rt) ELSE MarkNonSuccess(code, rt)
  /\ UNCHANGED <<isClosed, hc, force>>

-----------------------------------------------------------------------------
(* The counter's 'next' event, and the rest of the breaker's life *)

Tripped(counts) ==
  /\ counts.total >= RequestVolumeThreshold
  /\ ErrorRate(counts) >= ErrorThresholdPercentage

\* HALF_OPEN waits for its single test and OPEN for its sleep window: a bad
\* window changes neither.
Tick ==
  /\ Roll
  /\ hc' = Reduce(buckets)
  /\ IF Tripped(hc') /\ status = "CLOSED"
     THEN /\ status' = "OPEN"
          /\ openedFor' = 0
     ELSE UNCHANGED stateVars
  /\ UNCHANGED <<isClosed, force>>

Reset ==
  /\ Clear
  /\ UNCHANGED <<isClosed, status, openedFor, hc, force>>

\* The counter dies; status and _circuitOpened are left as they are.
Close ==
  /\ CloseCounter
  /\ UNCHANGED <<status, openedFor, hc, force>>

\* Date.now() moves on.
Elapse ==
  /\ openedFor \in 0..SleepWindow
  /\ openedFor' = openedFor + 1
  /\ UNCHANGED <<counterVars, status, hc, force>>

\* The application changes DynamicConfig.instance.circuitBreaker.
Configure ==
  /\ force' \in ForceModes \ {force}
  /\ UNCHANGED <<counterVars, status, openedFor, hc>>

Next ==
  \/ Admit
  \/ AdmitTest
  \/ Refuse
  \/ \E code \in Codes, rt \in RTs : Update(code, rt)
  \/ Tick
  \/ Reset
  \/ Close
  \/ Elapse
  \/ Configure

Spec == Init /\ [][Next]_breakerVars

-----------------------------------------------------------------------------
TypeOK ==
  /\ CounterTypeOK
  /\ status \in Statuses
  /\ openedFor \in -1..(SleepWindow + 1)
  /\ hc = NoHealth \/ DOMAIN hc = {"total", "error", "rt"}
  /\ force \in ForceModes

(* The breaker keeps its state twice, in status (read by the transitions)  *)
(* and in _circuitOpened (read by isOpen and allowRequest): the two agree, *)
(* whatever the order of calls, ticks, resets, closes and configuration    *)
(* changes.                                                                *)
StatusAgreesWithTime == (status = "CLOSED") <=> (openedFor = -1)

(* A circuit that is not closed has counts: the refusal message            *)
(* (rpc.js:183) can print them unless the circuit is forced open.          *)
OpenHasCounts == openedFor # -1 => hc # NoHealth

Abstract == INSTANCE Breaker WITH rested <- isAfterSleepWindow

(* The circuit is what Breaker promises, forced modes, resets and the end  *)
(* of the counter notwithstanding: it is tested only after a whole sleep   *)
(* window, it leaves HALF_OPEN only by the result of a call, and each      *)
(* failed test starts a new window (circuit_breaker.js:75-121).            *)
ImplementsBreaker == Abstract!Spec
=============================================================================
