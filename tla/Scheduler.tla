------------------------------ MODULE Scheduler ------------------------------
(***************************************************************************)
(* What all clients of a process share: the scheduler of periodic tasks    *)
(* (lib/client/scheduler.js), the health counters that it ticks            *)
(* (metric/rolling_counter.js) and the cache in which they are found by    *)
(* their key (metric/health_counter.js).  A circuit breaker and its        *)
(* counter have the same key and come and go together                      *)
(* (circuit_breaker.js:123-140): they are one here.                        *)
(*                                                                         *)
(* All counters have the same period.  A counter that was closed is of no  *)
(* more use to anyone and has no state here; a key has at most one that    *)
(* was not.                                                                *)
(***************************************************************************)
EXTENDS Naturals, Sequences, FiniteSets, SequencesExt

CONSTANT Key               \* keys of counters: hosts and address groups

VARIABLES timer,           \* the interval timer of the period is set
          listeners,       \* counters that it ticks, in order
          cache            \* keys whose counter is cached and not closed

schedulerVars == <<timer, listeners, cache>>

SchedulerInit ==
  /\ timer = FALSE
  /\ listeners = <<>>
  /\ cache = {}

\* interval(): the first task sets the timer.
Interval(key, prepend) ==
  /\ timer' = TRUE
  /\ listeners' = IF prepend THEN <<key>> \o listeners ELSE Append(listeners, key)

\* getInstance(): a new counter starts to be ticked.
GetInstance(key, prepend) ==
  IF key \in cache THEN UNCHANGED schedulerVars
  ELSE cache' = cache \cup {key} /\ Interval(key, prepend)

\* The listeners but those of `keys`, in their order.  (The SelectSeq of the
\* standard module, without recursion.)
Without(keys) ==
  LET kept == {i \in DOMAIN listeners : listeners[i] \notin keys}
      Place(i) == Cardinality({j \in kept : j <= i})
  IN [n \in 1..Cardinality(kept) |-> listeners[CHOOSE i \in kept : Place(i) = n]]

\* Variant: the timer is left behind.
StopTasksOnly(keys) ==
  /\ listeners' = Without(keys)
  /\ UNCHANGED timer

\* The function that interval() returns: the last task takes the timer along.
Stop(keys) ==
  /\ listeners' = Without(keys)
  /\ timer' = (timer /\ listeners' # <<>>)

\* close() of the counters of `keys`, which leave the cache.
CloseCounters(keys) ==
  /\ cache' = cache \ keys
  /\ Stop(keys)

\* clear() and then close() of the counters of `keys`.
ClearAndClose(keys) ==
  /\ timer' = FALSE
  /\ listeners' = <<>>
  /\ cache' = cache \ keys
=============================================================================
