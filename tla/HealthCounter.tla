---------------------------- MODULE HealthCounter ----------------------------
(***************************************************************************)
(* The sliding window of call results kept per connection and per address  *)
(* group: RollingCounter (lib/client/metric/rolling_counter.js) with the   *)
(* buckets of HealthCounter.  A component that owns a counter extends this *)
(* module and uses its operations.                                         *)
(*                                                                         *)
(* The four error codes '01'..'04' are only ever summed, so a bucket has   *)
(* one count for '00' and one for all of them.  latestValue is written and *)
(* never read: the listeners of 'next' are handed Reduce(buckets).         *)
(***************************************************************************)
EXTENDS Integers, Functions, HealthCounts

CONSTANTS NumBuckets,        \* metric.numBuckets of the dynamic configuration
          RTs                \* response times a call may be recorded with

ASSUME NumBucketsAssumption == NumBuckets \in Nat \ {0}
ASSUME RTsAssumption == RTs \subseteq Nat

VARIABLES buckets,           \* the window, the latest bucket last
          isClosed           \* close() was called: nothing is recorded any more

Codes == {"00", "01", "02", "03", "04"}

Bucket == [ok : Nat, err : Nat, rt : Nat]
EmptyBucket == [ok |-> 0, err |-> 0, rt |-> 0]
EmptyWindow == [i \in 1..NumBuckets |-> EmptyBucket]
NoWindow == [i \in {} |-> EmptyBucket]

-----------------------------------------------------------------------------
SumOf(field, window) == SumFunction([i \in DOMAIN window |-> window[i][field]])

\* buckets.reduce(reduceBucket, HealthCounts.empty)
Reduce(window) ==
  [total |-> SumOf("ok", window) + SumOf("err", window),
   error |-> SumOf("err", window),
   rt    |-> SumOf("rt", window)]

-----------------------------------------------------------------------------
(* Operations on the window *)

CounterInit ==
  /\ buckets = EmptyWindow
  /\ isClosed = FALSE

\* The latest bucket b once a call with result `code` that took `rt` is added.
Added(b, code, rt) ==
  [ok  |-> b.ok  + (IF code = "00" THEN 1 ELSE 0),
   err |-> b.err + (IF code = "00" THEN 0 ELSE 1),
   rt  |-> b.rt + rt]

Record(code, rt) ==
  buckets' = IF isClosed THEN buckets
             ELSE [buckets EXCEPT ![NumBuckets] = Added(@, code, rt)]

\* Variant: the newest bucket is emptied and the oldest one is kept.
ShiftedWithoutDropping(window) == [window EXCEPT ![NumBuckets] = EmptyBucket]

\* What follows the 'next' event: the oldest bucket makes room for a new one.
Shifted(window) == [i \in 1..NumBuckets |->
                      IF i = NumBuckets THEN EmptyBucket ELSE window[i + 1]]

Roll ==
  /\ ~ isClosed              \* close() removed the interval
  /\ buckets' = Shifted(buckets)

Clear == buckets' = EmptyWindow

CloseCounter ==
  /\ isClosed' = TRUE
  /\ buckets' = NoWindow

CounterTypeOK ==
  /\ isClosed \in BOOLEAN
  /\ \/ buckets \in [1..NumBuckets -> Bucket]
     \/ isClosed /\ buckets = NoWindow
=============================================================================
