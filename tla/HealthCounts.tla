----------------------------- MODULE HealthCounts -----------------------------
(***************************************************************************)
(* The summary of a window (lib/client/metric/health_counts.js).  The      *)
(* quotients are rounded exactly; the code rounds binary floats.           *)
(***************************************************************************)
EXTENDS Integers

\* Math.round(a / b) for a >= 0 and b > 0: a half is rounded up.
Round(a, b) == (2 * a + b) \div (2 * b)

ErrorRate(counts) ==
  IF counts.total = 0 THEN 0 ELSE Round(100 * counts.error, counts.total)

AvgRT(counts) ==
  IF counts.total = 0 THEN 0 ELSE Round(counts.rt, counts.total)
=============================================================================
