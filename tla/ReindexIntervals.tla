-------------------------- MODULE ReindexIntervals --------------------------
(***************************************************************************)
(* The split of the copied time span among the parallel writers of the     *)
(* elasticreindexer: computeIntervals of process/reindexerMultiWrites.go.  *)
(* Timestamps are seconds; both ends of an interval belong to it, because  *)
(* getWithTimestamp of process/queries.go asks for gte start and lte stop. *)
(***************************************************************************)
EXTENDS Integers

(* How many intervals computeIntervals returns for n parallel writes.      *)
NumIntervals(n) == IF n < 2 THEN 1 ELSE n

(* The whole seconds of one interval, all but the last one.                *)
Step(start, end, n) == (end - start) \div n

(* First second of the k-th interval, k \in 1..NumIntervals(n).            *)
IntervalStart(start, end, n, k) ==
  IF n < 2 THEN start ELSE start + (k - 1) * Step(start, end, n)

(* Mutant: the last interval loses the remainder of the division.          *)
IntervalStopAtStep(start, end, n, k) ==
  IF n < 2 THEN end ELSE start + k * Step(start, end, n)

(* Last second of the k-th interval: the last interval ends at end, so     *)
(* that the remainder of the division is not lost.                         *)
IntervalStop(start, end, n, k) ==
  IF n < 2 \/ k = n THEN end ELSE start + k * Step(start, end, n)

(* The documents with timestamp t are those the k-th writer asks for.      *)
InInterval(start, end, n, k, t) ==
  /\ IntervalStart(start, end, n, k) <= t
  /\ t <= IntervalStop(start, end, n, k)
=============================================================================
