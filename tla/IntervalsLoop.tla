--------------------------- MODULE IntervalsLoop ---------------------------
(***************************************************************************)
(* computeIntervals of process/reindexerMultiWrites.go, one iteration of   *)
(* its loop per step, for any pair of times and any number of writers.     *)
(***************************************************************************)
EXTENDS Integers, Sequences, ReindexIntervals

CONSTANTS MaxEnd, MaxWrites   \* bounds on the arguments that are tried

ASSUME BoundsAssumption == MaxEnd \in Nat /\ MaxWrites \in Nat

VARIABLES startTime, endTime, numIntervals, idx, intervals, done

loopVars == <<startTime, endTime, numIntervals, idx, intervals, done>>

(* blockchain-start-time is positive in a valid configuration; the end is  *)
(* the current time, not before the start.                                 *)
LoopInit ==
  /\ startTime \in 1..MaxEnd /\ endTime \in startTime..MaxEnd
  /\ numIntervals \in 0..MaxWrites
  /\ idx = 0 /\ intervals = <<>> /\ done = FALSE

Single ==
  /\ ~done /\ numIntervals < 2
  /\ intervals' = <<[start |-> startTime, stop |-> endTime]>>
  /\ done' = TRUE
  /\ UNCHANGED <<startTime, endTime, numIntervals, idx>>

(* Mutant: the last interval loses the remainder of the division.          *)
IterateBySteps ==
  /\ ~done /\ numIntervals >= 2 /\ idx < numIntervals
  /\ LET step == (endTime - startTime) \div numIntervals
     IN intervals' = Append(intervals, [start |-> startTime + idx * step,
                                        stop |-> startTime + (idx + 1) * step])
  /\ idx' = idx + 1
  /\ UNCHANGED <<startTime, endTime, numIntervals, done>>

(* Mutant: every interval ends where the span does.                        *)
IterateToEnd ==
  /\ ~done /\ numIntervals >= 2 /\ idx < numIntervals
  /\ LET step == (endTime - startTime) \div numIntervals
     IN intervals' = Append(intervals, [start |-> startTime + idx * step, stop |-> endTime])
  /\ idx' = idx + 1
  /\ UNCHANGED <<startTime, endTime, numIntervals, done>>

Iterate ==
  /\ ~done /\ numIntervals >= 2 /\ idx < numIntervals
  /\ LET step == (endTime - startTime) \div numIntervals
         stop == IF idx = numIntervals - 1 THEN endTime
                 ELSE startTime + (idx + 1) * step
     IN intervals' = Append(intervals, [start |-> startTime + idx * step, stop |-> stop])
  /\ idx' = idx + 1
  /\ UNCHANGED <<startTime, endTime, numIntervals, done>>

Finish ==
  /\ ~done /\ numIntervals >= 2 /\ idx = numIntervals
  /\ done' = TRUE
  /\ UNCHANGED <<startTime, endTime, numIntervals, idx, intervals>>

LoopNext == Single \/ Iterate \/ Finish

LoopSpec == LoopInit /\ [][LoopNext]_loopVars

(* The writers share the whole span: every second from the start of the    *)
(* chain to the current time is asked for by some writer, and no writer    *)
(* asks for a second outside of it, also when there are more writers than  *)
(* seconds.                                                                *)
SpanIsShared ==
  done => \A t \in 0..(MaxEnd + 1) :
            (\E k \in 1..Len(intervals) : intervals[k].start <= t /\ t <= intervals[k].stop)
              <=> (startTime <= t /\ t <= endTime)

(* Two writers have at most the second of their common boundary in common, *)
(* unless the span is shorter than the number of writers.                  *)
OverlapIsABoundary ==
  done /\ endTime - startTime >= numIntervals =>
    \A j, k \in 1..Len(intervals) : j < k =>
      intervals[j].stop <= intervals[k].start

(* The loop computes what Reindexer uses.                                  *)
LoopComputesIntervals ==
  done =>
    /\ Len(intervals) = NumIntervals(numIntervals)
    /\ \A k \in 1..Len(intervals) :
         /\ intervals[k].start = IntervalStart(startTime, endTime, numIntervals, k)
         /\ intervals[k].stop = IntervalStop(startTime, endTime, numIntervals, k)
=============================================================================
