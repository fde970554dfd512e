-------------------------- MODULE ReindexerProofs --------------------------
(* Theorems about Reindexer, for all configurations, documents, command    *)
(* lines, initial contents and bounds.                                     *)
EXTENDS Reindexer, IntervalsLoop, FiniteSetTheorems, TLAPS

-----------------------------------------------------------------------------
(* The split of a time span, for all times and all numbers of writers.     *)
(* Integer division rounds down.                                           *)
LEMMA DivisionBounds ==
  ASSUME NEW a \in Nat, NEW b \in Nat, b > 0
  PROVE  /\ a \div b \in Nat
         /\ (a \div b) * b <= a
         /\ a < (a \div b + 1) * b
BY Z3

(* The intervals leave no gap: each second of the span is in one of them.  *)
THEOREM IntervalsCoverSpan ==
  ASSUME NEW start \in Nat, NEW end \in Nat, NEW n \in Int,
         NEW t \in Nat, start <= t, t <= end
  PROVE  \E k \in 1..NumIntervals(n) : InInterval(start, end, n, k, t)
<1>1. CASE n < 2
  BY <1>1 DEF NumIntervals, InInterval, IntervalStart, IntervalStop
<1>2. CASE n >= 2
  <2> DEFINE s == Step(start, end, n)
  <2>1. s \in Nat /\ n \in Nat /\ n > 0
    BY <1>2, DivisionBounds DEF Step
  <2>2. CASE start + (n - 1) * s <= t
    <3>1. n \in 1..NumIntervals(n)
      BY <1>2 DEF NumIntervals
    <3>2. InInterval(start, end, n, n, t)
      BY <1>2, <2>2 DEF InInterval, IntervalStart, IntervalStop
    <3> QED BY <3>1, <3>2
  <2>3. CASE t < start + (n - 1) * s
    <3>1. s > 0
      BY <2>1, <2>3
    <3> DEFINE q == (t - start) \div s
    <3>2. q \in Nat /\ q * s <= t - start /\ t - start < (q + 1) * s
      BY <2>1, <3>1, DivisionBounds
    <3>3. q < n - 1
      <4> HIDE DEF q, s
      <4> QED BY <2>1, <2>3, <3>1, <3>2
    <3>4. q + 1 \in 1..NumIntervals(n) /\ q + 1 # n
      BY <1>2, <3>2, <3>3 DEF NumIntervals
    <3>5. InInterval(start, end, n, q + 1, t)
      <4>1. IntervalStart(start, end, n, q + 1) = start + q * s
        BY <1>2, <3>2 DEF IntervalStart
      <4>2. IntervalStop(start, end, n, q + 1) = start + (q + 1) * s
        BY <1>2, <3>4 DEF IntervalStop
      <4> HIDE DEF q, s
      <4> QED BY <2>1, <3>2, <4>1, <4>2 DEF InInterval
    <3> QED BY <3>4, <3>5
  <2> QED BY <2>1, <2>2, <2>3
<1> QED BY <1>1, <1>2

(* No writer asks for a document indexed past the cut of the span.         *)
THEOREM IntervalsEndAtCut ==
  ASSUME NEW start \in Nat, NEW end \in Nat, start <= end, NEW n \in Int,
         NEW k \in 1..NumIntervals(n), NEW t \in Nat,
         InInterval(start, end, n, k, t)
  PROVE  t <= end
<1>1. CASE n < 2 \/ k = n
  BY <1>1 DEF InInterval, IntervalStop
<1>2. CASE n >= 2 /\ k # n
  <2> DEFINE s == Step(start, end, n)
  <2>1. s \in Nat /\ s * n <= end - start
    BY <1>2, DivisionBounds DEF Step
  <2>2. k \in Nat /\ k <= n
    BY <1>2 DEF NumIntervals
  <2>3. t <= start + k * s
    BY <1>2 DEF InInterval, IntervalStop
  <2> HIDE DEF s
  <2>4. k * s <= s * n
    BY <1>2, <2>1, <2>2
  <2>5. k * s \in Int /\ s * n \in Int
    BY <1>2, <2>1, <2>2
  <2> QED BY <2>1, <2>3, <2>4, <2>5
<1> QED BY <1>1, <1>2

(* Nor for one indexed before the start of the span.                       *)
LEMMA IntervalsStartAtGenesis ==
  ASSUME NEW start \in Nat, NEW end \in Nat, start <= end, NEW n \in Int,
         NEW k \in 1..NumIntervals(n), NEW t \in Nat,
         InInterval(start, end, n, k, t)
  PROVE  start <= t
<1>1. CASE n < 2
  BY <1>1 DEF InInterval, IntervalStart
<1>2. CASE n >= 2
  <2>1. Step(start, end, n) \in Nat
    BY <1>2, DivisionBounds DEF Step
  <2>2. k - 1 \in Nat /\ start + (k - 1) * Step(start, end, n) <= t
    BY <1>2 DEF InInterval, IntervalStart, NumIntervals
  <2>3. (k - 1) * Step(start, end, n) \in Nat
    BY <2>1, <2>2
  <2> QED BY <2>2, <2>3
<1> QED BY <1>1, <1>2

-----------------------------------------------------------------------------
(* The loop of IntervalsLoop, for all times and all numbers of writers.    *)
(* After idx iterations it has computed the first idx intervals.           *)
Computed(k) ==
  [start |-> IntervalStart(startTime, endTime, numIntervals, k),
   stop |-> IntervalStop(startTime, endTime, numIntervals, k)]

Interval == [start : Int, stop : Int]

LoopTypeOK ==
  /\ startTime \in 1..MaxEnd /\ endTime \in startTime..MaxEnd
  /\ numIntervals \in 0..MaxWrites /\ idx \in 0..MaxWrites
  /\ intervals \in Seq(Interval)

Progress ==
  IF numIntervals < 2
    THEN IF done THEN Len(intervals) = 1 ELSE Len(intervals) = 0
    ELSE Len(intervals) = idx /\ idx <= numIntervals /\ (done => idx = numIntervals)

IntervalsComputed == \A k \in 1..Len(intervals) : intervals[k] = Computed(k)

LoopInvariant == LoopTypeOK /\ Progress /\ IntervalsComputed

LEMMA LoopTypes ==
  ASSUME LoopTypeOK
  PROVE  /\ startTime \in Nat /\ endTime \in Nat /\ startTime <= endTime /\ endTime <= MaxEnd
         /\ numIntervals \in Nat /\ idx \in Nat
BY BoundsAssumption DEF LoopTypeOK

LEMMA ComputedType ==
  ASSUME LoopTypeOK, NEW k \in Nat
  PROVE  Computed(k) \in Interval
<1>1. CASE numIntervals < 2
  BY <1>1, LoopTypes DEF Computed, IntervalStart, IntervalStop, Interval
<1>2. CASE numIntervals >= 2
  <2>1. Step(startTime, endTime, numIntervals) \in Nat
    BY <1>2, LoopTypes, DivisionBounds DEF Step
  <2> QED BY <1>2, <2>1, LoopTypes DEF Computed, IntervalStart, IntervalStop, Interval
<1> QED BY <1>1, <1>2, LoopTypes

LEMMA InitLoop == LoopInit => LoopInvariant
<1> SUFFICES ASSUME LoopInit PROVE LoopInvariant
  OBVIOUS
<1>1. LoopTypeOK
  BY BoundsAssumption DEF LoopInit, LoopTypeOK
<1>2. Len(intervals) = 0 /\ idx = 0 /\ ~done
  BY DEF LoopInit
<1>3. Progress
  BY <1>1, <1>2, LoopTypes DEF Progress
<1>4. IntervalsComputed
  BY <1>2 DEF IntervalsComputed
<1> QED BY <1>1, <1>3, <1>4 DEF LoopInvariant

LEMMA NextLoop == LoopInvariant /\ [LoopNext]_loopVars => LoopInvariant'
<1> SUFFICES ASSUME LoopTypeOK, Progress, IntervalsComputed, [LoopNext]_loopVars
             PROVE  LoopTypeOK' /\ Progress' /\ IntervalsComputed'
  BY DEF LoopInvariant
<1> USE LoopTypes
<1>1. CASE Single
  <2>1. intervals' = <<[start |-> startTime, stop |-> endTime]>>
        /\ UNCHANGED <<startTime, endTime, numIntervals, idx>> /\ done' /\ numIntervals < 2
    BY <1>1 DEF Single
  <2>2. intervals' \in Seq(Interval) /\ Len(intervals') = 1
        /\ intervals'[1] = [start |-> startTime, stop |-> endTime]
    BY <2>1 DEF Interval
  <2>3. LoopTypeOK' /\ Progress'
    BY <2>1, <2>2 DEF LoopTypeOK, Progress
  <2>4. \A k \in 1..Len(intervals') : intervals'[k] = Computed(k)'
    BY <2>1, <2>2 DEF Computed, IntervalStart, IntervalStop
  <2> QED BY <2>3, <2>4 DEF IntervalsComputed
<1>2. CASE Iterate
  <2>1. /\ numIntervals >= 2 /\ idx < numIntervals /\ ~done /\ idx' = idx + 1
        /\ UNCHANGED <<startTime, endTime, numIntervals, done>>
    BY <1>2 DEF Iterate
  <2>2. intervals' = Append(intervals, Computed(idx + 1))
    <3> DEFINE step == (endTime - startTime) \div numIntervals
               stop == IF idx = numIntervals - 1 THEN endTime
                       ELSE startTime + (idx + 1) * step
    <3>1. intervals' = Append(intervals, [start |-> startTime + idx * step, stop |-> stop])
      BY <1>2 DEF Iterate
    <3>2. /\ IntervalStart(startTime, endTime, numIntervals, idx + 1) = startTime + idx * step
          /\ IntervalStop(startTime, endTime, numIntervals, idx + 1) = stop
      BY <2>1 DEF IntervalStart, IntervalStop, Step
    <3> QED BY <3>1, <3>2 DEF Computed
  <2>3. intervals \in Seq(Interval) /\ Len(intervals) = idx
    BY <2>1 DEF LoopTypeOK, Progress
  <2>4. Computed(idx + 1) \in Interval
    BY ComputedType
  <2>5. /\ intervals' \in Seq(Interval) /\ Len(intervals') = idx + 1
        /\ \A k \in 1..idx : intervals'[k] = intervals[k]
        /\ intervals'[idx + 1] = Computed(idx + 1)
    BY <2>2, <2>3, <2>4
  <2>6. \A k : Computed(k)' = Computed(k)
    BY <2>1 DEF Computed
  <2>7. LoopTypeOK' /\ Progress'
    <3>1. LoopTypeOK'
      BY <2>1, <2>5, BoundsAssumption DEF LoopTypeOK
    <3>2. Progress'
      BY <2>1, <2>5 DEF Progress
    <3> QED BY <3>1, <3>2
  <2>8. ASSUME NEW k \in 1..Len(intervals') PROVE intervals'[k] = Computed(k)
    <3>1. CASE k \in 1..idx
      BY <2>3, <2>5, <3>1 DEF IntervalsComputed
    <3>2. CASE k = idx + 1
      BY <2>5, <3>2
    <3> QED BY <2>5, <3>1, <3>2
  <2> QED BY <2>6, <2>7, <2>8 DEF IntervalsComputed
<1>3. CASE Finish
  BY <1>3 DEF Finish, LoopTypeOK, Progress, IntervalsComputed, Computed
<1>4. CASE UNCHANGED loopVars
  BY <1>4 DEF loopVars, LoopTypeOK, Progress, IntervalsComputed, Computed
<1> QED BY <1>1, <1>2, <1>3, <1>4 DEF LoopNext

THEOREM LoopInvariantHolds == LoopSpec => []LoopInvariant
BY InitLoop, NextLoop, PTL DEF LoopSpec

LEMMA DoneIntervals ==
  ASSUME LoopInvariant, done
  PROVE  /\ Len(intervals) = NumIntervals(numIntervals)
         /\ \A k \in 1..Len(intervals) :
              /\ intervals[k].start = IntervalStart(startTime, endTime, numIntervals, k)
              /\ intervals[k].stop = IntervalStop(startTime, endTime, numIntervals, k)
<1>1. Len(intervals) = NumIntervals(numIntervals)
  BY LoopTypes DEF LoopInvariant, Progress, NumIntervals
<1>2. \A k \in 1..Len(intervals) : intervals[k] = Computed(k)
  BY DEF LoopInvariant, IntervalsComputed
<1>3. \A k : /\ Computed(k).start = IntervalStart(startTime, endTime, numIntervals, k)
             /\ Computed(k).stop = IntervalStop(startTime, endTime, numIntervals, k)
  BY DEF Computed
<1> HIDE DEF Computed
<1> QED BY <1>1, <1>2, <1>3

(* The loop of computeIntervals yields the intervals Reindexer works with. *)
THEOREM LoopYieldsIntervals == LoopSpec => []LoopComputesIntervals
<1>1. LoopInvariant => LoopComputesIntervals
  BY DoneIntervals DEF LoopComputesIntervals
<1> QED BY <1>1, LoopInvariantHolds, PTL

(* For any span and any number of writers, the writers ask for every       *)
(* second of the span and for no other one.                                *)
THEOREM WholeSpanIsShared == LoopSpec => []SpanIsShared
<1>1. ASSUME LoopInvariant, done, NEW t \in 0..(MaxEnd + 1)
      PROVE  (\E k \in 1..Len(intervals) : intervals[k].start <= t /\ t <= intervals[k].stop)
               <=> (startTime <= t /\ t <= endTime)
  <2>0. t \in Nat /\ LoopTypeOK
    BY <1>1, BoundsAssumption DEF LoopInvariant
  <2>1. \A k \in 1..Len(intervals) :
          InInterval(startTime, endTime, numIntervals, k, t)
            <=> (intervals[k].start <= t /\ t <= intervals[k].stop)
    BY <1>1, DoneIntervals DEF InInterval
  <2>2. Len(intervals) = NumIntervals(numIntervals)
    BY <1>1, DoneIntervals
  <2>3. ASSUME startTime <= t, t <= endTime
        PROVE  \E k \in 1..NumIntervals(numIntervals) :
                 InInterval(startTime, endTime, numIntervals, k, t)
    <3>1. startTime \in Nat /\ endTime \in Nat /\ numIntervals \in Int
      BY <2>0, LoopTypes
    <3> QED BY <2>0, <2>3, <3>1, IntervalsCoverSpan
  <2>4. ASSUME NEW k \in 1..NumIntervals(numIntervals),
               InInterval(startTime, endTime, numIntervals, k, t)
        PROVE  t <= endTime
    BY <1>1, <2>0, <2>4, LoopTypes, IntervalsEndAtCut
  <2>5. ASSUME NEW k \in 1..NumIntervals(numIntervals),
               InInterval(startTime, endTime, numIntervals, k, t)
        PROVE  startTime <= t
    BY <1>1, <2>0, <2>5, LoopTypes, IntervalsStartAtGenesis
  <2> QED BY <2>1, <2>2, <2>3, <2>4, <2>5
<1>2. LoopInvariant => SpanIsShared
  BY <1>1 DEF SpanIsShared
<1> QED BY <1>2, LoopInvariantHolds, PTL

(* Unless there are more writers than seconds, two writers have at most a  *)
(* boundary in common, so that they race for the documents of one second.  *)
THEOREM WritersShareBoundaries == LoopSpec => []OverlapIsABoundary
<1>1. ASSUME LoopInvariant, done, endTime - startTime >= numIntervals,
             NEW j \in 1..Len(intervals), NEW k \in 1..Len(intervals), j < k
      PROVE  intervals[j].stop <= intervals[k].start
  <2>0. LoopTypeOK
    BY <1>1 DEF LoopInvariant
  <2>1. /\ intervals[j].stop = IntervalStop(startTime, endTime, numIntervals, j)
        /\ intervals[k].start = IntervalStart(startTime, endTime, numIntervals, k)
        /\ Len(intervals) = NumIntervals(numIntervals)
    BY <1>1, DoneIntervals
  <2>2. numIntervals >= 2 /\ j # numIntervals /\ j \in Nat /\ k \in Nat /\ j <= k - 1
    BY <1>1, <2>0, <2>1, LoopTypes DEF NumIntervals
  <2> DEFINE s == Step(startTime, endTime, numIntervals)
  <2>3. s \in Nat
    BY <1>1, <2>0, <2>2, LoopTypes, DivisionBounds DEF Step
  <2>4. /\ intervals[j].stop = startTime + j * s
        /\ intervals[k].start = startTime + (k - 1) * s
    BY <1>1, <2>0, <2>1, <2>2, LoopTypes DEF IntervalStop, IntervalStart
  <2> HIDE DEF s
  <2>5. j * s <= (k - 1) * s
    BY <2>2, <2>3, Z3
  <2>6. j * s \in Int /\ (k - 1) * s \in Int
    BY <2>2, <2>3
  <2> QED BY <1>1, <2>4, <2>5, <2>6, <2>0, LoopTypes
<1>2. LoopInvariant => OverlapIsABoundary
  BY <1>1 DEF OverlapIsABoundary
<1> QED BY <1>2, LoopInvariantHolds, PTL

-----------------------------------------------------------------------------
USE DEF mainVars, jobVars, scrolls, srcVars, dstVars, histVars

LEMMA WritesKeepNameTypes ==
  ASSUME TypeOK, NEW i \in IndexSet
  PROVE  NamesAfterWrite(i) \in [IndexSet -> SUBSET NameKinds]
BY DEF TypeOK, NamesAfterWrite, NameKinds

LEMMA JobsHaveIndices ==
  ASSUME NEW j \in JobIds
  PROVE  j[1] \in IndexSet
BY DEF JobIds, IndexSet

LEMMA NameAdded ==
  ASSUME names \in [IndexSet -> SUBSET NameKinds], NEW i \in IndexSet, NEW kind \in NameKinds,
         names' = names \/ names' = [names EXCEPT ![i] = @ \cup {kind}]
  PROVE  names' \in [IndexSet -> SUBSET NameKinds]
OBVIOUS

LEMMA InitTypeOK == Init => TypeOK
<1> SUFFICES ASSUME Init PROVE TypeOK
  OBVIOUS
<1>1. src \in SourceType /\ src0 \in [Doc -> Nat] /\ clock \in Nat
  BY DataAssumption DEF Init, SourceType
<1>2. dest \in [Doc -> Nat] /\ dest0 \in [Doc -> Nat]
      /\ names \in [IndexSet -> SUBSET NameKinds]
  BY DataAssumption DEF Init, DestinationType
<1>3. flags \in [overwrite : BOOLEAN, skipMappings : BOOLEAN]
  BY ConfigAssumption DEF Init
<1>4. /\ pc \in [JobIds -> JobSteps] /\ aliasSeen \in [JobIds -> BOOLEAN]
      /\ snap \in [JobIds -> [Doc -> Nat]] /\ scrollId \in [JobIds -> BOOLEAN]
      /\ rest \in [JobIds -> SUBSET Doc] /\ page \in [JobIds -> SUBSET Doc]
      /\ skipped \in [JobIds -> SUBSET Doc]
  BY DEF Init, Everywhere, NoVersions, JobSteps
<1>5. /\ phase = "noTimestamp" /\ cur = 1 /\ now = 0 /\ runs = 1
      /\ late = {} /\ squad = FALSE /\ faults = 0
  BY DEF Init
<1>6. late \in SUBSET (Doc \X Nat) /\ squad \in BOOLEAN /\ faults \in Nat
  BY <1>5
<1>7. phase \in Phases /\ cur \in Nat \ {0} /\ now \in Nat /\ runs \in Nat
  BY <1>5 DEF Phases, Running
<1> QED BY <1>1, <1>2, <1>3, <1>4, <1>6, <1>7, Zenon DEF TypeOK

LEMMA MainTypeOK == TypeOK /\ MainStep => TypeOK'
<1> SUFFICES ASSUME TypeOK, MainStep PROVE TypeOK'
  OBVIOUS
<1> USE DEF TypeOK, Phases, Running, JobSteps, Requests, Ended
<1>1. CASE SkipEmptyIndex
  BY <1>1 DEF SkipEmptyIndex
<1>2. CASE StartIndex
  BY <1>2 DEF StartIndex, Goto
<1>3. CASE FinishIndex
  BY <1>3 DEF FinishIndex
<1>4. CASE StartWithTimestamp
  <2>1. src0' \in [Doc -> Nat]
    <3>1. \/ src0' = src0
          \/ src0' = [d \in Doc |-> IF IndexOf[d] \in WithTimestampSet THEN src[d].ver ELSE src0[d]]
      BY <1>4, Zenon DEF StartWithTimestamp
    <3>2. \A d \in Doc : src[d].ver \in Nat /\ src0[d] \in Nat
      BY DEF SourceType
    <3>3. src0 \in [Doc -> Nat]
      OBVIOUS
    <3> HIDE DEF TypeOK
    <3> QED BY <3>1, <3>2, <3>3
  <2>2. /\ phase' = "returned" \/ phase' = "refused" \/ phase' = "withTimestamp"
        /\ cur' = cur \/ cur' = 1
        /\ now' = now \/ now' = clock
    BY <1>4, Zenon DEF StartWithTimestamp
  <2>3. UNCHANGED <<flags, runs, jobVars, srcVars, dstVars, dest0, faults>>
    BY <1>4 DEF StartWithTimestamp
  <2> QED BY <2>1, <2>2, <2>3
<1>5. CASE \E k \in Workers : Spawn(k)
  BY <1>5 DEF Spawn, Goto, FirstStep
<1>6. CASE WaitWorkers
  BY <1>6 DEF WaitWorkers
<1>7. CASE Return
  BY <1>7 DEF Return
<1> QED BY <1>1, <1>2, <1>3, <1>4, <1>5, <1>6, <1>7 DEF MainStep

LEMMA JobTypeOK ==
  ASSUME TypeOK, NEW j \in JobIds, JobStep(j) \/ JobTrouble(j)
  PROVE  TypeOK'
<1> USE JobsHaveIndices DEF TypeOK, Phases, Running, JobSteps, Requests, Ended, Goto, Fault
<1>1. CASE SourceCount(j)
  BY <1>1 DEF SourceCount, FirstStep
<1>2. CASE CheckAlias(j)
  <2>1. faults' \in Nat
    BY <1>2 DEF CheckAlias, Answers
  <2>2. pc' \in [JobIds -> JobSteps]
    BY <1>2 DEF CheckAlias
  <2>3. aliasSeen' \in [JobIds -> BOOLEAN]
    BY <1>2 DEF CheckAlias
  <2> QED BY <1>2, <2>1, <2>2, <2>3 DEF CheckAlias
<1>3. CASE CheckIndex(j)
  BY <1>3 DEF CheckIndex, Answers, AliasStep
<1>4. CASE GetMapping(j)
  BY <1>4 DEF GetMapping
<1>5. CASE CreateIndex(j)
  <2>1. names' \in [IndexSet -> SUBSET NameKinds]
    <3>1. names' = names \/ names' = [names EXCEPT ![j[1]] = @ \cup {"suffixed"}]
      BY <1>5, Zenon DEF CreateIndex
    <3>2. names \in [IndexSet -> SUBSET NameKinds] /\ "suffixed" \in NameKinds /\ j[1] \in IndexSet
      BY DEF NameKinds
    <3> QED BY <3>1, <3>2, NameAdded, Zenon
  <2>2. pc' \in [JobIds -> JobSteps]
    BY <1>5 DEF CreateIndex, AliasStep
  <2>3. UNCHANGED faults \/ Fault
    BY <1>5 DEF CreateIndex
  <2>4. UNCHANGED <<mainVars, aliasSeen, scrolls, srcVars, dest, late, squad, histVars>>
    BY <1>5 DEF CreateIndex
  <2> QED BY <2>1, <2>2, <2>3, <2>4
<1>6. CASE PutAlias(j)
  <2>1. names' \in [IndexSet -> SUBSET NameKinds]
    <3>1. names' = names \/ names' = [names EXCEPT ![j[1]] = @ \cup {"alias"}]
      BY <1>6, Zenon DEF PutAlias
    <3>2. names \in [IndexSet -> SUBSET NameKinds] /\ "alias" \in NameKinds /\ j[1] \in IndexSet
      BY DEF NameKinds
    <3> QED BY <3>1, <3>2, NameAdded, Zenon
  <2>2. pc' \in [JobIds -> JobSteps]
    <3>1. Goto(j, "failed") \/ Goto(j, "search")
      BY <1>6 DEF PutAlias
    <3> QED BY <3>1
  <2>3. UNCHANGED faults \/ Fault
    BY <1>6 DEF PutAlias
  <2>4. UNCHANGED <<mainVars, aliasSeen, scrolls, srcVars, dest, late, squad, histVars>>
    BY <1>6 DEF PutAlias
  <2> QED BY <2>1, <2>2, <2>3, <2>4
<1>7. CASE Search(j)
  <2>1. snap' \in [JobIds -> [Doc -> Nat]]
    BY <1>7 DEF Search, SourceType
  <2>2. /\ rest' \in [JobIds -> SUBSET Doc] /\ page' \in [JobIds -> SUBSET Doc]
        /\ scrollId' \in [JobIds -> BOOLEAN] /\ skipped' \in [JobIds -> SUBSET Doc]
    BY <1>7 DEF Search
  <2>3. faults' \in Nat /\ pc' \in [JobIds -> JobSteps]
    BY <1>7 DEF Search
  <2>4. UNCHANGED <<mainVars, aliasSeen, srcVars, dstVars, histVars>>
    BY <1>7 DEF Search
  <2> QED BY <2>1, <2>2, <2>3, <2>4
<1>8. CASE \E d \in Doc : WriteDoc(j, d)
  <2> PICK d \in Doc : WriteDoc(j, d)
    BY <1>8
  <2>1. names' \in [IndexSet -> SUBSET NameKinds]
    BY WritesKeepNameTypes DEF WriteDoc
  <2>2. dest' \in [Doc -> Nat] /\ page' \in [JobIds -> SUBSET Doc]
    BY DEF WriteDoc
  <2> QED BY <2>1, <2>2 DEF WriteDoc
<1>9. CASE PageWritten(j)
  BY <1>9 DEF PageWritten, AfterScroll
<1>10. CASE Scroll(j)
  <2>1. /\ rest' \in [JobIds -> SUBSET Doc] /\ page' \in [JobIds -> SUBSET Doc]
        /\ skipped' \in [JobIds -> SUBSET Doc]
    BY <1>10 DEF Scroll
  <2>2. pc' \in [JobIds -> JobSteps]
    BY <1>10 DEF Scroll, AfterScroll
  <2>3. faults' \in Nat
    BY <1>10 DEF Scroll
  <2> QED BY <1>10, <2>1, <2>2, <2>3 DEF Scroll
<1>11. CASE DestinationCount(j)
  BY <1>11 DEF DestinationCount
<1>12. CASE RequestFails(j)
  BY <1>12 DEF RequestFails
<1>13. CASE \E d \in Doc : GatewayTimeout(j, d)
  BY <1>13 DEF GatewayTimeout
<1> QED
  BY <1>1, <1>2, <1>3, <1>4, <1>5, <1>6, <1>7, <1>8, <1>9, <1>10, <1>11, <1>12, <1>13
  DEF JobStep, JobTrouble

LEMMA EnvironmentTypeOK == TypeOK /\ Environment => TypeOK'
<1> SUFFICES ASSUME TypeOK, Environment PROVE TypeOK'
  OBVIOUS
<1> USE DEF TypeOK, Phases, Running, JobSteps
<1>1. CASE \E d \in Doc : SourceIndexes(d)
  <2> PICK d \in Doc : SourceIndexes(d)
    BY <1>1
  <2>1. PICK t \in src[d].ts..(clock + 1) :
          src' = [src EXCEPT ![d] = [ver |-> src[d].ver + 1, ts |-> t]]
    BY DEF SourceIndexes
  <2>2. src' \in SourceType
    BY <2>1 DEF SourceType
  <2> QED BY <2>2 DEF SourceIndexes
<1>2. CASE \E d \in Doc : SquadIndexes(d)
  <2> PICK d \in Doc : SquadIndexes(d)
    BY <1>2
  <2>1. names' \in [IndexSet -> SUBSET NameKinds]
    BY WritesKeepNameTypes, DataAssumption DEF SquadIndexes
  <2>2. dest' \in [Doc -> Nat]
    BY DEF SquadIndexes, SourceType
  <2> QED BY <2>1, <2>2 DEF SquadIndexes
<1>3. CASE \E w \in late : LateWrite(w)
  <2> PICK w \in late : LateWrite(w)
    BY <1>3
  <2>1. w[1] \in Doc /\ w[2] \in Nat /\ IndexOf[w[1]] \in IndexSet
    BY DataAssumption
  <2>2. names' \in [IndexSet -> SUBSET NameKinds]
    BY <2>1, WritesKeepNameTypes DEF LateWrite
  <2>3. dest' \in [Doc -> Nat]
    BY <2>1 DEF LateWrite
  <2> QED BY <2>2, <2>3 DEF LateWrite
<1>4. CASE StartSquad
  BY <1>4 DEF StartSquad
<1>5. CASE Crash
  BY <1>5 DEF Crash
<1>6. CASE Rerun
  BY <1>6, ConfigAssumption DEF Rerun, Everywhere, NoVersions, SourceType
<1> QED BY <1>1, <1>2, <1>3, <1>4, <1>5, <1>6 DEF Environment

LEMMA StutterTypeOK == TypeOK /\ UNCHANGED vars => TypeOK'
BY DEF TypeOK, vars

(* Every variable keeps its type in every reachable state.                 *)
THEOREM TypeCorrect == Spec => []TypeOK
<1>1. TypeOK /\ [Next]_vars => TypeOK'
  BY MainTypeOK, JobTypeOK, EnvironmentTypeOK, StutterTypeOK DEF Next
<1> QED BY <1>1, InitTypeOK, PTL DEF Spec

-----------------------------------------------------------------------------
(* The invariant of the copy.                                              *)

LEMMA CopyInvariantInit == Init => CopyInvariant
BY DataAssumption
   DEF Init, CopyInvariant, SourceGrows, CutIsPast, FrozenVersions, LateVersions,
       SharesAccounted, SharesSelected, EmptiedScrolls, Copying, Everywhere, SourceType

(* Steps that touch neither documents nor scrolls.                         *)
LEMMA QuietStep ==
  ASSUME TypeOK, CopyInvariant, CutIsPast', EmptiedScrolls',
         UNCHANGED <<now, clock, snap, rest, page, skipped, src, src0, dest, late>>,
         phase' = "noTimestamp" => phase = "noTimestamp",
         \A j \in JobIds : pc'[j] \in Copying => pc[j] \in Copying
  PROVE  CopyInvariant'
<1> USE DEF CopyInvariant
<1>1. SourceGrows'
  BY DEF SourceGrows
<1>2. FrozenVersions'
  BY DEF FrozenVersions
<1>3. LateVersions'
  BY DEF LateVersions
<1>4. SharesAccounted'
  BY DEF SharesAccounted
<1>5. SharesSelected'
  BY DEF SharesSelected, Selected
<1> QED BY <1>1, <1>2, <1>3, <1>4, <1>5

LEMMA MainCopyInvariant ==
  ASSUME TypeOK, CopyInvariant, MainStep
  PROVE  CopyInvariant'
<1> USE DEF TypeOK
<1>1. CASE SkipEmptyIndex \/ FinishIndex \/ WaitWorkers \/ Return
  <2>1. UNCHANGED <<jobVars, srcVars, dstVars, histVars, now>>
    BY <1>1 DEF SkipEmptyIndex, FinishIndex, WaitWorkers, Return
  <2>2. phase' = phase \/ phase' \in {"refused", "returned"}
    BY <1>1 DEF SkipEmptyIndex, FinishIndex, WaitWorkers, Return
  <2>3. CutIsPast'
    BY <2>1, <2>2 DEF CopyInvariant, CutIsPast
  <2>4. EmptiedScrolls'
    BY <2>1 DEF CopyInvariant, EmptiedScrolls
  <2>5. phase' = "noTimestamp" => phase = "noTimestamp"
    BY <2>2
  <2> QED BY <2>1, <2>3, <2>4, <2>5, QuietStep
<1>2. CASE StartIndex
  <2>1. CutIsPast'
    BY <1>2 DEF StartIndex, CopyInvariant, CutIsPast, Goto
  <2>2. EmptiedScrolls'
    BY <1>2 DEF StartIndex, CopyInvariant, EmptiedScrolls, Goto
  <2>3. \A j \in JobIds : pc'[j] \in Copying => pc[j] \in Copying
    BY <1>2 DEF StartIndex, Goto, Copying
  <2> QED BY <1>2, <2>1, <2>2, <2>3, QuietStep DEF StartIndex
<1>3. CASE \E k \in Workers : Spawn(k)
  <2> PICK k \in Workers : Spawn(k)
    BY <1>3
  <2>1. CutIsPast'
    BY DEF Spawn, CopyInvariant, CutIsPast, Goto
  <2>2. EmptiedScrolls'
    BY DEF Spawn, CopyInvariant, EmptiedScrolls, Goto, FirstStep
  <2>3. \A j \in JobIds : pc'[j] \in Copying => pc[j] \in Copying
    BY DEF Spawn, Goto, Copying, FirstStep
  <2> QED BY <2>1, <2>2, <2>3, QuietStep DEF Spawn
<1>4. CASE StartWithTimestamp
  <2>1. UNCHANGED <<jobVars, srcVars, dstVars, dest0>>
        /\ phase = "noTimestamp" /\ phase' # "noTimestamp"
    BY <1>4 DEF StartWithTimestamp
  <2>2. \A j \in JobIds : j[2] # 0 => pc[j] = "idle"
    BY <1>4 DEF StartWithTimestamp, CopyInvariant, CutIsPast
  <2>3. \A d \in Doc : \/ src0'[d] = src0[d]
                       \/ IndexOf[d] \in WithTimestampSet /\ src0'[d] = src[d].ver
    BY <1>4 DEF StartWithTimestamp
  <2>4. \A d \in Doc : IndexOf[d] \in NoTimestampSet => src0'[d] = src0[d]
    BY <2>3, ConfigAssumption
  <2>5. \A j \in JobIds : pc[j] \in Copying => j[2] = 0 /\ j[1] \in NoTimestampSet
    BY <2>2 DEF JobIds, Copying, Workers
  <2>6. CutIsPast'
    BY <1>4, <2>1, <2>2, ConfigAssumption DEF StartWithTimestamp, CopyInvariant, CutIsPast
  <2>7. SourceGrows' /\ EmptiedScrolls'
    BY <2>1, <2>3 DEF CopyInvariant, SourceGrows, EmptiedScrolls, SourceType
  <2>8. FrozenVersions'
    BY <2>1, <2>4, <2>5 DEF CopyInvariant, FrozenVersions
  <2>9. LateVersions'
    BY <2>1, <2>4 DEF CopyInvariant, LateVersions
  <2>10. SharesAccounted'
    BY <2>1, <2>4, <2>5 DEF CopyInvariant, SharesAccounted, FrozenVersions
  <2>11. SharesSelected'
    BY <2>1, <2>4, <2>5 DEF CopyInvariant, SharesSelected, Selected
  <2> QED BY <2>6, <2>7, <2>8, <2>9, <2>10, <2>11 DEF CopyInvariant
<1> QED BY <1>1, <1>2, <1>3, <1>4 DEF MainStep

(* The steps of a job before its search, and those that end it.            *)
LEMMA SetupCopyInvariant ==
  ASSUME TypeOK, CopyInvariant, NEW j \in JobIds,
         \/ SourceCount(j) \/ CheckAlias(j) \/ CheckIndex(j) \/ GetMapping(j)
         \/ CreateIndex(j) \/ PutAlias(j) \/ RequestFails(j)
  PROVE  CopyInvariant'
<1>1. UNCHANGED <<phase, now, clock, scrolls, src, src0, dest, late>>
  BY DEF SourceCount, CheckAlias, CheckIndex, GetMapping, CreateIndex, PutAlias, RequestFails
<1>2. PICK step \in JobSteps \ (Copying \cup {"idle"}) : Goto(j, step)
  BY DEF SourceCount, CheckAlias, CheckIndex, GetMapping, CreateIndex, PutAlias,
         RequestFails, FirstStep, AliasStep, JobSteps, Requests, Ended, Copying, Goto
<1>3. pc[j] # "idle"
  BY DEF SourceCount, CheckAlias, CheckIndex, GetMapping, CreateIndex, PutAlias,
         RequestFails, Requests
<1>4. \A i \in JobIds : /\ pc'[i] \in Copying => pc[i] = pc'[i]
                        /\ pc'[i] # "idle" => pc[i] # "idle"
  BY <1>2, <1>3 DEF Goto, TypeOK
<1>5. CutIsPast'
  BY <1>1, <1>4 DEF CopyInvariant, CutIsPast
<1>6. EmptiedScrolls'
  BY <1>1, <1>4 DEF CopyInvariant, EmptiedScrolls, Copying
<1> QED BY <1>1, <1>4, <1>5, <1>6, QuietStep

LEMMA SearchCopyInvariant ==
  ASSUME TypeOK, CopyInvariant, NEW j \in JobIds, Search(j)
  PROVE  CopyInvariant'
<1> USE DEF TypeOK
<1> DEFINE selected == {d \in Doc : src[d].ver > 0 /\ Selected(j, d)}
<1>1. /\ UNCHANGED <<phase, now, clock, src, src0, dest, late>>
      /\ pc' = [pc EXCEPT ![j] = "bulk"] /\ pc[j] = "search"
      /\ snap' = [snap EXCEPT ![j] = [d \in Doc |-> IF d \in selected THEN src[d].ver ELSE 0]]
  BY DEF Search, Goto
<1>2. PICK p \in SUBSET selected, left \in SUBSET selected, id \in BOOLEAN :
        /\ page' = [page EXCEPT ![j] = p] /\ rest' = [rest EXCEPT ![j] = left]
        /\ scrollId' = [scrollId EXCEPT ![j] = id] /\ (~id => left = {})
        /\ skipped' = [skipped EXCEPT ![j] = @ \cup (selected \ (p \cup left))]
  BY DEF Search
<1>3. /\ pc'[j] = "bulk" /\ page'[j] = p /\ rest'[j] = left /\ scrollId'[j] = id
      /\ skipped'[j] = skipped[j] \cup (selected \ (p \cup left))
      /\ \A d \in Doc : snap'[j][d] = IF d \in selected THEN src[d].ver ELSE 0
      /\ \A i \in JobIds : i # j =>
           /\ pc'[i] = pc[i] /\ page'[i] = page[i] /\ rest'[i] = rest[i]
           /\ skipped'[i] = skipped[i] /\ snap'[i] = snap[i] /\ scrollId'[i] = scrollId[i]
  BY <1>1, <1>2
<1>4. \A d \in Doc : src[d].ver \in Nat /\ src0[d] \in Nat /\ src0[d] <= src[d].ver
  BY DEF CopyInvariant, SourceGrows, SourceType
<1>5. SourceGrows' /\ CutIsPast' /\ LateVersions'
  BY <1>1 DEF CopyInvariant, SourceGrows, CutIsPast, LateVersions
<1>6. FrozenVersions'
  <2> SUFFICES ASSUME NEW i \in JobIds, pc'[i] \in Copying
               PROVE  /\ \A d \in Doc : snap'[i][d] > 0 =>
                           /\ src0'[d] <= snap'[i][d] /\ snap'[i][d] <= src'[d].ver
                           /\ IndexOf[d] = i[1]
                      /\ \A d \in rest'[i] \cup page'[i] : snap'[i][d] > 0
    BY DEF FrozenVersions
  <2>1. CASE i = j
    BY <1>1, <1>3, <1>4, <2>1 DEF Selected
  <2>2. CASE i # j
    BY <1>1, <1>3, <2>2 DEF CopyInvariant, FrozenVersions
  <2> QED BY <2>1, <2>2
<1>7. SharesAccounted'
  <2> SUFFICES ASSUME NEW i \in JobIds, pc'[i] \in Copying, NEW d \in Doc,
                      snap'[i][d] > 0, d \notin skipped'[i]
               PROVE  d \in rest'[i] \/ d \in page'[i] \/ (dest'[d] > 0 /\ src0'[d] <= dest'[d])
    BY DEF SharesAccounted
  <2>1. CASE i = j
    BY <1>3, <2>1
  <2>2. CASE i # j
    BY <1>1, <1>3, <2>2 DEF CopyInvariant, SharesAccounted
  <2> QED BY <2>1, <2>2
<1>8. SharesSelected'
  <2> SUFFICES ASSUME NEW i \in JobIds, pc'[i] \in Copying, NEW d \in Doc, Selected(i, d)',
                      src0'[d] > 0, i[2] = 0 \/ src'[d].ver = src0'[d]
               PROVE  snap'[i][d] > 0
    BY DEF SharesSelected
  <2>1. Selected(i, d)
    BY <1>1 DEF Selected
  <2>2. CASE i = j
    BY <1>1, <1>3, <1>4, <2>1, <2>2
  <2>3. CASE i # j
    BY <1>1, <1>3, <2>1, <2>3 DEF CopyInvariant, SharesSelected
  <2> QED BY <2>2, <2>3
<1>9. EmptiedScrolls'
  <2>1. pc'[j] = "bulk" /\ (~scrollId'[j] => rest'[j] = {})
    BY <1>2, <1>3
  <2> QED BY <1>3, <2>1 DEF CopyInvariant, EmptiedScrolls
<1> QED BY <1>5, <1>6, <1>7, <1>8, <1>9 DEF CopyInvariant

LEMMA WriteDocCopyInvariant ==
  ASSUME TypeOK, CopyInvariant, NEW j \in JobIds, NEW d \in Doc, WriteDoc(j, d)
  PROVE  CopyInvariant'
<1> USE DEF TypeOK
<1>1. /\ UNCHANGED <<phase, now, pc, clock, src, src0, late, snap, scrollId, rest, skipped>>
      /\ dest' = [dest EXCEPT ![d] = snap[j][d]] /\ d \in page[j]
      /\ page' = [page EXCEPT ![j] = @ \ {d}] /\ pc[j] = "bulk"
  BY DEF WriteDoc
<1>2. SourceGrows' /\ CutIsPast' /\ LateVersions'
  BY <1>1 DEF CopyInvariant, SourceGrows, CutIsPast, LateVersions
<1>3. FrozenVersions'
  BY <1>1 DEF CopyInvariant, FrozenVersions
<1>4. snap[j][d] > 0 /\ src0[d] <= snap[j][d]
  BY <1>1 DEF CopyInvariant, FrozenVersions, Copying
<1>5. SharesAccounted'
  BY <1>1, <1>4 DEF CopyInvariant, SharesAccounted
<1>6. SharesSelected' /\ EmptiedScrolls'
  BY <1>1 DEF CopyInvariant, SharesSelected, Selected, EmptiedScrolls
<1> QED BY <1>2, <1>3, <1>5, <1>6 DEF CopyInvariant

LEMMA PageCopyInvariant ==
  ASSUME TypeOK, CopyInvariant, NEW j \in JobIds, PageWritten(j) \/ DestinationCount(j)
  PROVE  CopyInvariant'
<1> USE DEF TypeOK
<1>1. UNCHANGED <<phase, now, clock, scrolls, src, src0, dest, late>>
  BY DEF PageWritten, DestinationCount
<1>2. \/ pc[j] = "bulk" /\ page[j] = {} /\ scrollId[j] /\ pc' = [pc EXCEPT ![j] = "scroll"]
      \/ /\ pc[j] = "bulk" /\ page[j] = {} /\ ~scrollId[j]
         /\ \E step \in {"destinationCount", "done"} : pc' = [pc EXCEPT ![j] = step]
      \/ pc[j] = "destinationCount" /\ pc' = [pc EXCEPT ![j] = "done"]
  BY DEF PageWritten, DestinationCount, AfterScroll, Goto
<1>3. CutIsPast'
  BY <1>1, <1>2 DEF CopyInvariant, CutIsPast
<1>4. EmptiedScrolls'
  BY <1>1, <1>2 DEF CopyInvariant, EmptiedScrolls
<1>5. \A i \in JobIds : pc'[i] \in Copying => pc[i] \in Copying
  BY <1>2 DEF Copying
<1> QED BY <1>1, <1>3, <1>4, <1>5, QuietStep

LEMMA ScrollCopyInvariant ==
  ASSUME TypeOK, CopyInvariant, NEW j \in JobIds, Scroll(j)
  PROVE  CopyInvariant'
<1> USE DEF TypeOK
<1>1. UNCHANGED <<phase, now, clock, src, src0, dest, late, snap, scrollId>> /\ pc[j] = "scroll"
  BY DEF Scroll
<1>2. PICK p \in SUBSET rest[j], left \in SUBSET rest[j] :
        /\ page' = [page EXCEPT ![j] = p] /\ rest' = [rest EXCEPT ![j] = left]
        /\ skipped' = [skipped EXCEPT ![j] = @ \cup (rest[j] \ (p \cup left))]
        /\ p = {} => left = {}
        /\ pc' = [pc EXCEPT ![j] = IF p = {} THEN AfterScroll(j) ELSE "bulk"]
  BY DEF Scroll, Goto
<1>3. page[j] = {}
  BY <1>1 DEF CopyInvariant, EmptiedScrolls
<1>4. AfterScroll(j) \in {"destinationCount", "done"}
  BY DEF AfterScroll
<1>5. /\ page'[j] = p /\ rest'[j] = left /\ skipped'[j] = skipped[j] \cup (rest[j] \ (p \cup left))
      /\ \/ pc'[j] = "bulk"
         \/ pc'[j] \in {"destinationCount", "done"} /\ p = {} /\ left = {}
      /\ \A i \in JobIds : i # j => /\ pc'[i] = pc[i] /\ page'[i] = page[i]
                                    /\ rest'[i] = rest[i] /\ skipped'[i] = skipped[i]
  BY <1>2, <1>4
<1>6. \A i \in JobIds : pc'[i] \in Copying => pc[i] \in Copying
  BY <1>1, <1>5 DEF Copying
<1>7. SourceGrows' /\ CutIsPast' /\ LateVersions'
  BY <1>1, <1>5 DEF CopyInvariant, SourceGrows, CutIsPast, LateVersions
<1>8. FrozenVersions'
  <2>1. \A i \in JobIds : rest'[i] \cup page'[i] \subseteq rest[i] \cup page[i]
    BY <1>5
  <2> QED BY <1>1, <1>6, <2>1 DEF CopyInvariant, FrozenVersions
<1>9. SharesAccounted'
  <2>1. \A i \in JobIds, d \in Doc : d \notin skipped'[i] /\ (d \in rest[i] \/ d \in page[i])
          => d \in rest'[i] \/ d \in page'[i]
    BY <1>3, <1>5
  <2>2. \A i \in JobIds : skipped[i] \subseteq skipped'[i]
    BY <1>5
  <2> QED BY <1>1, <1>6, <2>1, <2>2 DEF CopyInvariant, SharesAccounted
<1>10. SharesSelected'
  BY <1>1, <1>6 DEF CopyInvariant, SharesSelected, Selected
<1>11. EmptiedScrolls'
  <2>1. pc'[j] = "bulk" => (~scrollId'[j] => rest'[j] = {})
    BY <1>1, <1>5 DEF CopyInvariant, EmptiedScrolls
  <2>2. pc'[j] \in {"destinationCount", "done"} => page'[j] = {} /\ rest'[j] = {}
    BY <1>5
  <2>3. \A i \in JobIds : i # j => scrollId'[i] = scrollId[i]
    BY <1>1
  <2> QED BY <1>5, <2>1, <2>2, <2>3 DEF CopyInvariant, EmptiedScrolls
<1> QED BY <1>7, <1>8, <1>9, <1>10, <1>11 DEF CopyInvariant

LEMMA TimeoutCopyInvariant ==
  ASSUME TypeOK, CopyInvariant, NEW j \in JobIds, NEW d \in Doc, GatewayTimeout(j, d)
  PROVE  CopyInvariant'
<1> USE DEF TypeOK
<1>1. /\ UNCHANGED <<phase, now, jobVars, clock, src, src0, dest>>
      /\ late' = late \cup {<<d, snap[j][d]>>} /\ d \in page[j] /\ pc[j] = "bulk"
  BY DEF GatewayTimeout
<1>2. /\ snap[j][d] > 0 /\ src0[d] <= snap[j][d] /\ snap[j][d] <= src[d].ver
      /\ IndexOf[d] = j[1]
  BY <1>1 DEF CopyInvariant, FrozenVersions, Copying
<1>3. phase = "noTimestamp" => j[1] \in NoTimestampSet
  BY <1>1 DEF CopyInvariant, CutIsPast, JobIds, Workers
<1>4. LateVersions'
  BY <1>1, <1>2, <1>3 DEF CopyInvariant, LateVersions
<1>5. SourceGrows' /\ CutIsPast' /\ FrozenVersions'
  BY <1>1 DEF CopyInvariant, SourceGrows, CutIsPast, FrozenVersions
<1>6. SharesAccounted' /\ SharesSelected' /\ EmptiedScrolls'
  BY <1>1 DEF CopyInvariant, SharesAccounted, SharesSelected, Selected, EmptiedScrolls
<1> QED BY <1>4, <1>5, <1>6 DEF CopyInvariant

LEMMA JobCopyInvariant ==
  ASSUME TypeOK, CopyInvariant, NEW j \in JobIds, JobStep(j) \/ JobTrouble(j)
  PROVE  CopyInvariant'
BY SetupCopyInvariant, SearchCopyInvariant, WriteDocCopyInvariant, PageCopyInvariant,
   ScrollCopyInvariant, TimeoutCopyInvariant
   DEF JobStep, JobTrouble

(* A document that the source indexes is one that changed since the cut,   *)
(* for which no goroutine answers any more.                                *)
LEMMA SourceCopyInvariant ==
  ASSUME TypeOK, CopyInvariant, NEW d \in Doc, SourceIndexes(d)
  PROVE  CopyInvariant'
<1> USE DEF TypeOK
<1>1. UNCHANGED <<phase, now, jobVars, dest, late, src0>> /\ clock' = clock + 1
  BY DEF SourceIndexes
<1>2. PICK t \in src[d].ts..(clock + 1) :
        src' = [src EXCEPT ![d] = [ver |-> src[d].ver + 1, ts |-> t]]
  BY DEF SourceIndexes
<1>3. /\ \A c \in Doc : src[c].ver \in Nat /\ src[c].ts \in Nat /\ src[c].ts <= clock
                        /\ src0[c] \in Nat /\ src0[c] <= src[c].ver
      /\ t \in Nat /\ t <= clock + 1
      /\ \A c \in Doc : src'[c] = IF c = d THEN [ver |-> src[d].ver + 1, ts |-> t] ELSE src[c]
  BY <1>2 DEF SourceType, CopyInvariant, SourceGrows
<1>4. \A c \in Doc : src'[c].ver \in Nat /\ src[c].ver <= src'[c].ver
  BY <1>3
<1>5. SourceGrows'
  <2>1. \A c \in Doc : src0[c] <= src'[c].ver
    BY <1>3, <1>4
  <2>2. clock \in Nat
    OBVIOUS
  <2>3. ASSUME NEW c \in Doc PROVE src'[c].ts <= clock + 1
    <3>1. src'[c].ts = t \/ src'[c].ts = src[c].ts
      <4>1. src'[c] = [ver |-> src[d].ver + 1, ts |-> t] \/ src'[c] = src[c]
        BY <1>3, Zenon
      <4> HIDE DEF TypeOK
      <4> QED BY <4>1
    <3>2. src[c].ts \in Nat /\ src[c].ts <= clock /\ t <= clock + 1
      BY <1>3
    <3> HIDE DEF TypeOK
    <3> QED BY <2>2, <3>1, <3>2
  <2> QED BY <1>1, <2>1, <2>3 DEF SourceGrows
<1>6. CutIsPast' /\ EmptiedScrolls'
  BY <1>1 DEF CopyInvariant, CutIsPast, EmptiedScrolls
<1>7. FrozenVersions'
  <2>1. \A i \in JobIds, c \in Doc : snap[i][c] \in Nat
    OBVIOUS
  <2>2. \A i \in JobIds, c \in Doc : snap[i][c] <= src[c].ver => snap[i][c] <= src'[c].ver
    BY <1>3, <1>4, <2>1
  <2> QED BY <1>1, <2>2 DEF CopyInvariant, FrozenVersions
<1>8. LateVersions'
  <2> SUFFICES ASSUME NEW w \in late
               PROVE  /\ w[2] > 0 /\ src0[w[1]] <= w[2] /\ w[2] <= src'[w[1]].ver
                      /\ phase = "noTimestamp" => IndexOf[w[1]] \in NoTimestampSet
    BY <1>1 DEF LateVersions
  <2>1. w[1] \in Doc /\ w[2] \in Nat
    OBVIOUS
  <2> QED BY <2>1, <1>3, <1>4 DEF CopyInvariant, LateVersions
<1>9. SharesAccounted'
  BY <1>1 DEF CopyInvariant, SharesAccounted
<1>10. SharesSelected'
  <2> SUFFICES ASSUME NEW j \in JobIds, pc[j] \in Copying, NEW c \in Doc, Selected(j, c)',
                      src0[c] > 0, j[2] = 0 \/ src'[c].ver = src0[c]
               PROVE  snap[j][c] > 0
    BY <1>1 DEF SharesSelected
  <2>1. c = d => j[2] = 0
    BY <1>3
  <2>2. Selected(j, c)
    BY <1>1, <1>3, <2>1 DEF Selected
  <2> QED BY <1>3, <2>1, <2>2 DEF CopyInvariant, SharesSelected
<1> QED BY <1>5, <1>6, <1>7, <1>8, <1>9, <1>10 DEF CopyInvariant

(* A write that is new enough for the run disturbs no share.               *)
LEMMA FreshWrite ==
  ASSUME TypeOK, CopyInvariant, NEW d \in Doc, NEW v \in Nat, v > 0, src0[d] <= v,
         dest' = [dest EXCEPT ![d] = v], late' \subseteq late,
         UNCHANGED <<phase, now, jobVars, clock, src, src0>>
  PROVE  CopyInvariant'
<1> USE DEF TypeOK
<1>1. SourceGrows' /\ CutIsPast' /\ FrozenVersions' /\ EmptiedScrolls'
  BY DEF CopyInvariant, SourceGrows, CutIsPast, FrozenVersions, EmptiedScrolls
<1>2. LateVersions'
  BY DEF CopyInvariant, LateVersions
<1>3. SharesAccounted' /\ SharesSelected'
  BY DEF CopyInvariant, SharesAccounted, SharesSelected, Selected
<1> QED BY <1>1, <1>2, <1>3 DEF CopyInvariant

LEMMA EnvironmentCopyInvariant ==
  ASSUME TypeOK, CopyInvariant, Environment
  PROVE  CopyInvariant'
<1> USE DEF TypeOK
<1>1. CASE \E d \in Doc : SourceIndexes(d)
  BY <1>1, SourceCopyInvariant
<1>2. CASE \E d \in Doc : SquadIndexes(d)
  <2> PICK d \in Doc : SquadIndexes(d)
    BY <1>2
  <2>1. src[d].ver \in Nat /\ src[d].ver > 0 /\ src0[d] <= src[d].ver
    BY DEF SquadIndexes, CopyInvariant, SourceGrows, SourceType
  <2> QED BY <2>1, FreshWrite DEF SquadIndexes
<1>3. CASE \E w \in late : LateWrite(w)
  <2> PICK w \in late : LateWrite(w)
    BY <1>3
  <2>1. w[1] \in Doc /\ w[2] \in Nat /\ w[2] > 0 /\ src0[w[1]] <= w[2]
    BY DEF CopyInvariant, LateVersions
  <2> QED BY <2>1, FreshWrite DEF LateWrite
<1>4. CASE StartSquad \/ Crash
  <2>1. /\ UNCHANGED <<now, clock, jobVars, src, src0, dest, late>>
        /\ phase' = phase \/ phase' = "crashed"
    BY <1>4 DEF StartSquad, Crash
  <2>2. CutIsPast' /\ EmptiedScrolls'
    BY <2>1 DEF CopyInvariant, CutIsPast, EmptiedScrolls
  <2> QED BY <2>1, <2>2, QuietStep
<1>5. CASE Rerun
  <2>1. /\ UNCHANGED <<src, clock, dest>> /\ late' = {} /\ now' = 0
        /\ pc' = Everywhere("idle")
        /\ src0' = [d \in Doc |-> src[d].ver] /\ phase' = "noTimestamp"
    BY <1>5 DEF Rerun
  <2>2. \A j \in JobIds : pc'[j] = "idle"
    BY <2>1 DEF Everywhere
  <2>3. SourceGrows'
    BY <2>1 DEF CopyInvariant, SourceGrows, SourceType
  <2> QED BY <2>1, <2>2, <2>3
          DEF CopyInvariant, CutIsPast, FrozenVersions, LateVersions, SharesAccounted,
              SharesSelected, EmptiedScrolls, Copying
<1> QED BY <1>1, <1>2, <1>3, <1>4, <1>5 DEF Environment

LEMMA StutterCopyInvariant ==
  ASSUME TypeOK, CopyInvariant, UNCHANGED vars
  PROVE  CopyInvariant'
BY DEF vars, TypeOK, CopyInvariant, SourceGrows, CutIsPast, FrozenVersions, LateVersions,
       SharesAccounted, SharesSelected, Selected, EmptiedScrolls

(* The copy invariant holds in every reachable state.                      *)
THEOREM CopyInvariantHolds == Spec => []CopyInvariant
<1>1. TypeOK /\ CopyInvariant /\ [Next]_vars => CopyInvariant'
  BY MainCopyInvariant, JobCopyInvariant, EnvironmentCopyInvariant, StutterCopyInvariant
  DEF Next
<1> QED BY <1>1, CopyInvariantInit, TypeCorrect, PTL DEF Spec

(* A job that ends without error has copied its share: nothing is left to  *)
(* fetch or to write, so whatever of its share the answers of the source   *)
(* did not leave out is in the destination.                                *)
THEOREM JobsCopyTheirShare == Spec => []JobCopiesItsShare
<1>1. CopyInvariant => JobCopiesItsShare
  BY DEF CopyInvariant, SharesAccounted, EmptiedScrolls, Copying, JobCopiesItsShare
<1> QED BY <1>1, CopyInvariantHolds, PTL

-----------------------------------------------------------------------------
(* The main goroutine waits for its jobs.                                  *)

(* A job that ended stays as it is until the next run.                     *)
LEMMA EndedJobsStay ==
  ASSUME TypeOK, NEW j \in JobIds, JobStep(j) \/ JobTrouble(j)
  PROVE  /\ UNCHANGED <<flags, phase, cur, now, runs>>
         /\ \A i \in JobIds : pc[i] \in Ended => pc'[i] = pc[i]
<1>1. UNCHANGED <<flags, phase, cur, now, runs>>
  BY DEF JobStep, JobTrouble, SourceCount, CheckAlias, CheckIndex, GetMapping, CreateIndex,
         PutAlias, Search, WriteDoc, PageWritten, Scroll, DestinationCount, RequestFails,
         GatewayTimeout
<1>2. pc[j] \notin Ended
  BY DEF JobStep, JobTrouble, SourceCount, CheckAlias, CheckIndex, GetMapping, CreateIndex,
         PutAlias, Search, WriteDoc, PageWritten, Scroll, DestinationCount, RequestFails,
         GatewayTimeout, Ended, Requests
<1>3. \A i \in JobIds : i # j => pc'[i] = pc[i]
  <2> USE DEF TypeOK
  <2>1. CASE SourceCount(j) \/ CheckAlias(j) \/ CheckIndex(j) \/ GetMapping(j)
    BY <2>1 DEF SourceCount, CheckAlias, CheckIndex, GetMapping, FirstStep, AliasStep, Goto
  <2>2. CASE CreateIndex(j) \/ PutAlias(j) \/ Search(j)
    BY <2>2 DEF CreateIndex, PutAlias, Search, AliasStep, Goto
  <2>3. CASE PageWritten(j) \/ Scroll(j) \/ DestinationCount(j) \/ RequestFails(j)
    BY <2>3 DEF PageWritten, Scroll, DestinationCount, RequestFails, Goto
  <2>4. CASE \E d \in Doc : WriteDoc(j, d) \/ GatewayTimeout(j, d)
    BY <2>4 DEF WriteDoc, GatewayTimeout
  <2> QED BY <2>1, <2>2, <2>3, <2>4 DEF JobStep, JobTrouble
<1> QED BY <1>1, <1>2, <1>3 

LEMMA JobIdentities ==
  /\ DOMAIN IndicesNoTimestamp \subseteq Nat /\ DOMAIN IndicesWithTimestamp \subseteq Nat
  /\ \A p \in DOMAIN IndicesNoTimestamp :
       IndicesNoTimestamp[p] # EmptyName => <<IndicesNoTimestamp[p], 0>> \in JobIds
  /\ \A i \in NoTimestampSet : <<i, 0>> \in JobIds
  /\ \A i \in WithTimestampSet, k \in Workers : <<i, k>> \in JobIds
  /\ \A p \in DOMAIN IndicesWithTimestamp, k \in Workers :
       IndicesWithTimestamp[p] # EmptyName => <<IndicesWithTimestamp[p], k>> \in JobIds
BY ConfigAssumption DEF JobIds, NoTimestampSet, WithTimestampSet

LEMMA MainProgressKept ==
  ASSUME TypeOK, MainProgress, UNCHANGED cur,
         phase' = phase \/ phase' \in {"refused", "crashed"},
         \A i \in JobIds : pc[i] \in Ended => pc'[i] = pc[i]
  PROVE  MainProgress'
BY JobIdentities DEF MainProgress, Ended

LEMMA PositionBefore ==
  ASSUME NEW c \in Nat
  PROVE  \A p \in Nat : p < c + 1 => p < c \/ p = c
OBVIOUS

(* The main goroutine passes an index that is "" or whose jobs ended.      *)
LEMMA MainProgressAdvance ==
  ASSUME TypeOK, MainProgress, UNCHANGED <<phase, pc>>, cur' = cur + 1,
         \/ phase = "noTimestamp"
            /\ (IndicesNoTimestamp[cur] = EmptyName
                  \/ pc[<<IndicesNoTimestamp[cur], 0>>] = "done")
         \/ phase = "withTimestamp"
            /\ (IndicesWithTimestamp[cur] = EmptyName
                  \/ \A k \in Workers : pc[<<IndicesWithTimestamp[cur], k>>] \in Ended)
  PROVE  MainProgress'
<1>1. \A p \in Nat : p < cur' => p < cur \/ p = cur
  <2>1. cur \in Nat
    BY DEF TypeOK
  <2> QED BY <2>1, PositionBefore
<1>2. CASE phase = "noTimestamp"
  <2>1. \A p \in DOMAIN IndicesNoTimestamp :
          p < cur' /\ IndicesNoTimestamp[p] # EmptyName =>
            pc[<<IndicesNoTimestamp[p], 0>>] = "done"
    BY <1>1, <1>2, JobIdentities DEF MainProgress
  <2> QED BY <1>2, <2>1 DEF MainProgress
<1>3. CASE phase = "withTimestamp"
  <2>1. \A p \in DOMAIN IndicesWithTimestamp :
          p < cur' /\ IndicesWithTimestamp[p] # EmptyName =>
            \A k \in Workers : pc[<<IndicesWithTimestamp[p], k>>] \in Ended
    BY <1>1, <1>3, JobIdentities DEF MainProgress
  <2> QED BY <1>3, <2>1 DEF MainProgress
<1> QED BY <1>2, <1>3

LEMMA MainProgressStep ==
  ASSUME TypeOK, MainProgress, MainStep
  PROVE  MainProgress'
<1> USE DEF TypeOK
<1>1. CASE SkipEmptyIndex
  BY <1>1, MainProgressAdvance DEF SkipEmptyIndex, List, Running
<1>2. CASE StartIndex
  <2>1. \A i \in JobIds : pc[i] \in Ended => pc'[i] = pc[i]
    BY <1>2 DEF StartIndex, Goto, Ended
  <2> QED BY <1>2, <2>1, MainProgressKept DEF StartIndex
<1>3. CASE FinishIndex
  <2>1. CASE UNCHANGED cur
    BY <1>3, <2>1, MainProgressKept DEF FinishIndex
  <2>2. CASE cur' = cur + 1 /\ UNCHANGED phase
    BY <1>3, <2>2, MainProgressAdvance DEF FinishIndex, List
  <2> QED BY <1>3, <2>1, <2>2 DEF FinishIndex
<1>4. CASE StartWithTimestamp
  <2>1. \A p \in DOMAIN IndicesNoTimestamp : p < cur
    BY <1>4, ConfigAssumption DEF StartWithTimestamp, List
  <2>2. \A i \in NoTimestampSet : pc[<<i, 0>>] = "done"
    BY <1>4, <2>1 DEF StartWithTimestamp, MainProgress, NoTimestampSet
  <2>3. CASE ~Enabled /\ phase' = "returned"
    BY <1>4, <2>2, <2>3 DEF StartWithTimestamp, MainProgress
  <2>4. CASE phase' = "refused"
    BY <1>4, <2>4 DEF StartWithTimestamp, MainProgress
  <2>5. CASE phase' = "withTimestamp" /\ cur' = 1
    BY <1>4, <2>2, <2>5, ConfigAssumption DEF StartWithTimestamp, MainProgress
  <2> QED BY <1>4, <2>3, <2>4, <2>5 DEF StartWithTimestamp
<1>5. CASE \E k \in Workers : Spawn(k)
  <2>1. \A i \in JobIds : pc[i] \in Ended => pc'[i] = pc[i]
    BY <1>5 DEF Spawn, Goto, Ended
  <2> QED BY <1>5, <2>1, MainProgressKept DEF Spawn
<1>6. CASE WaitWorkers
  BY <1>6, MainProgressAdvance DEF WaitWorkers, List
<1>7. CASE Return
  <2>1. \A p \in DOMAIN IndicesWithTimestamp : p < cur
    BY <1>7, ConfigAssumption DEF Return, List
  <2>2. \A i \in WithTimestampSet, k \in Workers : pc[<<i, k>>] \in Ended
    BY <1>7, <2>1 DEF Return, MainProgress, WithTimestampSet
  <2> QED BY <1>7, <2>2 DEF Return, MainProgress
<1> QED BY <1>1, <1>2, <1>3, <1>4, <1>5, <1>6, <1>7 DEF MainStep

LEMMA MainProgressEnvironment ==
  ASSUME TypeOK, MainProgress, Environment
  PROVE  MainProgress'
<1>1. CASE Rerun
  BY <1>1, ConfigAssumption DEF Rerun, MainProgress
<1>2. CASE ~Rerun
  <2>1. UNCHANGED <<cur, pc>> /\ (phase' = phase \/ phase' = "crashed")
    BY <1>2 DEF Environment, SourceIndexes, SquadIndexes, LateWrite, StartSquad, Crash
  <2> QED BY <2>1, MainProgressKept
<1> QED BY <1>1, <1>2

THEOREM MainWaits == Spec => []MainProgress
<1>1. Init => MainProgress
  BY ConfigAssumption DEF Init, MainProgress
<1>2. TypeOK /\ MainProgress /\ [Next]_vars => MainProgress'
  <2> SUFFICES ASSUME TypeOK, MainProgress, [Next]_vars PROVE MainProgress'
    OBVIOUS
  <2>1. CASE \E j \in JobIds : JobStep(j) \/ JobTrouble(j)
    BY <2>1, EndedJobsStay, MainProgressKept
  <2>2. CASE UNCHANGED vars
    BY <2>2, MainProgressKept DEF vars
  <2> QED BY <2>1, <2>2, MainProgressStep, MainProgressEnvironment DEF Next
<1> QED BY <1>1, <1>2, TypeCorrect, PTL DEF Spec

(* A document with timestamp that did not change since the cut of the time *)
(* span lies before it.                                                    *)
UntouchedBeforeCut ==
  phase = "withTimestamp" \/ (phase = "returned" /\ Enabled) =>
    \A d \in Doc : IndexOf[d] \in WithTimestampSet /\ src[d].ver = src0[d] => src[d].ts <= now

LEMMA UntouchedStep ==
  ASSUME TypeOK, CopyInvariant, UntouchedBeforeCut, [Next]_vars
  PROVE  UntouchedBeforeCut'
<1> USE DEF UntouchedBeforeCut
<1>1. CASE StartWithTimestamp
  <2>1. CASE phase' = "withTimestamp"
    <3>1. UNCHANGED src /\ now' = clock
      BY <1>1, <2>1 DEF StartWithTimestamp
    <3> QED BY <3>1 DEF CopyInvariant, SourceGrows
  <2>2. CASE phase' # "withTimestamp"
    <3>1. phase' = "refused" \/ (phase' = "returned" /\ ~Enabled)
      BY <1>1, <2>2 DEF StartWithTimestamp
    <3> QED BY <3>1
  <2> QED BY <2>1, <2>2
<1>2. CASE MainStep /\ ~StartWithTimestamp
  <2>1. /\ UNCHANGED <<src, src0, now>>
        /\ phase' \in {"withTimestamp", "returned"} => phase = "withTimestamp"
    BY <1>2 DEF MainStep, SkipEmptyIndex, StartIndex, FinishIndex, Spawn, WaitWorkers, Return, Running
  <2> QED BY <2>1
<1>3. CASE \E j \in JobIds : JobStep(j) \/ JobTrouble(j)
  <2>1. UNCHANGED <<src, src0, now, phase>>
    BY <1>3 DEF JobStep, JobTrouble, SourceCount, CheckAlias, CheckIndex, GetMapping, CreateIndex,
         PutAlias, Search, WriteDoc, PageWritten, Scroll, DestinationCount, RequestFails,
         GatewayTimeout
  <2> QED BY <2>1
<1>4. CASE \E d \in Doc : SourceIndexes(d)
  <2> PICK d \in Doc : SourceIndexes(d)
    BY <1>4
  <2>1. PICK t \in src[d].ts..(clock + 1) :
          src' = [src EXCEPT ![d] = [ver |-> src[d].ver + 1, ts |-> t]]
    BY DEF SourceIndexes
  <2>2. UNCHANGED <<phase, now, src0>>
    BY DEF SourceIndexes
  <2>3. src[d].ver \in Nat /\ src0[d] \in Nat /\ src0[d] <= src[d].ver
    BY DEF TypeOK, SourceType, CopyInvariant, SourceGrows
  <2>4. src'[d].ver = src[d].ver + 1 /\ \A c \in Doc : c # d => src'[c] = src[c]
    BY <2>1 DEF TypeOK, SourceType
  <2> QED BY <2>2, <2>3, <2>4
<1>5. CASE Environment /\ ~\E d \in Doc : SourceIndexes(d)
  <2>1. phase' \in {"noTimestamp", "crashed"} \/ UNCHANGED <<src, src0, now, phase>>
    BY <1>5 DEF Environment, SquadIndexes, LateWrite, StartSquad, Crash, Rerun
  <2> QED BY <2>1
<1>6. CASE UNCHANGED vars
  BY <1>6 DEF vars
<1> QED BY <1>1, <1>2, <1>3, <1>4, <1>5, <1>6 DEF Next

THEOREM UntouchedHolds == Spec => []UntouchedBeforeCut
<1>1. Init => UntouchedBeforeCut
  BY DEF Init, UntouchedBeforeCut
<1> QED BY <1>1, UntouchedStep, TypeCorrect, CopyInvariantHolds, PTL DEF Spec

(* A run without error and without warning has copied every document that  *)
(* it was asked for, that stayed the same and that no answer left out: the *)
(* intervals of the writers leave no gap, and the main goroutine returned  *)
(* only after each of them.                                                *)
THEOREM SuccessIsComplete == Spec => []CompleteOnSuccess
<1>1. TypeOK /\ CopyInvariant /\ MainProgress /\ UntouchedBeforeCut /\ JobCopiesItsShare
        => CompleteOnSuccess
  <2> SUFFICES ASSUME TypeOK, CopyInvariant, MainProgress, UntouchedBeforeCut, JobCopiesItsShare,
                      Success, NEW d \in Wanted \ LeftOut,
                      IndexOf[d] \in NoTimestampSet \/ src[d].ver = src0[d]
               PROVE  dest[d] >= src0[d]
    BY DEF CompleteOnSuccess
  <2>1. /\ d \in Doc /\ dest[d] \in Nat /\ src0[d] \in Nat
        /\ \A j \in JobIds : d \notin skipped[j]
    BY DEF Wanted, LeftOut, TypeOK
  <2>2. CASE src0[d] = 0
    BY <2>1, <2>2
  <2>3. ASSUME NEW j \in JobIds, pc[j] = "done", Selected(j, d), src0[d] > 0,
               j[2] = 0 \/ src[d].ver = src0[d]
        PROVE  dest[d] >= src0[d]
    BY <2>1, <2>3 DEF CopyInvariant, SharesSelected, Copying, JobCopiesItsShare
  <2>4. CASE IndexOf[d] \in NoTimestampSet /\ src0[d] > 0
    <3>1. <<IndexOf[d], 0>> \in JobIds /\ pc[<<IndexOf[d], 0>>] = "done"
      BY <2>4, JobIdentities DEF MainProgress, Success
    <3>2. Selected(<<IndexOf[d], 0>>, d)
      BY DEF Selected
    <3> QED BY <2>3, <2>4, <3>1, <3>2
  <2>5. CASE IndexOf[d] \notin NoTimestampSet /\ src0[d] > 0
    <3>1. IndexOf[d] \in WithTimestampSet
      BY <2>1, <2>5, DataAssumption DEF IndexSet
    <3>2. /\ Enabled /\ src[d].ts \in Nat /\ now \in Nat
          /\ BlockchainStartTime <= src[d].ts /\ src[d].ts <= now
      BY <2>1, <2>5, <3>1 DEF Wanted, TypeOK, SourceType, UntouchedBeforeCut, Success
    <3>3. PICK k \in Workers :
            InInterval(BlockchainStartTime, now, NumParallelWrites, k, src[d].ts)
      BY <3>2, IntervalsCoverSpan, ConfigAssumption DEF Workers
    <3>4. <<IndexOf[d], k>> \in JobIds
      BY <3>1, JobIdentities
    <3>5. pc[<<IndexOf[d], k>>] = "done"
      BY <3>1, <3>2, <3>4 DEF MainProgress, Success, Ended
    <3>6. Selected(<<IndexOf[d], k>>, d)
      BY <3>3 DEF Selected
    <3> QED BY <2>3, <2>5, <3>4, <3>5, <3>6
  <2> QED BY <2>1, <2>2, <2>4, <2>5
<1> QED BY <1>1, TypeCorrect, CopyInvariantHolds, MainWaits, UntouchedHolds, JobsCopyTheirShare, PTL

-----------------------------------------------------------------------------
(* What copyMappingIfNecessary does to the names of the destination, and   *)
(* the documents that it already had.                                      *)

NamesInvariant == NamesExclusive /\ MappingProgress

NamesGrow == \A i \in IndexSet : names[i] \subseteq names'[i]

LEMMA WriteNames ==
  ASSUME TypeOK, NamesExclusive, NEW i \in IndexSet, names' = NamesAfterWrite(i)
  PROVE  NamesExclusive' /\ NamesGrow
BY DEF TypeOK, NamesExclusive, NamesAfterWrite, NamesGrow

LEMMA WrittenNameExists ==
  ASSUME TypeOK, NEW i \in IndexSet, names' = NamesAfterWrite(i)
  PROVE  "alias" \in names'[i] \/ "concrete" \in names'[i]
BY DEF TypeOK, NamesAfterWrite

LEMMA MappingKept ==
  ASSUME TypeOK, MappingProgress, NamesGrow, UNCHANGED <<flags, aliasSeen>>,
         \A j \in JobIds :
           \/ pc'[j] = pc[j]
           \/ pc'[j] \notin Copying \cup {"search", "putAlias"}
           \/ pc'[j] \in Copying /\ pc[j] \in Copying \cup {"search"}
           \/ pc'[j] = "search" /\ flags.skipMappings
  PROVE  MappingProgress'
<1> SUFFICES ASSUME NEW j \in JobIds
             PROVE  /\ pc'[j] = "putAlias" => "suffixed" \in names'[j[1]]
                    /\ aliasSeen'[j] => "alias" \in names'[j[1]] /\ flags'.overwrite
                    /\ pc'[j] \in Copying \cup {"search"} /\ ~flags'.skipMappings
                         => "alias" \in names'[j[1]]
  BY DEF MappingProgress
<1>1. names[j[1]] \subseteq names'[j[1]]
  BY JobsHaveIndices DEF NamesGrow
<1>2. aliasSeen'[j] => "alias" \in names'[j[1]] /\ flags'.overwrite
  BY <1>1 DEF MappingProgress
<1>3. pc'[j] = "putAlias" => "suffixed" \in names'[j[1]]
  BY <1>1 DEF MappingProgress, Copying
<1>4. pc'[j] \in Copying \cup {"search"} /\ ~flags'.skipMappings => "alias" \in names'[j[1]]
  BY <1>1 DEF MappingProgress, Copying
<1> QED BY <1>2, <1>3, <1>4

LEMMA MainNamesInvariant ==
  ASSUME TypeOK, NamesInvariant, MainStep
  PROVE  NamesInvariant'
<1> USE DEF NamesInvariant
<1>1. UNCHANGED <<flags, aliasSeen, names>>
  BY DEF MainStep, SkipEmptyIndex, StartIndex, FinishIndex, StartWithTimestamp, Spawn,
         WaitWorkers, Return
<1>2. CASE StartIndex \/ \E k \in Workers : Spawn(k)
  <2>1. \A j \in JobIds : \/ pc'[j] = pc[j] \/ pc'[j] \in {"sourceCount", "checkAlias"}
                          \/ pc'[j] = "search" /\ flags.skipMappings
    BY <1>2 DEF StartIndex, Spawn, Goto, FirstStep, TypeOK
  <2> QED BY <1>1, <2>1, MappingKept DEF NamesGrow, NamesExclusive, Copying
<1>3. CASE UNCHANGED pc
  BY <1>1, <1>3, MappingKept DEF NamesGrow, NamesExclusive
<1> QED
  BY <1>2, <1>3 DEF MainStep, SkipEmptyIndex, FinishIndex, StartWithTimestamp, WaitWorkers, Return

LEMMA CheckNamesInvariant ==
  ASSUME TypeOK, NamesInvariant, NEW j \in JobIds, CheckAlias(j) \/ CheckIndex(j)
  PROVE  NamesInvariant'
<1> USE DEF NamesInvariant
<1>1. UNCHANGED <<flags, names>>
  BY DEF CheckAlias, CheckIndex
<1>2. NamesExclusive'
  BY <1>1 DEF NamesExclusive
<1>3. CASE CheckAlias(j)
  <2>1. \A i \in JobIds : pc'[i] = pc[i] \/ pc'[i] \in {"failed", "checkIndex"}
    BY <1>3 DEF CheckAlias, Goto, TypeOK
  <2>2. \A i \in JobIds : i # j => aliasSeen'[i] = aliasSeen[i]
    BY <1>3 DEF CheckAlias, TypeOK
  <2>3. aliasSeen'[j] => "alias" \in names[j[1]] /\ flags.overwrite
    BY <1>3 DEF CheckAlias, Answers, TypeOK, MappingProgress
  <2> QED BY <1>1, <1>2, <2>1, <2>2, <2>3 DEF MappingProgress, Copying
<1>4. CASE CheckIndex(j)
  <2>1. UNCHANGED aliasSeen /\ \A i \in JobIds : i # j => pc'[i] = pc[i]
    BY <1>4 DEF CheckIndex, Goto, TypeOK
  <2>2. \/ pc'[j] \in {"failed", "getMapping"}
        \/ pc'[j] = "search" /\ aliasSeen[j]
        \/ pc'[j] = "putAlias" /\ "suffixed" \in names[j[1]]
    BY <1>4 DEF CheckIndex, Answers, AliasStep, Goto, TypeOK
  <2> QED BY <1>1, <1>2, <2>1, <2>2 DEF MappingProgress, Copying
<1> QED BY <1>3, <1>4

LEMMA CreateNamesInvariant ==
  ASSUME TypeOK, NamesInvariant, NEW j \in JobIds, CreateIndex(j) \/ PutAlias(j)
  PROVE  NamesInvariant'
<1> USE DEF NamesInvariant
<1>1. UNCHANGED <<flags, aliasSeen>> /\ \A i \in JobIds : i # j => pc'[i] = pc[i]
  BY DEF CreateIndex, PutAlias, Goto, TypeOK
<1>2. j[1] \in IndexSet
  BY JobsHaveIndices
<1>3. CASE UNCHANGED names /\ pc'[j] = "failed"
  BY <1>1, <1>3 DEF NamesExclusive, MappingProgress, Copying
<1>4. CASE CreateIndex(j) /\ "suffixed" \notin names[j[1]]
  <2>1. names' = [names EXCEPT ![j[1]] = @ \cup {"suffixed"}]
    BY <1>4 DEF CreateIndex
  <2>2. pc'[j] = "failed" \/ pc'[j] = AliasStep(j)
    BY <1>4 DEF CreateIndex, Goto, TypeOK
  <2>3. NamesExclusive' /\ NamesGrow /\ "suffixed" \in names'[j[1]]
    BY <1>2, <2>1 DEF NamesExclusive, NamesGrow, TypeOK
  <2>4. \A i \in JobIds : i[1] \in IndexSet
    BY JobsHaveIndices
  <2> QED BY <1>1, <1>2, <2>2, <2>3, <2>4 DEF MappingProgress, NamesGrow, Copying, AliasStep
<1>5. CASE PutAlias(j) /\ "concrete" \notin names[j[1]]
  <2>1. names' = [names EXCEPT ![j[1]] = @ \cup {"alias"}] /\ "concrete" \notin names[j[1]]
        /\ "suffixed" \in names[j[1]]
    BY <1>5 DEF PutAlias, MappingProgress
  <2>2. pc'[j] = "failed" \/ pc'[j] = "search"
    BY <1>5 DEF PutAlias, Goto, TypeOK
  <2>3. NamesExclusive' /\ NamesGrow /\ "alias" \in names'[j[1]]
    BY <1>2, <2>1 DEF NamesExclusive, NamesGrow, TypeOK
  <2>4. \A i \in JobIds : i[1] \in IndexSet
    BY JobsHaveIndices
  <2> QED BY <1>1, <1>2, <2>2, <2>3, <2>4 DEF MappingProgress, NamesGrow, Copying
<1>6. CreateIndex(j) /\ "suffixed" \in names[j[1]] => UNCHANGED names /\ pc'[j] = "failed"
  BY DEF CreateIndex, Goto, TypeOK
<1>7. PutAlias(j) /\ "concrete" \in names[j[1]] => UNCHANGED names /\ pc'[j] = "failed"
  BY DEF PutAlias, Goto, TypeOK
<1> QED BY <1>3, <1>4, <1>5, <1>6, <1>7

LEMMA JobNamesInvariant ==
  ASSUME TypeOK, NamesInvariant, NEW j \in JobIds, JobStep(j) \/ JobTrouble(j)
  PROVE  NamesInvariant'
<1> USE DEF NamesInvariant
<1>1. CASE CheckAlias(j) \/ CheckIndex(j) \/ CreateIndex(j) \/ PutAlias(j)
  BY <1>1, CheckNamesInvariant, CreateNamesInvariant
<1>2. CASE SourceCount(j) \/ GetMapping(j) \/ RequestFails(j)
  <2>1. UNCHANGED <<flags, aliasSeen, names>> /\ \A i \in JobIds : i # j => pc'[i] = pc[i]
    BY <1>2 DEF SourceCount, GetMapping, RequestFails, Goto, TypeOK
  <2>2. pc'[j] \in {"failed", "createIndex", FirstStep}
    BY <1>2 DEF SourceCount, GetMapping, RequestFails, Goto, TypeOK
  <2> QED BY <2>1, <2>2, MappingKept DEF NamesGrow, NamesExclusive, FirstStep, Copying
<1>3. CASE Search(j) \/ PageWritten(j) \/ Scroll(j) \/ DestinationCount(j)
  <2>1. UNCHANGED <<flags, aliasSeen, names>> /\ \A i \in JobIds : i # j => pc'[i] = pc[i]
    BY <1>3 DEF Search, PageWritten, Scroll, DestinationCount, Goto, TypeOK
  <2>2. pc[j] \in Copying \cup {"search"} /\ pc'[j] \in Copying
    BY <1>3 DEF Search, PageWritten, Scroll, DestinationCount, AfterScroll, Goto, TypeOK, Copying
  <2> QED BY <2>1, <2>2, MappingKept DEF NamesGrow, NamesExclusive
<1>4. CASE \E d \in Doc : WriteDoc(j, d)
  <2>1. UNCHANGED <<flags, aliasSeen, pc>> /\ names' = NamesAfterWrite(j[1])
    BY <1>4 DEF WriteDoc
  <2> QED BY <2>1, JobsHaveIndices, WriteNames, MappingKept
<1>5. CASE \E d \in Doc : GatewayTimeout(j, d)
  <2>1. UNCHANGED <<flags, aliasSeen, pc, names>>
    BY <1>5 DEF GatewayTimeout
  <2> QED BY <2>1, MappingKept DEF NamesGrow, NamesExclusive
<1> QED BY <1>1, <1>2, <1>3, <1>4, <1>5 DEF JobStep, JobTrouble

LEMMA EnvironmentNamesInvariant ==
  ASSUME TypeOK, NamesInvariant, Environment
  PROVE  NamesInvariant'
<1> USE DEF NamesInvariant
<1>1. CASE \E d \in Doc : SquadIndexes(d)
  <2> PICK d \in Doc : SquadIndexes(d)
    BY <1>1
  <2>1. UNCHANGED <<flags, aliasSeen, pc>> /\ names' = NamesAfterWrite(IndexOf[d])
    BY DEF SquadIndexes
  <2>2. IndexOf[d] \in IndexSet
    BY DataAssumption
  <2> QED BY <2>1, <2>2, WriteNames, MappingKept
<1>2. CASE \E w \in late : LateWrite(w)
  <2> PICK w \in late : LateWrite(w)
    BY <1>2
  <2>1. UNCHANGED <<flags, aliasSeen, pc>> /\ names' = NamesAfterWrite(IndexOf[w[1]])
    BY DEF LateWrite
  <2>2. IndexOf[w[1]] \in IndexSet
    BY DataAssumption DEF TypeOK
  <2> QED BY <2>1, <2>2, WriteNames, MappingKept
<1>3. CASE Rerun
  <2>1. UNCHANGED names /\ \A j \in JobIds : pc'[j] = "idle" /\ aliasSeen'[j] = FALSE
    BY <1>3 DEF Rerun, Everywhere
  <2> QED BY <2>1 DEF NamesExclusive, MappingProgress, Copying
<1>4. CASE StartSquad \/ Crash \/ \E d \in Doc : SourceIndexes(d)
  <2>1. UNCHANGED <<flags, aliasSeen, pc, names>>
    BY <1>4 DEF StartSquad, Crash, SourceIndexes
  <2> QED BY <2>1, MappingKept DEF NamesGrow, NamesExclusive
<1> QED BY <1>1, <1>2, <1>3, <1>4 DEF Environment

LEMMA NamesInvariantInit == Init => NamesInvariant
<1> SUFFICES ASSUME Init PROVE NamesInvariant
  OBVIOUS
<1>1. NamesExclusive
  BY NamesAssumption DEF Init, NamesExclusive
<1>2. \A j \in JobIds : pc[j] = "idle" /\ aliasSeen[j] = FALSE
  BY DEF Init, Everywhere
<1> QED BY <1>1, <1>2 DEF NamesInvariant, MappingProgress, Copying

THEOREM NamesInvariantHolds == Spec => []NamesInvariant
<1>1. TypeOK /\ NamesInvariant /\ [Next]_vars => NamesInvariant'
  <2> SUFFICES ASSUME TypeOK, NamesInvariant, [Next]_vars PROVE NamesInvariant'
    OBVIOUS
  <2>1. CASE UNCHANGED vars
    <3>1. UNCHANGED <<flags, aliasSeen, pc, names>>
      BY <2>1 DEF vars
    <3> QED BY <3>1, MappingKept DEF NamesGrow, NamesExclusive, NamesInvariant
  <2> QED
    BY <2>1, MainNamesInvariant, JobNamesInvariant, EnvironmentNamesInvariant DEF Next
<1> QED BY <1>1, NamesInvariantInit, TypeCorrect, PTL DEF Spec

(* A job that set up the mapping and ended without error wrote behind the  *)
(* alias, and no concrete index took the alias's name.                     *)
THEOREM CopiesAreBehindAlias == Spec => []CopiesBehindAlias
<1>1. NamesInvariant => CopiesBehindAlias
  BY JobsHaveIndices
     DEF NamesInvariant, NamesExclusive, MappingProgress, Copying, CopiesBehindAlias
<1> QED BY <1>1, NamesInvariantHolds, PTL

-----------------------------------------------------------------------------
(* Documents that were there stay as they were.                            *)

ConsentInvariant ==
  DocumentsNamed /\ UsedNamesRefused /\ NoOverwriteWithoutConsent

(* Steps that write no document and take no job to its search.             *)
LEMMA ConsentKept ==
  ASSUME TypeOK, ConsentInvariant, NamesGrow,
         UNCHANGED <<flags, dest, dest0, late>>, squad => squad',
         \A j \in JobIds :
           \/ pc'[j] = pc[j]
           \/ pc'[j] \notin Copying \cup {"search", "putAlias"}
           \/ pc'[j] \in Copying /\ pc[j] \in Copying \cup {"search"}
           \/ pc'[j] = "search" /\ flags.skipMappings
  PROVE  ConsentInvariant'
<1> USE DEF ConsentInvariant
<1>1. \A d \in Doc : IndexOf[d] \in IndexSet
  BY DataAssumption
<1>2. DocumentsNamed'
  BY <1>1 DEF DocumentsNamed, NamesGrow
<1>3. NoOverwriteWithoutConsent'
  BY DEF NoOverwriteWithoutConsent, TypeOK
<1>4. UsedNamesRefused'
  <2> SUFFICES ASSUME Consent, NEW d \in Doc, dest0[d] > 0
               PROVE  LET i == IndexOf[d] IN
                      /\ \/ "concrete" \in names'[i]
                         \/ "alias" \in names'[i] /\ \A j \in JobIds : j[1] = i => pc'[j] # "putAlias"
                      /\ \A j \in JobIds : j[1] = i => pc'[j] \notin Copying \cup {"search"}
    BY DEF UsedNamesRefused, Consent
  <2>1. names[IndexOf[d]] \subseteq names'[IndexOf[d]]
    BY <1>1 DEF NamesGrow
  <2> QED BY <2>1 DEF UsedNamesRefused, Consent, Copying
<1> QED BY <1>2, <1>3, <1>4

LEMMA MainConsentInvariant ==
  ASSUME TypeOK, ConsentInvariant, MainStep
  PROVE  ConsentInvariant'
<1>1. UNCHANGED <<flags, dest, dest0, late, squad, names>>
  BY DEF MainStep, SkipEmptyIndex, StartIndex, FinishIndex, StartWithTimestamp, Spawn,
         WaitWorkers, Return
<1>2. \A j \in JobIds : \/ pc'[j] = pc[j] \/ pc'[j] \in {"sourceCount", "checkAlias"}
                        \/ pc'[j] = "search" /\ flags.skipMappings
  <2>1. CASE StartIndex \/ \E k \in Workers : Spawn(k)
    BY <2>1 DEF StartIndex, Spawn, Goto, FirstStep, TypeOK
  <2>2. CASE UNCHANGED pc
    BY <2>2
  <2> QED
    BY <2>1, <2>2 DEF MainStep, SkipEmptyIndex, FinishIndex, StartWithTimestamp, WaitWorkers, Return
<1> QED BY <1>1, <1>2, ConsentKept DEF NamesGrow, Copying

(* Without consent a used name stops each job before its search: an alias  *)
(* comes with its index, so CreateIndex fails, and a concrete index makes  *)
(* PutAlias fail.                                                          *)
LEMMA MappingConsentInvariant ==
  ASSUME TypeOK, NamesInvariant, ConsentInvariant, NEW j \in JobIds,
         CheckAlias(j) \/ CheckIndex(j) \/ CreateIndex(j) \/ PutAlias(j)
  PROVE  ConsentInvariant'
<1> USE DEF ConsentInvariant
<1>1. UNCHANGED <<flags, dest, dest0, late, squad>> /\ \A i \in JobIds : i # j => pc'[i] = pc[i]
  BY DEF CheckAlias, CheckIndex, CreateIndex, PutAlias, Goto, TypeOK
<1>2. j[1] \in IndexSet /\ \A d \in Doc : IndexOf[d] \in IndexSet
  BY JobsHaveIndices, DataAssumption
<1>3. NamesGrow
  <2>1. CASE UNCHANGED names
    BY <2>1 DEF NamesGrow
  <2>2. CASE \E kind \in NameKinds : names' = [names EXCEPT ![j[1]] = @ \cup {kind}]
    BY <2>2, <1>2 DEF NamesGrow, TypeOK
  <2> QED BY <2>1, <2>2 DEF CheckAlias, CheckIndex, CreateIndex, PutAlias, NameKinds
<1>4. DocumentsNamed' /\ NoOverwriteWithoutConsent'
  BY <1>1, <1>2, <1>3 DEF DocumentsNamed, NoOverwriteWithoutConsent, NamesGrow
<1>5. UsedNamesRefused'
  <2> SUFFICES ASSUME Consent, NEW d \in Doc, dest0[d] > 0
               PROVE  LET i == IndexOf[d] IN
                      /\ \/ "concrete" \in names'[i]
                         \/ "alias" \in names'[i] /\ \A k \in JobIds : k[1] = i => pc'[k] # "putAlias"
                      /\ \A k \in JobIds : k[1] = i => pc'[k] \notin Copying \cup {"search"}
    BY <1>1 DEF UsedNamesRefused, Consent
  <2>1. names[IndexOf[d]] \subseteq names'[IndexOf[d]]
    BY <1>2, <1>3 DEF NamesGrow
  <2>2. aliasSeen[j] = FALSE /\ ~flags.overwrite
    BY DEF NamesInvariant, MappingProgress, Consent, TypeOK
  <2>3. CASE IndexOf[d] # j[1]
    BY <1>1, <2>1, <2>3 DEF UsedNamesRefused, Consent
  <2>4. CASE IndexOf[d] = j[1] /\ "concrete" \in names[j[1]]
    <3>1. pc'[j] \notin Copying \cup {"search"}
      BY <2>2, <2>4 DEF CheckAlias, CheckIndex, CreateIndex, PutAlias, AliasStep, Goto, TypeOK,
                        Copying
    <3> QED BY <1>1, <2>1, <2>4, <3>1 DEF UsedNamesRefused, Consent
  <2>5. CASE IndexOf[d] = j[1] /\ "alias" \in names[j[1]] /\ "concrete" \notin names[j[1]]
    <3>1. "suffixed" \in names[j[1]] /\ pc[j] # "putAlias"
      BY <1>2, <2>5 DEF NamesInvariant, NamesExclusive, UsedNamesRefused, Consent
    <3>2. pc'[j] \in {"failed", "checkIndex", "getMapping"}
      BY <2>2, <3>1 DEF CheckAlias, CheckIndex, CreateIndex, PutAlias, Goto, TypeOK
    <3> QED BY <1>1, <2>1, <2>5, <3>2 DEF UsedNamesRefused, Consent, Copying
  <2> QED BY <2>3, <2>4, <2>5 DEF UsedNamesRefused, Consent
<1> QED BY <1>4, <1>5

LEMMA WriteConsentInvariant ==
  ASSUME TypeOK, CopyInvariant, NamesInvariant, ConsentInvariant,
         NEW j \in JobIds, NEW d \in Doc, WriteDoc(j, d) \/ GatewayTimeout(j, d)
  PROVE  ConsentInvariant'
<1> USE DEF ConsentInvariant
<1>1. UNCHANGED <<flags, dest0, squad, pc>> /\ pc[j] = "bulk" /\ d \in page[j]
  BY DEF WriteDoc, GatewayTimeout
<1>2. IndexOf[d] = j[1] /\ j[1] \in IndexSet /\ \A c \in Doc : IndexOf[c] \in IndexSet
  <2>1. snap[j][d] > 0
    BY <1>1 DEF CopyInvariant, FrozenVersions, Copying
  <2> QED BY <1>1, <2>1, JobsHaveIndices, DataAssumption DEF CopyInvariant, FrozenVersions, Copying
<1>3. Consent => dest0[d] = 0
  BY <1>1, <1>2 DEF UsedNamesRefused, Copying, TypeOK
<1>4. CASE WriteDoc(j, d)
  <2>1. names' = NamesAfterWrite(j[1]) /\ UNCHANGED late /\ dest' = [dest EXCEPT ![d] = snap[j][d]]
    BY <1>4 DEF WriteDoc
  <2>2. NamesGrow
    BY <1>2, <2>1, WriteNames DEF NamesInvariant
  <2>3. "alias" \in names'[j[1]] \/ "concrete" \in names'[j[1]]
    BY <1>2, <2>1, WrittenNameExists
  <2>4. DocumentsNamed'
    BY <1>2, <2>1, <2>2, <2>3 DEF DocumentsNamed, NamesGrow, TypeOK
  <2>5. NoOverwriteWithoutConsent'
    BY <1>1, <1>3, <2>1 DEF NoOverwriteWithoutConsent, Consent, TypeOK
  <2>6. UsedNamesRefused'
    BY <1>1, <1>2, <2>1, <2>2 DEF UsedNamesRefused, Consent, NamesGrow
  <2> QED BY <2>4, <2>5, <2>6
<1>5. CASE GatewayTimeout(j, d)
  <2>1. UNCHANGED <<dest, names>> /\ late' = late \cup {<<d, snap[j][d]>>}
    BY <1>5 DEF GatewayTimeout
  <2> QED
    BY <1>1, <1>3, <2>1 DEF DocumentsNamed, NoOverwriteWithoutConsent, UsedNamesRefused, Consent
<1> QED BY <1>4, <1>5

LEMMA JobConsentInvariant ==
  ASSUME TypeOK, CopyInvariant, NamesInvariant, ConsentInvariant,
         NEW j \in JobIds, JobStep(j) \/ JobTrouble(j)
  PROVE  ConsentInvariant'
<1>1. CASE SourceCount(j) \/ GetMapping(j) \/ RequestFails(j)
  <2>1. UNCHANGED <<flags, dest, dest0, late, squad, names>>
        /\ \A i \in JobIds : i # j => pc'[i] = pc[i]
    BY <1>1 DEF SourceCount, GetMapping, RequestFails, Goto, TypeOK
  <2>2. pc'[j] \in {"failed", "createIndex", FirstStep}
    BY <1>1 DEF SourceCount, GetMapping, RequestFails, Goto, TypeOK
  <2> QED BY <2>1, <2>2, ConsentKept DEF NamesGrow, FirstStep, Copying
<1>2. CASE Search(j) \/ PageWritten(j) \/ Scroll(j) \/ DestinationCount(j)
  <2>1. UNCHANGED <<flags, dest, dest0, late, squad, names>>
        /\ \A i \in JobIds : i # j => pc'[i] = pc[i]
    BY <1>2 DEF Search, PageWritten, Scroll, DestinationCount, Goto, TypeOK
  <2>2. pc[j] \in Copying \cup {"search"} /\ pc'[j] \in Copying
    BY <1>2 DEF Search, PageWritten, Scroll, DestinationCount, AfterScroll, Goto, TypeOK, Copying
  <2> QED BY <2>1, <2>2, ConsentKept DEF NamesGrow
<1> QED
  BY <1>1, <1>2, MappingConsentInvariant, WriteConsentInvariant DEF JobStep, JobTrouble

LEMMA EnvironmentConsentInvariant ==
  ASSUME TypeOK, CopyInvariant, NamesInvariant, ConsentInvariant, Environment
  PROVE  ConsentInvariant'
<1> USE DEF ConsentInvariant
<1>1. \A d \in Doc : IndexOf[d] \in IndexSet
  BY DataAssumption
<1>2. CASE \E d \in Doc : SquadIndexes(d)
  <2> PICK d \in Doc : SquadIndexes(d)
    BY <1>2
  <2>1. /\ UNCHANGED <<flags, dest0, squad, pc, late>> /\ squad
        /\ names' = NamesAfterWrite(IndexOf[d]) /\ dest' = [dest EXCEPT ![d] = src[d].ver]
    BY DEF SquadIndexes
  <2>2. NamesGrow /\ ("alias" \in names'[IndexOf[d]] \/ "concrete" \in names'[IndexOf[d]])
    BY <1>1, <2>1, WriteNames, WrittenNameExists DEF NamesInvariant
  <2>3. DocumentsNamed' /\ NoOverwriteWithoutConsent'
    BY <1>1, <2>1, <2>2 DEF DocumentsNamed, NamesGrow, TypeOK, NoOverwriteWithoutConsent
  <2>4. UsedNamesRefused'
    BY <1>1, <2>1, <2>2 DEF UsedNamesRefused, Consent, NamesGrow
  <2> QED BY <2>3, <2>4
<1>3. CASE \E w \in late : LateWrite(w)
  <2> PICK w \in late : LateWrite(w)
    BY <1>3
  <2>1. w[1] \in Doc /\ w[2] \in Nat /\ IndexOf[w[1]] \in IndexSet
    BY <1>1 DEF TypeOK
  <2>2. /\ UNCHANGED <<flags, dest0, squad, pc>> /\ late' \subseteq late
        /\ names' = NamesAfterWrite(IndexOf[w[1]]) /\ dest' = [dest EXCEPT ![w[1]] = w[2]]
    BY DEF LateWrite
  <2>3. NamesGrow /\ ("alias" \in names'[IndexOf[w[1]]] \/ "concrete" \in names'[IndexOf[w[1]]])
    BY <2>1, <2>2, WriteNames, WrittenNameExists DEF NamesInvariant
  <2>4. Consent => dest0[w[1]] = 0
    BY DEF UsedNamesRefused
  <2>5. DocumentsNamed'
    BY <1>1, <2>1, <2>2, <2>3 DEF DocumentsNamed, NamesGrow, TypeOK
  <2>6. NoOverwriteWithoutConsent'
    BY <2>1, <2>2, <2>4 DEF NoOverwriteWithoutConsent, Consent, TypeOK
  <2>7. UsedNamesRefused'
    BY <1>1, <2>2, <2>3 DEF UsedNamesRefused, Consent, NamesGrow
  <2> QED BY <2>5, <2>6, <2>7
<1>4. CASE Rerun
  <2>1. /\ UNCHANGED <<dest, names, squad>> /\ dest0' = dest /\ late' = {}
        /\ \A j \in JobIds : pc'[j] = "idle"
    BY <1>4 DEF Rerun, Everywhere
  <2> QED
    BY <2>1 DEF DocumentsNamed, NoOverwriteWithoutConsent, UsedNamesRefused, Copying
<1>5. CASE StartSquad \/ Crash \/ \E d \in Doc : SourceIndexes(d)
  <2>1. UNCHANGED <<flags, dest, dest0, late, pc, names>> /\ (squad => squad')
    BY <1>5 DEF StartSquad, Crash, SourceIndexes
  <2> QED BY <2>1, ConsentKept DEF NamesGrow
<1> QED BY <1>2, <1>3, <1>4, <1>5 DEF Environment

LEMMA ConsentInvariantInit == Init => ConsentInvariant
<1> SUFFICES ASSUME Init PROVE ConsentInvariant
  OBVIOUS
<1>1. /\ \A j \in JobIds : pc[j] = "idle"
      /\ dest0 = dest /\ late = {}
  BY DEF Init, Everywhere
<1>2. DocumentsNamed
  BY NamesAssumption DEF Init, DocumentsNamed
<1> QED
  BY <1>1, <1>2 DEF ConsentInvariant, DocumentsNamed, UsedNamesRefused, NoOverwriteWithoutConsent,
                    Copying

(* Without --overwrite and --skip-mappings, and until a squad writes, what *)
(* the destination held when the run began is what it holds.               *)
THEOREM NothingOverwrittenWithoutConsent == Spec => []NoOverwriteWithoutConsent
<1>1. TypeOK /\ CopyInvariant /\ NamesInvariant /\ ConsentInvariant /\ [Next]_vars
        => ConsentInvariant'
  <2> SUFFICES ASSUME TypeOK, CopyInvariant, NamesInvariant, ConsentInvariant, [Next]_vars
               PROVE  ConsentInvariant'
    OBVIOUS
  <2>1. CASE UNCHANGED vars
    <3>1. UNCHANGED <<flags, dest, dest0, late, squad, pc, names>>
      BY <2>1 DEF vars
    <3> QED BY <3>1, ConsentKept DEF NamesGrow
  <2> QED
    BY <2>1, MainConsentInvariant, JobConsentInvariant, EnvironmentConsentInvariant DEF Next
<1>2. ConsentInvariant => NoOverwriteWithoutConsent
  BY DEF ConsentInvariant
<1> QED
  BY <1>1, <1>2, ConsentInvariantInit, TypeCorrect, CopyInvariantHolds, NamesInvariantHolds, PTL
  DEF Spec

-----------------------------------------------------------------------------
(* What the observing squad wrote.  The destination begins with nothing    *)
(* newer than the source.                                                  *)
SquadRule == \A s \in DestinationStates, o \in SourceStates, d \in Doc : s.docs[d] <= o[d].ver

DestinationBehind == \A d \in Doc : dest[d] <= src[d].ver

(* A scroll and a late write hold the only version of a document that      *)
(* never changes.                                                          *)
OnlyVersions ==
  /\ \A j \in JobIds : pc[j] \in Copying =>
       \A d \in rest[j] \cup page[j] : d \notin Mutable => snap[j][d] = src[d].ver
  /\ \A w \in late : w[1] \notin Mutable => w[2] = src[w[1]].ver

SquadWaits == squad => \A j \in JobIds : j[1] \in Gated => pc[j] \in Ended

SquadInvariant == DestinationBehind /\ OnlyVersions /\ SquadWaits

LEMMA SquadInvariantInit == SquadRule /\ Init => SquadInvariant
<1> SUFFICES ASSUME SquadRule, Init PROVE SquadInvariant
  OBVIOUS
<1>1. src \in SourceStates /\ \E s \in DestinationStates : dest = s.docs
  BY DEF Init
<1>2. (\A j \in JobIds : pc[j] = "idle") /\ late = {} /\ ~squad
  BY DEF Init, Everywhere
<1> QED
  BY <1>1, <1>2 DEF SquadRule, SquadInvariant, DestinationBehind, OnlyVersions, SquadWaits, Copying

(* Steps that write nothing and begin no scroll.                           *)
LEMMA SquadKept ==
  ASSUME SquadInvariant, UNCHANGED <<dest, snap, src, late, squad>>,
         \A j \in JobIds : pc'[j] \in Copying =>
           pc[j] \in Copying /\ rest'[j] \cup page'[j] \subseteq rest[j] \cup page[j],
         \A j \in JobIds : pc[j] \in Ended => pc'[j] = pc[j]
  PROVE  SquadInvariant' /\ \A d \in Doc : dest'[d] = dest[d]
<1> USE DEF SquadInvariant
<1>1. DestinationBehind'
  BY DEF DestinationBehind
<1>2. OnlyVersions'
  BY DEF OnlyVersions
<1>3. SquadWaits'
  BY DEF SquadWaits
<1> QED BY <1>1, <1>2, <1>3

(* The step that NoStaleOverwrite asks for.                                *)
SetBack(d) == d \in Mutable /\ (Delayed(d) \/ IndexOf[d] \notin Gated)
NeverBack == squad => \A d \in Doc : dest'[d] < dest[d] => SetBack(d)

LEMMA MainSquad ==
  ASSUME TypeOK, SquadInvariant, MainStep
  PROVE  SquadInvariant' /\ NeverBack
<1>1. UNCHANGED <<dest, snap, src, late, squad, rest, page>>
  BY DEF MainStep, SkipEmptyIndex, StartIndex, FinishIndex, StartWithTimestamp, Spawn,
         WaitWorkers, Return
<1>2. \A j \in JobIds : \/ pc'[j] = pc[j]
                        \/ pc[j] = "idle" /\ pc'[j] \in {"sourceCount", "search", "checkAlias"}
  <2>1. CASE StartIndex \/ \E k \in Workers : Spawn(k)
    BY <2>1 DEF StartIndex, Spawn, Goto, FirstStep, TypeOK
  <2>2. CASE UNCHANGED pc
    BY <2>2
  <2> QED
    BY <2>1, <2>2 DEF MainStep, SkipEmptyIndex, FinishIndex, StartWithTimestamp, WaitWorkers, Return
<1>3. \A j \in JobIds : pc'[j] \in Copying =>
        pc[j] \in Copying /\ rest'[j] \cup page'[j] \subseteq rest[j] \cup page[j]
  BY <1>1, <1>2 DEF Copying
<1>4. \A j \in JobIds : pc[j] \in Ended => pc'[j] = pc[j]
  BY <1>2 DEF Ended
<1> QED BY <1>1, <1>3, <1>4, SquadKept DEF NeverBack, TypeOK

LEMMA SearchSquad ==
  ASSUME TypeOK, SquadInvariant, NEW j \in JobIds, Search(j)
  PROVE  SquadInvariant'
<1> DEFINE selected == {d \in Doc : src[d].ver > 0 /\ Selected(j, d)}
<1>1. /\ UNCHANGED <<dest, src, late, squad>> /\ pc[j] = "search"
      /\ snap' = [snap EXCEPT ![j] = [d \in Doc |-> IF d \in selected THEN src[d].ver ELSE 0]]
      /\ pc' = [pc EXCEPT ![j] = "bulk"]
  BY DEF Search, Goto
<1>2. PICK p \in SUBSET selected, left \in SUBSET selected :
        page' = [page EXCEPT ![j] = p] /\ rest' = [rest EXCEPT ![j] = left]
  BY DEF Search
<1>3. DestinationBehind'
  BY <1>1 DEF SquadInvariant, DestinationBehind
<1>4. SquadWaits'
  BY <1>1 DEF SquadInvariant, SquadWaits, Ended, TypeOK
<1>5. ASSUME NEW i \in JobIds, pc'[i] \in Copying, NEW d \in rest'[i] \cup page'[i],
             d \notin Mutable
      PROVE  snap'[i][d] = src'[d].ver
  <2>1. CASE i = j
    <3>1. d \in selected
      BY <1>2, <1>5, <2>1 DEF TypeOK
    <3>2. snap'[j] = [e \in Doc |-> IF e \in selected THEN src[e].ver ELSE 0]
      BY <1>1 DEF TypeOK
    <3> QED BY <1>1, <2>1, <3>1, <3>2
  <2>2. CASE i # j
    <3>1. pc'[i] = pc[i] /\ rest'[i] = rest[i] /\ page'[i] = page[i] /\ snap'[i] = snap[i]
      BY <1>1, <1>2, <2>2 DEF TypeOK
    <3> QED BY <1>1, <1>5, <3>1 DEF SquadInvariant, OnlyVersions
  <2> QED BY <2>1, <2>2
<1>6. \A w \in late' : w[1] \notin Mutable => w[2] = src'[w[1]].ver
  BY <1>1 DEF SquadInvariant, OnlyVersions
<1> QED BY <1>3, <1>4, <1>5, <1>6 DEF SquadInvariant, OnlyVersions

(* A job that writes after the squad started copies an index that README.md*)
(* does not name, and sets back only a document that changes.              *)
LEMMA WriteDocSquad ==
  ASSUME TypeOK, CopyInvariant, SquadInvariant,
         NEW j \in JobIds, NEW e \in Doc, WriteDoc(j, e)
  PROVE  SquadInvariant' /\ NeverBack
<1>1. /\ UNCHANGED <<pc, snap, rest, src, late, squad>> /\ pc[j] = "bulk" /\ e \in page[j]
      /\ dest' = [dest EXCEPT ![e] = snap[j][e]] /\ page' = [page EXCEPT ![j] = @ \ {e}]
  BY DEF WriteDoc
<1>2. snap[j][e] <= src[e].ver /\ IndexOf[e] = j[1]
  <2>1. snap[j][e] > 0
    BY <1>1 DEF CopyInvariant, FrozenVersions, Copying
  <2> QED BY <1>1, <2>1 DEF CopyInvariant, FrozenVersions, Copying
<1>3. /\ squad => IndexOf[e] \notin Gated
      /\ e \notin Mutable => snap[j][e] = src[e].ver
  BY <1>1, <1>2 DEF SquadInvariant, SquadWaits, OnlyVersions, Ended, Copying
<1>4. DestinationBehind'
  BY <1>1, <1>2 DEF SquadInvariant, DestinationBehind, TypeOK
<1>5. OnlyVersions'
  <2>1. \A i \in JobIds : page'[i] \subseteq page[i]
    BY <1>1 DEF TypeOK
  <2> QED BY <1>1, <2>1 DEF SquadInvariant, OnlyVersions
<1>6. NeverBack
  <2>1. src[e].ver \in Nat /\ dest[e] <= src[e].ver /\ \A d \in Doc : dest[d] \in Nat
    BY DEF SquadInvariant, DestinationBehind, TypeOK, SourceType
  <2>2. dest'[e] < dest[e] => e \in Mutable
    BY <1>1, <1>3, <2>1 DEF TypeOK
  <2>3. \A d \in Doc : d # e => dest'[d] = dest[d]
    BY <1>1 DEF TypeOK
  <2> QED BY <1>3, <2>1, <2>2, <2>3 DEF NeverBack, SetBack
<1> QED BY <1>1, <1>4, <1>5, <1>6 DEF SquadInvariant, SquadWaits

LEMMA JobSquad ==
  ASSUME TypeOK, CopyInvariant, SquadInvariant,
         NEW j \in JobIds, JobStep(j) \/ JobTrouble(j)
  PROVE  SquadInvariant' /\ NeverBack
<1>1. CASE \E e \in Doc : WriteDoc(j, e)
  BY <1>1, WriteDocSquad
<1>2. CASE Search(j)
  <2>1. dest' = dest
    BY <1>2 DEF Search
  <2> QED BY <1>2, <2>1, SearchSquad DEF NeverBack, TypeOK
<1>3. CASE \E e \in Doc : GatewayTimeout(j, e)
  <2> PICK e \in Doc : GatewayTimeout(j, e)
    BY <1>3
  <2>1. /\ UNCHANGED <<pc, snap, rest, page, src, dest, squad>>
        /\ late' = late \cup {<<e, snap[j][e]>>} /\ pc[j] = "bulk" /\ e \in page[j]
    BY DEF GatewayTimeout
  <2>2. e \notin Mutable => snap[j][e] = src[e].ver
    BY <2>1 DEF SquadInvariant, OnlyVersions, Copying
  <2>3. OnlyVersions'
    BY <2>1, <2>2 DEF SquadInvariant, OnlyVersions
  <2> QED BY <2>1, <2>3 DEF SquadInvariant, DestinationBehind, SquadWaits, NeverBack, TypeOK
<1>4. CASE Scroll(j) \/ PageWritten(j) \/ DestinationCount(j) \/ RequestFails(j)
  <2>1. /\ UNCHANGED <<dest, snap, src, late, squad>>
        /\ \A i \in JobIds : i # j => /\ pc'[i] = pc[i]
                                      /\ rest'[i] = rest[i] /\ page'[i] = page[i]
    BY <1>4 DEF Scroll, PageWritten, DestinationCount, RequestFails, Goto, TypeOK
  <2>2. rest'[j] \cup page'[j] \subseteq rest[j] \cup page[j]
    BY <1>4 DEF Scroll, PageWritten, DestinationCount, RequestFails, TypeOK
  <2>3. pc'[j] \in Copying => pc[j] \in Copying
    BY <1>4 DEF Scroll, PageWritten, DestinationCount, RequestFails, Goto, TypeOK, Copying
  <2>4. \A i \in JobIds : pc[i] \in Ended => pc'[i] = pc[i]
    BY EndedJobsStay
  <2>5. \A i \in JobIds : pc'[i] \in Copying =>
          pc[i] \in Copying /\ rest'[i] \cup page'[i] \subseteq rest[i] \cup page[i]
    BY <2>1, <2>2, <2>3
  <2> QED BY <2>1, <2>4, <2>5, SquadKept DEF NeverBack, TypeOK
<1>5. CASE SourceCount(j) \/ CheckAlias(j) \/ CheckIndex(j) \/ GetMapping(j) \/ CreateIndex(j)
           \/ PutAlias(j)
  <2>1. /\ UNCHANGED <<dest, snap, src, late, squad, rest, page>>
        /\ \A i \in JobIds : i # j => pc'[i] = pc[i]
    BY <1>5 DEF SourceCount, CheckAlias, CheckIndex, GetMapping, CreateIndex, PutAlias, Goto, TypeOK
  <2>2. pc'[j] \notin Copying
    BY <1>5 DEF SourceCount, CheckAlias, CheckIndex, GetMapping, CreateIndex, PutAlias, Goto,
                FirstStep, AliasStep, TypeOK, Copying
  <2>3. \A i \in JobIds : pc[i] \in Ended => pc'[i] = pc[i]
    BY EndedJobsStay
  <2>4. \A i \in JobIds : pc'[i] \in Copying =>
          pc[i] \in Copying /\ rest'[i] \cup page'[i] \subseteq rest[i] \cup page[i]
    BY <2>1, <2>2
  <2> QED BY <2>1, <2>3, <2>4, SquadKept DEF NeverBack, TypeOK
<1> QED BY <1>1, <1>2, <1>3, <1>4, <1>5 DEF JobStep, JobTrouble

LEMMA EnvironmentSquad ==
  ASSUME TypeOK, CopyInvariant, SquadInvariant, Environment
  PROVE  SquadInvariant' /\ NeverBack
<1>1. ASSUME NEW e \in Doc, SourceIndexes(e) PROVE SquadInvariant' /\ NeverBack
  <2>1. PICK t \in src[e].ts..(clock + 1) :
          src' = [src EXCEPT ![e] = [ver |-> src[e].ver + 1, ts |-> t]]
    BY <1>1 DEF SourceIndexes
  <2>2. /\ UNCHANGED <<pc, snap, rest, page, dest, late, squad>>
        /\ e \in Mutable \/ src[e].ver = 0
    BY <1>1 DEF SourceIndexes
  <2>3. \A d \in Doc : src[d].ver \in Nat /\ src'[d].ver \in Nat /\ dest[d] \in Nat
                       /\ src'[d].ver >= src[d].ver /\ (d # e => src'[d] = src[d])
    BY <2>1 DEF TypeOK, SourceType
  <2>4. DestinationBehind'
    BY <2>2, <2>3 DEF SquadInvariant, DestinationBehind
  <2>5. ASSUME NEW i \in JobIds, pc[i] \in Copying, NEW d \in rest[i] \cup page[i],
               d \notin Mutable
        PROVE  snap[i][d] = src'[d].ver
    <3>1. d \in Doc /\ snap[i][d] \in Nat /\ snap[i][d] > 0 /\ snap[i][d] = src[d].ver
      BY <2>5 DEF CopyInvariant, FrozenVersions, SquadInvariant, OnlyVersions, TypeOK
    <3>2. d # e
      BY <2>2, <2>5, <3>1
    <3> QED BY <2>3, <3>1, <3>2
  <2>6. ASSUME NEW w \in late, w[1] \notin Mutable
        PROVE  w[2] = src'[w[1]].ver
    <3>1. w[1] \in Doc /\ w[2] > 0 /\ w[2] = src[w[1]].ver
      BY <2>6 DEF CopyInvariant, LateVersions, SquadInvariant, OnlyVersions, TypeOK
    <3>2. w[1] # e
      BY <2>2, <2>6, <3>1
    <3> QED BY <2>3, <3>1, <3>2
  <2>7. OnlyVersions'
    BY <2>2, <2>5, <2>6 DEF OnlyVersions
  <2>8. NeverBack
    BY <2>2, <2>3 DEF NeverBack
  <2> QED BY <2>2, <2>4, <2>7, <2>8 DEF SquadInvariant, SquadWaits
<1>2. ASSUME NEW e \in Doc, SquadIndexes(e) PROVE SquadInvariant' /\ NeverBack
  <2>1. /\ UNCHANGED <<pc, snap, rest, page, src, late, squad>>
        /\ dest' = [dest EXCEPT ![e] = src[e].ver]
    BY <1>2 DEF SquadIndexes
  <2>2. \A d \in Doc : src[d].ver \in Nat /\ dest[d] \in Nat /\ dest[d] <= src[d].ver
    BY DEF SquadInvariant, DestinationBehind, TypeOK, SourceType
  <2>3. DestinationBehind' /\ NeverBack
    BY <2>1, <2>2 DEF DestinationBehind, NeverBack, TypeOK
  <2> QED BY <2>1, <2>3 DEF SquadInvariant, OnlyVersions, SquadWaits
<1>3. CASE \E w \in late : LateWrite(w)
  <2> PICK w \in late : LateWrite(w)
    BY <1>3
  <2>1. /\ UNCHANGED <<pc, snap, rest, page, src, squad>> /\ late' = late \ {w}
        /\ dest' = [dest EXCEPT ![w[1]] = w[2]]
    BY DEF LateWrite
  <2>2. /\ w[1] \in Doc /\ w[2] \in Nat /\ w[2] <= src[w[1]].ver
        /\ w[1] \notin Mutable => w[2] = src[w[1]].ver
    BY DEF CopyInvariant, LateVersions, SquadInvariant, OnlyVersions, TypeOK
  <2>3. \A d \in Doc : /\ src[d].ver \in Nat /\ dest[d] \in Nat /\ dest[d] <= src[d].ver
                       /\ dest'[d] = IF d = w[1] THEN w[2] ELSE dest[d]
    BY <2>1, <2>2 DEF SquadInvariant, DestinationBehind, TypeOK, SourceType
  <2>4. DestinationBehind'
    BY <2>1, <2>2, <2>3 DEF DestinationBehind
  <2>5. OnlyVersions' /\ SquadWaits'
    BY <2>1 DEF SquadInvariant, OnlyVersions, SquadWaits
  <2>6. Delayed(w[1])
    BY <2>1 DEF Delayed
  <2>7. ASSUME NEW d \in Doc, dest'[d] < dest[d] PROVE SetBack(d)
    BY <2>2, <2>3, <2>6, <2>7 DEF SetBack
  <2> QED BY <2>4, <2>5, <2>7 DEF SquadInvariant, NeverBack
<1>4. CASE StartSquad
  <2>1. /\ UNCHANGED <<pc, snap, rest, page, src, dest, late>>
        /\ \A j \in JobIds : j[1] \in Gated => pc[j] \in Ended
    BY <1>4 DEF StartSquad
  <2> QED BY <2>1 DEF SquadInvariant, DestinationBehind, OnlyVersions, SquadWaits, NeverBack, TypeOK
<1>5. CASE Crash
  <2>1. UNCHANGED <<pc, snap, rest, page, src, dest, late, squad>>
    BY <1>5 DEF Crash
  <2> QED BY <2>1 DEF SquadInvariant, DestinationBehind, OnlyVersions, SquadWaits, NeverBack, TypeOK
<1>6. CASE Rerun
  <2>1. /\ UNCHANGED <<src, dest, late, squad>> /\ ~squad /\ late = {}
        /\ \A j \in JobIds : pc'[j] = "idle"
    BY <1>6 DEF Rerun, Everywhere
  <2> QED
    BY <2>1 DEF SquadInvariant, DestinationBehind, OnlyVersions, SquadWaits, NeverBack, Copying
<1> QED BY <1>1, <1>2, <1>3, <1>4, <1>5, <1>6 DEF Environment

LEMMA StutterSquad ==
  ASSUME TypeOK, SquadInvariant, UNCHANGED vars
  PROVE  SquadInvariant' /\ NeverBack
BY DEF vars, SquadInvariant, DestinationBehind, OnlyVersions, SquadWaits, NeverBack, TypeOK

(* Once the squad runs, nothing that the tool does, in any later run, after*)
(* any crash or failed request, sets back a document that never changes,   *)
(* nor one of an index that README.md names, but by a write that the       *)
(* gateway had given up on.                                                *)
THEOREM SquadNeverSetBack == SquadRule => (Spec => NoStaleOverwrite)
<1> SUFFICES ASSUME SquadRule PROVE Spec => NoStaleOverwrite
  OBVIOUS
<1>1. Init => SquadInvariant
  BY SquadInvariantInit
<1>2. TypeOK /\ CopyInvariant /\ SquadInvariant /\ [Next]_vars => SquadInvariant' /\ NeverBack
  BY MainSquad, JobSquad, EnvironmentSquad, StutterSquad DEF Next
<1>3. TypeOK /\ CopyInvariant /\ SquadInvariant /\ [Next]_vars => [NeverBack]_vars
  BY <1>2
<1>4. Spec => [][NeverBack]_vars
  BY <1>1, <1>2, <1>3, TypeCorrect, CopyInvariantHolds, PTL DEF Spec
<1> QED BY <1>4, PTL DEF NoStaleOverwrite, NeverBack, SetBack

-----------------------------------------------------------------------------
(* The elasticreindexer implements CopyService.                            *)

Held == [d \in Doc |-> src[d].ver]

LEMMA InitRefines == Init => Service!Init
<1> SUFFICES ASSUME Init PROVE Service!Init
  OBVIOUS
<1>1. TypeOK
  BY InitTypeOK
<1>2. src0 = Held /\ phase = "noTimestamp"
  BY DEF Init, Held
<1>3. LeftOut = {}
  BY DEF Init, Everywhere, LeftOut
<1> QED BY <1>1, <1>2, <1>3 DEF Service!Init, Held, TypeOK, SourceType, Wanted, Status, Running

(* Writing version v of d is a Write of the service.                       *)
LEMMA WriteRefines ==
  ASSUME TypeOK, NEW d \in Doc, NEW v \in Nat, v > 0, src0[d] <= v, v <= src[d].ver,
         dest' = [dest EXCEPT ![d] = v], UNCHANGED <<phase, pc, skipped, src, src0>>
  PROVE  Service!Write(d)
<1>1. src[d].ver \in Nat /\ src0[d] \in Nat
  BY DEF TypeOK, SourceType
<1>2. v \in src0[d]..Held[d]
  BY <1>1 DEF Held
<1>3. Status' = Status /\ Wanted' = Wanted /\ Held' = Held /\ LeftOut' = LeftOut
  BY DEF Status, Success, Wanted, Held, LeftOut
<1> QED BY <1>2, <1>3 DEF Service!Write, Held

(* Steps that change no document, and neither start nor end a run.         *)
LEMMA QuietRefines ==
  ASSUME UNCHANGED <<src, src0, dest, skipped>>, Status' = Status
  PROVE  UNCHANGED Service!vars
BY DEF Service!vars, Wanted, LeftOut

LEMMA MainRefines ==
  ASSUME TypeOK, MainProgress', CompleteOnSuccess', MainStep
  PROVE  Service!Next \/ UNCHANGED Service!vars
<1>1. UNCHANGED <<src, dest, skipped>> /\ phase \in Running
  BY DEF MainStep, SkipEmptyIndex, StartIndex, FinishIndex, StartWithTimestamp, Spawn,
         WaitWorkers, Return, Running
<1>2. Held' = Held /\ Wanted' = Wanted /\ LeftOut' = LeftOut /\ Status = "running"
  BY <1>1 DEF Held, Wanted, LeftOut, Status
<1>3. CASE StartWithTimestamp /\ phase' = "withTimestamp"
  <2>1. Status' = "running"
    BY <1>3 DEF Status, Running
  <2>2. src0' = [d \in Doc |-> IF IndexOf[d] \in WithTimestampSet THEN src[d].ver ELSE src0[d]]
    BY <1>3 DEF StartWithTimestamp
  <2> DEFINE cut == {d \in Doc : IndexOf[d] \in WithTimestampSet}
  <2>3. src0' = [d \in Doc |-> IF d \in cut THEN Held[d] ELSE src0[d]] /\ cut \in SUBSET Doc
    BY <2>2 DEF Held
  <2> HIDE DEF cut
  <2>4. Service!Look
    BY <1>1, <1>2, <2>1, <2>3, Zenon DEF Service!Look, Held
  <2> QED BY <2>4 DEF Service!Next
<1>4. CASE ~(StartWithTimestamp /\ phase' = "withTimestamp")
  <2>0. UNCHANGED src0
    BY <1>4 DEF MainStep, SkipEmptyIndex, StartIndex, FinishIndex, StartWithTimestamp, Spawn,
                WaitWorkers, Return
  <2>1. CASE phase' \in Running
    BY <1>1, <1>2, <2>0, <2>1, QuietRefines DEF Status
  <2>2. CASE phase' \notin Running /\ ~Success'
    <3>1. Status' = "incomplete"
      BY <2>2 DEF Status
    <3>2. Service!GiveUp
      BY <1>1, <1>2, <2>0, <3>1 DEF Service!GiveUp, Held
    <3> QED BY <3>2 DEF Service!Next
  <2>3. CASE phase' \notin Running /\ Success'
    <3>1. Status' = "complete"
      BY <2>3 DEF Status
    <3>2. \A d \in Wanted \ LeftOut : src[d].ver = src0[d] => dest[d] >= src[d].ver
      BY <1>1, <1>2, <2>0, <2>3 DEF CompleteOnSuccess
    <3>3. Service!Complete
      BY <1>1, <1>2, <2>0, <3>1, <3>2
         DEF Service!Complete, Service!Copied, Service!Untouched, Held, Wanted
    <3> QED BY <3>3 DEF Service!Next
  <2> QED BY <2>1, <2>2, <2>3
<1> QED BY <1>3, <1>4

LEMMA JobRefines ==
  ASSUME TypeOK, CopyInvariant, NEW j \in JobIds, JobStep(j) \/ JobTrouble(j)
  PROVE  Service!Next \/ UNCHANGED Service!vars
<1>1. phase \in Running /\ UNCHANGED <<phase, src, src0>>
  BY DEF JobStep, JobTrouble, SourceCount, CheckAlias, CheckIndex, GetMapping, CreateIndex,
         PutAlias, Search, WriteDoc, PageWritten, Scroll, DestinationCount, RequestFails,
         GatewayTimeout
<1>2. Status' = Status /\ Status = "running"
  BY <1>1 DEF Status
<1>3. CASE \E d \in Doc : WriteDoc(j, d)
  <2> PICK d \in Doc : WriteDoc(j, d)
    BY <1>3
  <2>1. pc[j] = "bulk" /\ d \in page[j] /\ dest' = [dest EXCEPT ![d] = snap[j][d]]
        /\ UNCHANGED <<pc, skipped>>
    BY DEF WriteDoc
  <2>2. snap[j][d] \in Nat /\ snap[j][d] > 0 /\ src0[d] <= snap[j][d] /\ snap[j][d] <= src[d].ver
    BY <2>1 DEF CopyInvariant, FrozenVersions, Copying, TypeOK
  <2>3. Service!Write(d)
    BY <1>1, <2>1, <2>2, WriteRefines
  <2> QED BY <2>3 DEF Service!Next
<1>4. CASE Search(j) \/ Scroll(j)
  <2>1. UNCHANGED <<src, src0, dest>>
    BY <1>4 DEF Search, Scroll
  <2>2. \A i \in JobIds : skipped[i] \subseteq skipped'[i] /\ skipped'[i] \subseteq Doc
    <3>1. \E more \in SUBSET Doc : skipped' = [skipped EXCEPT ![j] = @ \cup more]
      <4>1. CASE Search(j)
        <5> DEFINE selected == {d \in Doc : src[d].ver > 0 /\ Selected(j, d)}
        <5>1. \E p, left \in SUBSET selected :
                skipped' = [skipped EXCEPT ![j] = @ \cup (selected \ (p \cup left))]
          BY <4>1 DEF Search
        <5> QED BY <5>1
      <4>2. CASE Scroll(j)
        <5>1. \E p, left \in SUBSET rest[j] :
                skipped' = [skipped EXCEPT ![j] = @ \cup (rest[j] \ (p \cup left))]
          BY <4>2 DEF Scroll
        <5> QED BY <5>1 DEF TypeOK
      <4> QED BY <1>4, <4>1, <4>2
    <3> QED BY <3>1 DEF TypeOK
  <2>3. LeftOut \subseteq LeftOut' /\ LeftOut' \subseteq Doc
    BY <2>2 DEF LeftOut
  <2>4. Held' = Held /\ Wanted' = Wanted
    BY <2>1 DEF Held, Wanted
  <2>5. Service!AnswerInPart
    BY <1>2, <2>1, <2>3, <2>4 DEF Service!AnswerInPart, Held
  <2> QED BY <2>5 DEF Service!Next
<1>5. CASE ~(Search(j) \/ Scroll(j) \/ \E d \in Doc : WriteDoc(j, d))
  <2>1. UNCHANGED <<dest, skipped>>
    BY <1>5 DEF JobStep, JobTrouble, SourceCount, CheckAlias, CheckIndex, GetMapping, CreateIndex,
         PutAlias, PageWritten, DestinationCount, RequestFails, GatewayTimeout
  <2> QED BY <1>1, <1>2, <2>1, QuietRefines
<1> QED BY <1>3, <1>4, <1>5

LEMMA EnvironmentRefines ==
  ASSUME TypeOK, CopyInvariant, Environment
  PROVE  Service!Next \/ UNCHANGED Service!vars
<1>1. CASE \E d \in Doc : SourceIndexes(d)
  <2> PICK d \in Doc : SourceIndexes(d)
    BY <1>1
  <2>0. PICK t \in src[d].ts..(clock + 1) :
          src' = [src EXCEPT ![d] = [ver |-> src[d].ver + 1, ts |-> t]]
    BY DEF SourceIndexes
  <2>1. UNCHANGED <<phase, pc, skipped, src0, dest>>
    BY DEF SourceIndexes
  <2>2. Status' = Status /\ LeftOut' = LeftOut
    BY <2>1 DEF Status, Success, LeftOut
  <2>3. src'[d] = [ver |-> src[d].ver + 1, ts |-> t]
        /\ \A c \in Doc : c # d => src'[c] = src[c]
    BY <2>0 DEF TypeOK, SourceType
  <2>4. Held' = [Held EXCEPT ![d] = @ + 1]
    <3>1. \A c \in Doc : src'[c].ver = IF c = d THEN src[d].ver + 1 ELSE src[c].ver
      BY <2>3
    <3>2. Held' = [c \in Doc |-> IF c = d THEN src[d].ver + 1 ELSE src[c].ver]
      BY <3>1 DEF Held
    <3> QED BY <3>2 DEF Held
  <2>5. src[d].ts \in Nat /\ t \in Nat /\ src[d].ts <= t
    BY DEF TypeOK, SourceType
  <2>6. Wanted' \in {Wanted, Wanted \cup {d}}
    <3>1. \A c \in Doc : c # d => (c \in Wanted' <=> c \in Wanted)
      BY <2>3 DEF Wanted
    <3>2. d \in Wanted => d \in Wanted'
      BY <2>3, <2>5, ConfigAssumption DEF Wanted
    <3>3. Wanted \subseteq Doc /\ Wanted' \subseteq Doc
      BY DEF Wanted
    <3> QED BY <3>1, <3>2, <3>3
  <2>7. Service!Update(d)
    BY <2>1, <2>2, <2>4, <2>6 DEF Service!Update, Held
  <2> QED BY <2>7 DEF Service!Next
<1>2. CASE \E d \in Doc : SquadIndexes(d)
  <2> PICK d \in Doc : SquadIndexes(d)
    BY <1>2
  <2>1. /\ UNCHANGED <<phase, pc, skipped, src, src0>> /\ src[d].ver > 0
        /\ dest' = [dest EXCEPT ![d] = src[d].ver]
    BY DEF SquadIndexes
  <2>2. src[d].ver \in Nat /\ src0[d] <= src[d].ver /\ src[d].ver <= src[d].ver
    BY DEF CopyInvariant, SourceGrows, TypeOK, SourceType
  <2>3. Service!Write(d)
    BY <2>1, <2>2, WriteRefines
  <2> QED BY <2>3 DEF Service!Next
<1>3. CASE \E w \in late : LateWrite(w)
  <2> PICK w \in late : LateWrite(w)
    BY <1>3
  <2>1. UNCHANGED <<phase, pc, skipped, src, src0>> /\ dest' = [dest EXCEPT ![w[1]] = w[2]]
    BY DEF LateWrite
  <2>2. /\ w[1] \in Doc /\ w[2] \in Nat /\ w[2] > 0
        /\ src0[w[1]] <= w[2] /\ w[2] <= src[w[1]].ver
    BY DEF CopyInvariant, LateVersions, TypeOK
  <2>3. Service!Write(w[1])
    BY <2>1, <2>2, WriteRefines
  <2> QED BY <2>2, <2>3 DEF Service!Next
<1>4. CASE StartSquad
  <2>1. UNCHANGED <<src, src0, dest, skipped>> /\ Status' = Status
    BY <1>4 DEF StartSquad, Status, Success
  <2> QED BY <2>1, QuietRefines
<1>5. CASE Crash
  <2>1. UNCHANGED <<src, src0, dest, skipped>> /\ Status = "running" /\ Status' = "incomplete"
    BY <1>5 DEF Crash, Status, Success, Running
  <2>2. Service!GiveUp
    BY <2>1 DEF Service!GiveUp, Wanted, LeftOut
  <2> QED BY <2>2 DEF Service!Next
<1>6. CASE Rerun
  <2>1. /\ UNCHANGED <<src, dest>> /\ src0' = Held
        /\ Status # "running" /\ Status' = "running"
    BY <1>6 DEF Rerun, Status, Success, Running, Held
  <2>2. LeftOut' = {}
    BY <1>6 DEF Rerun, Everywhere, LeftOut
  <2>3. Service!Begin
    BY <2>1, <2>2 DEF Service!Begin, Wanted, Held
  <2> QED BY <2>3 DEF Service!Next
<1> QED BY <1>1, <1>2, <1>3, <1>4, <1>5, <1>6 DEF Environment

(* Every run of the tool, with its goroutines, pages, retries, crashes and *)
(* reruns, is a behaviour of the copy service: a run ends "complete" only  *)
(* when each document that stayed as it was, and that the source did not   *)
(* leave out of its answers, is in the destination.                        *)
THEOREM ReindexerImplementsCopyService == Spec => ImplementsCopyService
<1>1. TypeOK /\ CopyInvariant /\ MainProgress' /\ CompleteOnSuccess'
        /\ [Next]_vars => [Service!Next]_(Service!vars)
  <2>1. ASSUME UNCHANGED vars PROVE UNCHANGED Service!vars
    <3>1. UNCHANGED <<src, src0, dest, skipped>> /\ Status' = Status
      BY <2>1 DEF vars, Status, Success
    <3> QED BY <3>1, QuietRefines
  <2> QED BY <2>1, MainRefines, JobRefines, EnvironmentRefines DEF Next
<1> QED
  BY <1>1, InitRefines, TypeCorrect, CopyInvariantHolds, MainWaits,
     SuccessIsComplete, PTL
  DEF Spec, ImplementsCopyService, Service!Spec
=============================================================================
