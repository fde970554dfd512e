--------------------------- MODULE DBMergerProofs ---------------------------
(* The merge of any number of sources, over any number of runs.            *)
EXTENDS DBMerger, TLAPS

LEMMA OverlayType == ASSUME TypeOK PROVE Overlay \in Database /\ Nothing \in Database
BY DEF TypeOK, Database, Overlay, Nothing

(* Holds looks at one key of the database.                                 *)
LEMMA HoldsCongruence ==
  ASSUME NEW m, NEW l, NEW n, NEW k, m[k] = l[k], Holds(m, n, k)
  PROVE  Holds(l, n, k)
BY DEF Holds

(* A source that does not hold the key leaves its value.                   *)
LEMMA HoldsExtends ==
  ASSUME NEW m, NEW n \in Nat, NEW k, Holds(m, n, k),
         Offered(n + 1, k) = NoValue
  PROVE  Holds(m, n + 1, k)
<1>1. CASE m[k] = NoValue /\ \A j \in 1..n : Offered(j, k) = NoValue
  <2>1. \A j \in 1..(n + 1) : j \in 1..n \/ j = n + 1
    OBVIOUS
  <2> QED BY <1>1, <2>1 DEF Holds
<1>2. CASE m[k] # NoValue
  <2>1. PICK j \in 1..n : /\ m[k] = Offered(j, k)
                          /\ \A i \in (j + 1)..n : Offered(i, k) = NoValue
    BY <1>2 DEF Holds
  <2>2. j \in 1..(n + 1) /\ \A i \in (j + 1)..(n + 1) : i \in (j + 1)..n \/ i = n + 1
    OBVIOUS
  <2>3. \A i \in (j + 1)..(n + 1) : Offered(i, k) = NoValue
    BY <2>1, <2>2
  <2> QED BY <1>2, <2>1, <2>2, <2>3 DEF Holds
<1> QED BY <1>1, <1>2 DEF Holds

(* A source that holds the key gives it its value.                         *)
LEMMA HoldsLast ==
  ASSUME NEW m, NEW n \in Nat \ {0}, NEW k,
         m[k] = Offered(n, k), m[k] # NoValue
  PROVE  Holds(m, n, k)
<1>1. n \in 1..n /\ (n + 1)..n = {}
  OBVIOUS
<1> QED BY <1>1 DEF Holds

LEMMA HoldsFirst ==
  ASSUME NEW m, NEW k, m[k] = Offered(1, k) PROVE Holds(m, 1, k)
<1>1. 1..1 = {1} /\ (1 + 1)..1 = {}
  OBVIOUS
<1> QED BY <1>1 DEF Holds

-----------------------------------------------------------------------------
(* A run that got past the checks has its sources, and a place in them.    *)
SourcesGiven ==
  /\ pc \notin {"idle", "check", "failed"} => Len(given) >= 2
  /\ pc \in {"check", "copy"} => at = 1
  /\ pc = "merge" => at \in 2..Len(given)

LEMMA InitTypeOK == Init => TypeOK /\ SourcesGiven
<1> SUFFICES ASSUME Init PROVE TypeOK /\ SourcesGiven
  OBVIOUS
<1>1. content \in [Path -> Database]
  BY MergerAssumption DEF Init, Database
<1>2. Nothing \in Database /\ disk = Nothing /\ batch = Nothing
  BY DEF Init, Database, Nothing
<1>3. /\ dirs \in SUBSET Path /\ dbs \in SUBSET Path
      /\ given \in Seq(Path) /\ unread \in SUBSET Path /\ lost \in SUBSET Key
      /\ left \in SUBSET Key
  BY DEF Init
<1>4. destDir \in {"missing", "empty"} /\ found = [dir |-> destDir, disk |-> disk]
  BY DEF Init
<1>5. found \in [dir : {"missing", "empty", "filled"}, disk : Database]
  BY <1>2, <1>4
<1>6. lastErr \in BOOLEAN
  BY Zenon DEF Init
<1>7. /\ destDir \in {"missing", "empty", "filled"} /\ disk \in Database /\ batch \in Database
      /\ at \in Nat \ {0} /\ runs \in Nat /\ pc = "idle"
  BY <1>2 DEF Init
<1> QED BY <1>1, <1>3, <1>5, <1>6, <1>7 DEF TypeOK, SourcesGiven

(* A key gets a value of a source.                                         *)
LEMMA ValueType ==
  ASSUME TypeOK, NEW j \in 1..Len(given), NEW k \in Key
  PROVE  /\ given[j] \in Path
         /\ [disk EXCEPT ![k] = content[given[j]][k]] \in Database
         /\ [batch EXCEPT ![k] = content[given[j]][k]] \in Database
BY DEF TypeOK, Database

LEMMA NextTypeOK ==
  TypeOK /\ SourcesGiven /\ [Next]_vars => TypeOK' /\ SourcesGiven'
<1> SUFFICES ASSUME TypeOK, SourcesGiven, [Next]_vars PROVE TypeOK' /\ SourcesGiven'
  OBVIOUS
<1> DEFINE Goal == TypeOK /\ SourcesGiven
<1> USE DEF SourcesGiven, dest
<1>1. ASSUME NEW paths \in Arguments, Launch(paths) PROVE Goal'
  <2>1. paths \in Seq(Path) /\ given' = paths
    BY <1>1 DEF Arguments, Launch
  <2>2. found' \in [dir : {"missing", "empty", "filled"}, disk : Database]
    BY <1>1 DEF Launch, TypeOK
  <2>3. lastErr' \in BOOLEAN
    BY <1>1, Zenon DEF Launch
  <2>4. at' = 1 /\ left' \in SUBSET Key /\ unread' \in SUBSET Path
        /\ lost' \in SUBSET Key /\ runs' \in Nat
        /\ pc' = "check" /\ UNCHANGED <<content, dirs, dbs, destDir, disk, batch>>
    BY <1>1 DEF Launch, TypeOK
  <2> QED BY <2>1, <2>2, <2>3, <2>4 DEF TypeOK
<1>2. CASE Refuse \/ CopyFails \/ Copied
  BY <1>2 DEF Refuse, CopyFails, Copied, Fail, TypeOK
<1>3. CASE BeginCopy
  BY <1>3, MergerAssumption DEF BeginCopy, KeysOf, TypeOK
<1>4. CASE OpenPersister \/ OpenFails
  <2>1. at <= Len(given) => given[at] \in Path
    BY DEF TypeOK
  <2> QED BY <1>4, <2>1 DEF OpenPersister, OpenFails, TypeOK
<1>5. ASSUME NEW k \in Key, CopyEntry(k) PROVE Goal'
  <2>1. 1 \in 1..Len(given) /\ disk' = [disk EXCEPT ![k] = content[given[1]][k]]
    BY <1>5 DEF CopyEntry, TypeOK
  <2>2. disk' \in Database
    BY <2>1, ValueType
  <2> QED BY <1>5, <2>2 DEF CopyEntry, TypeOK
<1>6. ASSUME NEW k \in Key, Put(k) \/ PutFails(k) PROVE Goal'
  <2>1. /\ at \in 1..Len(given)
        /\ batch' = batch \/ batch' = [batch EXCEPT ![k] = content[given[at]][k]]
    BY <1>6 DEF Put, PutFails, TypeOK
  <2>2. batch \in Database
    BY DEF TypeOK
  <2>3. [batch EXCEPT ![k] = content[given[at]][k]] \in Database
    BY <2>1, ValueType
  <2>4. batch' \in Database
    BY <2>1, <2>2, <2>3
  <2> QED BY <1>6, <2>4 DEF Put, PutFails, Fail, TypeOK
<1>7. CASE BeginMerge \/ RangeStops \/ NextSource \/ Merged
  BY <1>7 DEF BeginMerge, RangeStops, NextSource, Merged, KeysOf, TypeOK
<1>8. CASE CloseSource
  <2>1. lastErr' \in BOOLEAN
    BY <1>8, Zenon DEF CloseSource, TypeOK
  <2> QED BY <1>8, <2>1 DEF CloseSource, TypeOK
<1>9. CASE SourcesClosed
  BY <1>9 DEF SourcesClosed, TypeOK
<1>10. CASE Flush \/ CloseDest \/ CloseDestFails \/ Exit \/ ClearDestination
  BY <1>10, OverlayType
  DEF Flush, CloseDest, CloseDestFails, Fail, Exit, ClearDestination, TypeOK
<1>11. ASSUME NEW k \in Key, CopyEntryUnclosed(k) PROVE Goal'
  BY <1>11 DEF CopyEntryUnclosed, TypeOK
<1>12. CASE UNCHANGED vars
  BY <1>12 DEF vars, TypeOK
<1> QED
  BY <1>1, <1>2, <1>3, <1>4, <1>5, <1>6, <1>7, <1>8, <1>9, <1>10, <1>11, <1>12 DEF Next

(* The type invariant of the merger.                                       *)
THEOREM MergerTypeOK == Spec => []TypeOK
BY InitTypeOK, NextTypeOK, PTL DEF Spec

-----------------------------------------------------------------------------
(* A destination with no entry holds nothing, and a batch only what the    *)
(* run under way has put.                                                  *)
DestinationInvariant ==
  /\ destDir # "filled" => disk = Nothing
  /\ pc = "open" /\ at > 1 => destDir = "filled"
  /\ pc \in {"merge", "closeSources", "closeDest", "done"} => destDir = "filled"
  /\ batch # Nothing => destDir = "filled"
  /\ pc \in {"idle", "check", "copy", "open", "done"} => batch = Nothing
  /\ pc = "check" => lost = {}
  /\ pc = "copy" => \A k \in left : k \notin lost /\ disk[k] = NoValue
  /\ pc = "check" => found = [dir |-> destDir, disk |-> disk]
  /\ pc \notin {"idle", "check", "failed"} => found.dir # "filled"
  /\ pc = "failed" /\ found.dir = "filled" => batch = Nothing
  /\ FoundDataKept

(* The keys that were passed in the first n sources are as these have them. *)
Passed(m, n) == \A k \in Key \ left : Holds(m, n, k)

(* How much of the sources the destination has, at each stage of a run in  *)
(* which no iteration ended early.                                         *)
Progress ==
  /\ pc = "copy" => Passed(disk, 1)
  /\ pc = "open" => left = {} /\ Passed(disk, 1)
  /\ pc = "merge" => left \subseteq KeysOf(given[at]) /\ Passed(Overlay, at)
  /\ pc \in {"closeSources", "closeDest"} => left = {} /\ Passed(Overlay, Len(given))
  /\ pc = "done" => left = {} /\ Passed(disk, Len(given))

ProgressInvariant == unread = {} => Progress

LEMMA InitDestination == Init => DestinationInvariant /\ ProgressInvariant
BY DEF Init, DestinationInvariant, ProgressInvariant, Progress, FoundDataKept

LEMMA NextDestination ==
  TypeOK /\ SourcesGiven /\ DestinationInvariant /\ [Next]_vars => DestinationInvariant'
<1> SUFFICES ASSUME TypeOK, SourcesGiven, DestinationInvariant, [Next]_vars
             PROVE  DestinationInvariant'
  OBVIOUS
<1> USE DEF DestinationInvariant, FoundDataKept, dest
<1>1. ASSUME NEW paths \in Arguments, Launch(paths) PROVE DestinationInvariant'
  BY <1>1 DEF Launch
<1>2. CASE Refuse \/ BeginCopy \/ CopyFails \/ Copied
  <2>1. CASE Refuse
    BY <2>1 DEF Refuse, Fail
  <2>2. CASE BeginCopy
    <3>1. /\ pc = "check" /\ pc' = "copy" /\ destDir = "empty" /\ left' = KeysOf(given[1])
          /\ UNCHANGED <<lost, found, destDir, disk, batch, at>>
      BY <2>2 DEF BeginCopy, DestinationIsEmpty
    <3>2. \A k \in left' : k \notin lost' /\ disk'[k] = NoValue
      BY <3>1 DEF KeysOf, Nothing
    <3> QED BY <3>1, <3>2
  <2>3. CASE CopyFails \/ Copied
    BY <2>3 DEF CopyFails, Copied, Fail, TypeOK, SourcesGiven
  <2> QED BY <1>2, <2>1, <2>2, <2>3
<1>3. CASE OpenPersister \/ OpenFails \/ BeginMerge
  BY <1>3 DEF OpenPersister, OpenFails, BeginMerge, TypeOK, SourcesGiven
<1>4. ASSUME NEW k \in Key, CopyEntry(k) \/ CopyEntryUnclosed(k) \/ Put(k) \/ PutFails(k)
      PROVE  DestinationInvariant'
  <2>1. CASE CopyEntry(k)
    <3>1. /\ pc = "copy" /\ pc' = pc /\ k \in left /\ left' = left \ {k} /\ destDir' = "filled"
          /\ disk' = [disk EXCEPT ![k] = content[given[1]][k]]
          /\ UNCHANGED <<given, lost, found, batch, at>>
      BY <2>1 DEF CopyEntry
    <3>2. \A l \in left' : l \notin lost' /\ disk'[l] = NoValue
      BY <3>1 DEF TypeOK, Database
    <3> QED BY <3>1, <3>2
  <2>2. CASE CopyEntryUnclosed(k)
    BY <2>2 DEF CopyEntryUnclosed
  <2>3. CASE Put(k)
    BY <2>3 DEF Put
  <2>4. CASE PutFails(k)
    BY <2>4 DEF PutFails, Fail
  <2> QED BY <1>4, <2>1, <2>2, <2>3, <2>4
<1>5. CASE RangeStops \/ NextSource \/ Merged \/ CloseSource \/ SourcesClosed
  BY <1>5 DEF RangeStops, NextSource, Merged, CloseSource, SourcesClosed, TypeOK
<1>6. CASE Flush \/ CloseDest
  BY <1>6 DEF Flush, CloseDest, TypeOK
<1>7. CASE CloseDestFails \/ Exit \/ ClearDestination
  BY <1>7 DEF CloseDestFails, Fail, Exit, ClearDestination, TypeOK
<1>8. CASE UNCHANGED vars
  BY <1>8 DEF vars
<1> QED BY <1>1, <1>2, <1>3, <1>4, <1>5, <1>6, <1>7, <1>8 DEF Next

(* The tool does not change what it finds in a destination.                *)
THEOREM FoundDataIsKept == Spec => []FoundDataKept
<1>1. DestinationInvariant => FoundDataKept
  BY DEF DestinationInvariant
<1> QED BY <1>1, InitTypeOK, NextTypeOK, InitDestination, NextDestination, PTL DEF Spec

-----------------------------------------------------------------------------
LEMMA CopyProgress ==
  ASSUME TypeOK, SourcesGiven, DestinationInvariant, Progress,
         BeginCopy \/ Copied \/ \E k \in Key : CopyEntry(k) \/ CopyEntryUnclosed(k)
  PROVE  Progress'
<1> USE DEF Progress, Passed, SourcesGiven
<1>1. CASE BeginCopy
  <2>1. /\ pc' = "copy" /\ left' = KeysOf(given[1])
        /\ disk = Nothing /\ UNCHANGED <<content, given, disk>>
    BY <1>1, MergerAssumption
    DEF BeginCopy, DestinationIsEmpty, DestinationInvariant, dest, TypeOK
  <2>2. ASSUME NEW k \in Key \ left' PROVE Holds(disk, 1, k)
    <3>1. disk[k] = NoValue /\ Offered(1, k) = NoValue
      BY <2>1 DEF KeysOf, Nothing, Offered
    <3> QED BY <3>1, HoldsFirst
  <2>3. lost' = lost
    BY <1>1 DEF BeginCopy
  <2> QED BY <2>1, <2>2, <2>3 DEF Holds, Offered
<1>2. CASE Copied
  BY <1>2 DEF Copied, Holds, Offered
<1>3. ASSUME NEW c \in Key, CopyEntry(c) PROVE Progress'
  <2>1. /\ pc = "copy" /\ disk' = [disk EXCEPT ![c] = content[given[1]][c]]
        /\ c \in left /\ left' = left \ {c} /\ UNCHANGED <<content, given, lost, pc>>
    BY <1>3 DEF CopyEntry
  <2>2. ASSUME NEW k \in Key \ left' PROVE Holds(disk', 1, k)
    <3>1. CASE k = c
      <4>1. disk'[k] = content[given[1]][k] /\ k \notin lost
        BY <2>1, <3>1 DEF TypeOK, Database, DestinationInvariant
      <4> QED BY <4>1, HoldsFirst DEF Offered
    <3>2. CASE k # c
      <4>1. disk'[k] = disk[k] /\ Holds(disk, 1, k)
        BY <2>1, <2>2, <3>2 DEF TypeOK, Database
      <4> QED BY <4>1, HoldsCongruence
    <3> QED BY <3>1, <3>2
  <2> QED BY <2>1, <2>2 DEF Holds, Offered
<1>4. ASSUME NEW c \in Key, CopyEntryUnclosed(c) PROVE Progress'
  <2>1. /\ pc = "copy" /\ lost' = lost \cup {c} /\ c \in left
        /\ left' = left \ {c} /\ UNCHANGED <<content, given, disk, pc>>
    BY <1>4 DEF CopyEntryUnclosed
  <2>2. ASSUME NEW k \in Key \ left' PROVE Holds(disk, 1, k)'
    <3>1. CASE k = c
      <4>1. disk'[k] = NoValue /\ Offered(1, k)' = NoValue
        BY <2>1, <3>1 DEF Offered, DestinationInvariant
      <4>2. \A j \in 1..1 : j = 1
        OBVIOUS
      <4> QED BY <4>1, <4>2 DEF Holds
    <3>2. CASE k # c
      <4>1. Holds(disk, 1, k)
        BY <2>1, <2>2, <3>2
      <4>2. \A j : Offered(j, k)' = Offered(j, k)
        BY <2>1, <3>2 DEF Offered
      <4> QED BY <2>1, <4>1, <4>2 DEF Holds
    <3> QED BY <3>1, <3>2
  <2> QED BY <2>1, <2>2
<1> QED BY <1>1, <1>2, <1>3, <1>4

(* A put gives its key the value of the source at hand.                    *)
LEMMA PutProgress ==
  ASSUME TypeOK, SourcesGiven, Progress, NEW c \in Key, Put(c)
  PROVE  Progress'
<1> USE DEF Progress, Passed, SourcesGiven
<1>1. /\ pc = "merge" /\ c \in left /\ batch' = [batch EXCEPT ![c] = content[given[at]][c]]
      /\ left' = left \ {c} /\ UNCHANGED <<content, given, lost, disk, at, pc>>
  BY DEF Put
<1>2. ASSUME NEW k \in Key \ left' PROVE Holds(Overlay', at, k)
  <2>1. CASE k = c
    <3>1. content[given[at]][c] # NoValue
      BY <1>1 DEF KeysOf
    <3>2. Overlay'[c] = content[given[at]][c]
      BY <1>1, <3>1 DEF Overlay, TypeOK, Database
    <3>3. Offered(at, c) = content[given[at]][c] /\ at \in Nat \ {0}
      BY <1>1 DEF Offered
    <3> QED BY <2>1, <3>1, <3>2, <3>3, HoldsLast
  <2>2. CASE k # c
    <3>1. Overlay'[k] = Overlay[k]
      BY <1>1, <2>2 DEF Overlay, TypeOK, Database
    <3>2. Holds(Overlay, at, k)
      BY <1>1, <1>2, <2>2
    <3> QED BY <3>1, <3>2, HoldsCongruence
  <2> QED BY <2>1, <2>2
<1>3. at \in 2..Len(given) /\ left' \subseteq KeysOf(given[at])
  BY <1>1
<1> QED BY <1>1, <1>2, <1>3 DEF Holds, KeysOf, Offered

(* Of the next source, the keys it does not hold are passed already.       *)
LEMMA SourceProgress ==
  ASSUME TypeOK, SourcesGiven, DestinationInvariant, Progress, BeginMerge \/ NextSource
  PROVE  Progress'
<1> USE DEF Progress, Passed, SourcesGiven, dest
<1> DEFINE n == IF pc = "open" THEN 1 ELSE at
<1>1. /\ pc \in {"open", "merge"} /\ pc' = "merge"
      /\ n \in Nat \ {0} /\ n + 1 \in 2..Len(given) /\ at' = n + 1
      /\ left = {} /\ left' = KeysOf(given[n + 1])
      /\ UNCHANGED <<content, given, lost, disk, batch>>
  BY DEF BeginMerge, NextSource, TypeOK
<1>2. ASSUME NEW k \in Key PROVE Holds(Overlay, n, k)
  <2>1. CASE pc = "open"
    <3>1. Overlay[k] = disk[k] /\ Holds(disk, 1, k)
      BY <1>1, <2>1 DEF Overlay, Nothing, DestinationInvariant
    <3> QED BY <2>1, <3>1, HoldsCongruence
  <2>2. CASE pc = "merge"
    BY <1>1, <2>2
  <2> QED BY <1>1, <2>1, <2>2
<1>3. ASSUME NEW k \in Key \ left' PROVE Holds(Overlay, n + 1, k)
  <2>1. Offered(n + 1, k) = NoValue
    BY <1>1, <1>3 DEF KeysOf, Offered
  <2> QED BY <1>1, <1>2, <2>1, HoldsExtends
<1> QED BY <1>1, <1>3 DEF Holds, KeysOf, Overlay, Offered

(* Writing the batch changes the files, and not what the destination has.  *)
LEMMA FlushProgress ==
  ASSUME TypeOK, SourcesGiven, Progress, Flush \/ CloseDest
  PROVE  Progress'
<1> USE DEF Progress, Passed, SourcesGiven
<1>1. /\ disk' = Overlay /\ batch' = Nothing
      /\ UNCHANGED <<content, given, lost, at, left>>
      /\ \/ pc' = pc /\ pc \in {"merge", "closeSources", "closeDest", "failed"}
         \/ pc = "closeDest" /\ pc' = "done"
  BY DEF Flush, CloseDest
<1>2. Overlay' = Overlay
  BY <1>1 DEF Overlay, Nothing
<1> QED BY <1>1, <1>2 DEF Holds, KeysOf, Offered

(* Every step but the start of a run and the early end of an iteration.    *)
OtherStep ==
  \/ Refuse \/ BeginCopy \/ CopyFails \/ Copied
  \/ OpenPersister \/ OpenFails \/ BeginMerge
  \/ \E k \in Key : CopyEntry(k) \/ CopyEntryUnclosed(k) \/ Put(k) \/ PutFails(k)
  \/ Flush \/ NextSource \/ Merged
  \/ CloseSource \/ SourcesClosed \/ CloseDest \/ CloseDestFails
  \/ Exit \/ ClearDestination \/ UNCHANGED vars

LEMMA ProgressStep ==
  ASSUME TypeOK, SourcesGiven, DestinationInvariant, Progress,
         OtherStep
  PROVE  Progress'
<1> USE DEF Progress, Passed, SourcesGiven, dest
<1>1. CASE Refuse \/ CopyFails \/ OpenFails \/ CloseDestFails \/ \E k \in Key : PutFails(k)
  BY <1>1 DEF Refuse, CopyFails, OpenFails, CloseDestFails, PutFails, Fail
<1>2. CASE BeginCopy \/ Copied \/ \E k \in Key : CopyEntry(k) \/ CopyEntryUnclosed(k)
  BY <1>2, CopyProgress
<1>3. CASE OpenPersister
  BY <1>3 DEF OpenPersister, Holds, Offered
<1>4. ASSUME NEW k \in Key, Put(k) PROVE Progress'
  BY <1>4, PutProgress
<1>5. CASE BeginMerge \/ NextSource
  BY <1>5, SourceProgress
<1>6. CASE Flush \/ CloseDest
  BY <1>6, FlushProgress
<1>7. CASE Merged \/ CloseSource \/ SourcesClosed
  <2>1. UNCHANGED <<content, given, lost, disk, batch, left>>
    BY <1>7 DEF Merged, CloseSource, SourcesClosed
  <2>2. Overlay' = Overlay
    BY <2>1 DEF Overlay
  <2>3. \/ pc = "merge" /\ left = {} /\ at = Len(given) /\ pc' = "closeSources"
        \/ pc = "closeSources" /\ pc' \in {"closeSources", "closeDest", "failed"}
    BY <1>7 DEF Merged, CloseSource, SourcesClosed
  <2> QED BY <2>1, <2>2, <2>3 DEF Holds, Offered
<1>8. CASE Exit \/ ClearDestination
  BY <1>8 DEF Exit, ClearDestination
<1>9. CASE UNCHANGED vars
  BY <1>9 DEF vars, Holds, Offered, Overlay, KeysOf
<1> QED BY <1>1, <1>2, <1>3, <1>4, <1>5, <1>6, <1>7, <1>8, <1>9 DEF OtherStep

LEMMA NextProgress ==
  ASSUME TypeOK, SourcesGiven, DestinationInvariant, ProgressInvariant, [Next]_vars
  PROVE  ProgressInvariant'
<1> USE DEF Passed, SourcesGiven
<1> SUFFICES ASSUME unread' = {} PROVE Progress'
  BY DEF ProgressInvariant
<1>1. ASSUME NEW paths \in Arguments, Launch(paths) PROVE Progress'
  BY <1>1 DEF Launch, Progress
<1>2. CASE RangeStops
  BY <1>2 DEF RangeStops
<1>3. CASE OtherStep
  <2>1. unread = {}
    BY <1>3 DEF OtherStep, vars, Refuse, BeginCopy, CopyEntry, CopyEntryUnclosed, CopyFails,
       Copied,       OpenPersister, OpenFails, BeginMerge, Put, PutFails, Flush, NextSource, Merged,
       CloseSource, SourcesClosed, CloseDest, CloseDestFails, Fail, Exit, ClearDestination
  <2> QED BY <1>3, <2>1, ProgressStep DEF ProgressInvariant
<1> QED BY <1>1, <1>2, <1>3 DEF Next, OtherStep

(* If the sources are read to their ends, a merge without an error has     *)
(* every key of every source, in the version of the last one that holds it. *)
THEOREM MergeIsComplete == Spec => []MergedOnSuccess
<1> DEFINE IInv == TypeOK /\ SourcesGiven /\ DestinationInvariant /\ ProgressInvariant
<1>1. Init => IInv
  BY InitTypeOK, InitDestination
<1>2. IInv /\ [Next]_vars => IInv'
  BY NextTypeOK, NextDestination, NextProgress
<1>3. IInv => MergedOnSuccess
  BY DEF ProgressInvariant, Progress, Passed, MergedOnSuccess
<1> QED BY <1>1, <1>2, <1>3, PTL DEF Spec
=============================================================================
