------------------------------ MODULE DBMerger ------------------------------
(***************************************************************************)
(* Runs of generalDBMerger, one after the other on one destination: the    *)
(* first source is copied as files, the others are opened and written key  *)
(* by key into the destination (storer/fullDBMerger.go, dataMerger.go).    *)
(*                                                                         *)
(* Any operation on a file or a persister may fail, the process may die at *)
(* any step, and the operator may empty the destination between two runs.  *)
(* The entry of a directory that the copy moves stands for the data of one *)
(* key. Paths of sources differ from the destination's.                    *)
(***************************************************************************)
EXTENDS Naturals, Sequences

CONSTANTS
  Path,         \* directories that may be given as sources
  Key, Value,   \* what the level-DBs hold
  NoValue,      \* of a key that a level-DB does not hold
  Contents,     \* what the sources may hold
  MinSources,   \* minNumOfPersisters, 2 in the code
  MaxSources,   \* bound on the sources of a run
  MaxRuns       \* bound on the runs

ASSUME MergerAssumption ==
  /\ NoValue \notin Value
  /\ Contents \subseteq [Path -> [Key -> Value \cup {NoValue}]]
  /\ MinSources \in Nat \ {0, 1} /\ MaxSources \in Nat /\ MaxRuns \in Nat

Database == [Key -> Value \cup {NoValue}]
Nothing == [k \in Key |-> NoValue]
Arguments == UNION {[1..n -> Path] : n \in 1..MaxSources}

VARIABLES
  content,   \* [Path -> Database], no key where there is no level-DB
  dirs, dbs, \* the paths that are directories, and those that hold a level-DB
  given,     \* the sources of the run, in order
  unread,    \* history: sources of the run whose iteration ended early
  lost,      \* history: keys whose copied file could not be closed
  found,     \* history: the destination when the run began
  destDir,   \* the destination's directory: "missing", "empty" or "filled"
  disk,      \* what its files hold
  batch,     \* what was put and is not yet in its files
  at,        \* the source being opened, merged or closed
  left,      \* keys that the copy, or RangeKeys on the source, did not reach
  lastErr,   \* whether closeSourcePersisters found an error
  runs, pc

dest == <<destDir, disk, batch>>
vars == <<content, dirs, dbs, given, unread, lost, found, dest, at, left, lastErr, runs, pc>>

KeysOf(p) == {k \in Key : content[p][k] # NoValue}
Overlay == [k \in Key |-> IF batch[k] # NoValue THEN batch[k] ELSE disk[k]]

Init ==
  /\ content \in Contents
  /\ dirs \in SUBSET Path /\ dbs \in SUBSET dirs
  /\ \A p \in Path \ dbs : content[p] = Nothing
  /\ given = <<>> /\ unread = {} /\ lost = {} /\ left = {} /\ at = 1 /\ lastErr = FALSE
  /\ destDir \in {"missing", "empty"} /\ disk = Nothing /\ batch = Nothing
  /\ found = [dir |-> destDir, disk |-> disk]
  /\ runs = 0 /\ pc = "idle"

(* The tool is started with a list of sources.                             *)
Launch(paths) ==
  /\ pc = "idle" /\ runs < MaxRuns
  /\ given' = paths /\ unread' = {} /\ lost' = {}
  /\ found' = [dir |-> destDir, disk |-> disk]
  /\ at' = 1 /\ left' = {} /\ lastErr' = FALSE
  /\ runs' = runs + 1 /\ pc' = "check"
  /\ UNCHANGED <<content, dirs, dbs, dest>>

Fail ==
  /\ pc' = "failed"
  /\ UNCHANGED <<content, dirs, dbs, given, unread, lost, found, at, left, lastErr, runs>>

(* Mutant: the destination only has to exist.                              *)
DestinationExists == destDir # "missing"

(* CheckIfDirectoryIsEmpty returns nil.                                    *)
DestinationIsEmpty == destDir = "empty"

(* The checks of MergeDBs, and the ReadDir of the first source. A check    *)
(* may also fail because the directory cannot be read.                     *)
Refuse == pc = "check" /\ Fail /\ UNCHANGED dest

BeginCopy ==
  /\ pc = "check" /\ Len(given) >= MinSources /\ DestinationIsEmpty /\ given[1] \in dirs
  /\ left' = KeysOf(given[1]) /\ pc' = "copy"
  /\ UNCHANGED <<content, dirs, dbs, given, unread, lost, found, dest, at, lastErr, runs>>

(* CopyDirectory, entry by entry.                                          *)
CopyEntry(k) ==
  /\ pc = "copy" /\ k \in left
  /\ destDir' = "filled" /\ disk' = [disk EXCEPT ![k] = content[given[1]][k]]
  /\ left' = left \ {k}
  /\ UNCHANGED <<content, dirs, dbs, given, unread, lost, found, batch, at, lastErr, runs, pc>>

(* The copied file could not be closed: the error is logged by the         *)
(* deferred function of copyFile, which returns nil, and the file may lack *)
(* what was still to be written to it.                                     *)
CopyEntryUnclosed(k) ==
  /\ pc = "copy" /\ k \in left
  /\ destDir' = "filled" /\ lost' = lost \cup {k} /\ left' = left \ {k}
  /\ UNCHANGED <<content, dirs, dbs, given, unread, found, disk, batch, at, lastErr, runs, pc>>

(* An error that CopyDirectory returns: the entry at hand may have been    *)
(* created.                                                                *)
CopyFails ==
  /\ pc = "copy" /\ Fail
  /\ destDir' \in {destDir, "filled"} /\ UNCHANGED <<disk, batch>>

Copied ==
  /\ pc = "copy" /\ left = {}
  /\ destDir' = IF given[1] \in dbs THEN "filled" ELSE destDir
  /\ pc' = "open"
  /\ UNCHANGED <<content, dirs, dbs, given, unread, lost, found, disk, batch, at, left, lastErr, runs>>

(* CreatePersister for the destination, the turn of the first source, and  *)
(* then for the other sources. A level-DB that is open is locked, one that *)
(* is not there is created.                                                *)
OpenPersister ==
  /\ pc = "open" /\ at <= Len(given)
  /\ IF at = 1
       THEN destDir' = "filled" /\ UNCHANGED <<dirs, dbs>>
       ELSE /\ \A i \in 2..(at - 1) : given[i] # given[at]
            /\ dirs' = dirs \cup {given[at]} /\ dbs' = dbs \cup {given[at]}
            /\ UNCHANGED destDir
  /\ at' = at + 1
  /\ UNCHANGED <<content, given, unread, lost, found, disk, batch, left, lastErr, runs, pc>>

(* An error leaves at most a directory, and open what was opened.          *)
OpenFails ==
  /\ pc = "open" /\ at <= Len(given)
  /\ IF at = 1
       THEN destDir' \in {destDir, "filled"} /\ UNCHANGED dirs
       ELSE dirs' \in {dirs, dirs \cup {given[at]}} /\ UNCHANGED destDir
  /\ pc' = "failed"
  /\ UNCHANGED <<content, dbs, given, unread, lost, found, disk, batch, at, left, lastErr, runs>>

BeginMerge ==
  /\ pc = "open" /\ at > Len(given)
  /\ at' = 2 /\ left' = KeysOf(given[2]) /\ pc' = "merge"
  /\ UNCHANGED <<content, dirs, dbs, given, unread, lost, found, dest, lastErr, runs>>

(* One call of the handler of RangeKeys: the put goes to the batch.        *)
Put(k) ==
  /\ pc = "merge" /\ k \in left
  /\ batch' = [batch EXCEPT ![k] = content[given[at]][k]]
  /\ left' = left \ {k}
  /\ UNCHANGED <<content, dirs, dbs, given, unread, lost, found, destDir, disk, at, lastErr, runs, pc>>

(* Mutant: the iteration goes on, and the next put overwrites the error.   *)
PutFailureForgotten(k) ==
  /\ pc = "merge" /\ k \in left
  /\ left' = left \ {k}
  /\ UNCHANGED <<content, dirs, dbs, given, unread, lost, found, dest, at, lastErr, runs, pc>>

(* The put fails, after it was added to the batch or before: the iteration *)
(* stops and the error is returned.                                        *)
PutFails(k) ==
  /\ pc = "merge" /\ k \in left /\ Fail
  /\ batch' \in {batch, [batch EXCEPT ![k] = content[given[at]][k]]}
  /\ UNCHANGED <<destDir, disk>>

(* RangeKeys returns nothing: when a source cannot be read on, it ends.    *)
RangeStops ==
  /\ pc = "merge" /\ left # {}
  /\ left' = {} /\ unread' = unread \cup {given[at]}
  /\ UNCHANGED <<content, dirs, dbs, given, lost, found, dest, at, lastErr, runs, pc>>

(* The batch is written when it is full, and by a timer.                   *)
Flush ==
  /\ pc \in {"merge", "closeSources", "closeDest", "failed"} /\ batch # Nothing
  /\ disk' = Overlay /\ batch' = Nothing
  /\ UNCHANGED <<content, dirs, dbs, given, unread, lost, found, destDir, at, left, lastErr, runs, pc>>

NextSource ==
  /\ pc = "merge" /\ left = {} /\ at < Len(given)
  /\ at' = at + 1 /\ left' = KeysOf(given[at + 1])
  /\ UNCHANGED <<content, dirs, dbs, given, unread, lost, found, dest, lastErr, runs, pc>>

Merged ==
  /\ pc = "merge" /\ left = {} /\ at = Len(given)
  /\ at' = 2 /\ pc' = "closeSources"
  /\ UNCHANGED <<content, dirs, dbs, given, unread, lost, found, dest, left, lastErr, runs>>

(* All the sources are closed, whatever their errors.                      *)
CloseSource ==
  /\ pc = "closeSources" /\ at <= Len(given)
  /\ lastErr' \in {lastErr, TRUE} /\ at' = at + 1
  /\ UNCHANGED <<content, dirs, dbs, given, unread, lost, found, dest, left, runs, pc>>

SourcesClosed ==
  /\ pc = "closeSources" /\ at > Len(given)
  /\ pc' = IF lastErr THEN "failed" ELSE "closeDest"
  /\ UNCHANGED <<content, dirs, dbs, given, unread, lost, found, dest, at, left, lastErr, runs>>

(* doAction closes the destination, which writes the batch.                *)
CloseDest ==
  /\ pc = "closeDest"
  /\ disk' = Overlay /\ batch' = Nothing /\ pc' = "done"
  /\ UNCHANGED <<content, dirs, dbs, given, unread, lost, found, destDir, at, left, lastErr, runs>>

CloseDestFails == pc = "closeDest" /\ Fail /\ UNCHANGED dest

(* The process ends after MergeDBs and Close, or dies before.              *)
Exit ==
  /\ pc # "idle"
  /\ batch' = Nothing /\ pc' = "idle"
  /\ UNCHANGED <<content, dirs, dbs, given, unread, lost, found, destDir, disk, at, left, lastErr, runs>>

(* The operator makes the destination anew: rm -r, mkdir.                  *)
ClearDestination ==
  /\ pc = "idle"
  /\ destDir' = "empty" /\ disk' = Nothing
  /\ UNCHANGED <<content, dirs, dbs, given, unread, lost, found, batch, at, left, lastErr, runs, pc>>

Next ==
  \/ \E paths \in Arguments : Launch(paths)
  \/ Refuse \/ BeginCopy \/ CopyFails \/ Copied
  \/ OpenPersister \/ OpenFails \/ BeginMerge
  \/ \E k \in Key : CopyEntry(k) \/ CopyEntryUnclosed(k) \/ Put(k) \/ PutFails(k)
  \/ RangeStops \/ Flush \/ NextSource \/ Merged
  \/ CloseSource \/ SourcesClosed \/ CloseDest \/ CloseDestFails
  \/ Exit \/ ClearDestination

Spec == Init /\ [][Next]_vars

-----------------------------------------------------------------------------
TypeOK ==
  /\ content \in [Path -> Database] /\ dirs \in SUBSET Path /\ dbs \in SUBSET Path
  /\ given \in Seq(Path) /\ unread \in SUBSET Path /\ lost \in SUBSET Key
  /\ destDir \in {"missing", "empty", "filled"}
  /\ found \in [dir : {"missing", "empty", "filled"}, disk : Database]
  /\ disk \in Database /\ batch \in Database
  /\ at \in Nat \ {0} /\ left \in SUBSET Key
  /\ lastErr \in BOOLEAN /\ runs \in Nat
  /\ pc \in {"idle", "check", "copy", "open", "merge", "closeSources", "closeDest",
             "done", "failed"}

(* What the merge can get of key k from the j-th source: nothing of the    *)
(* file of the first one that could not be closed.                         *)
Offered(j, k) == IF j = 1 /\ k \in lost THEN NoValue ELSE content[given[j]][k]

(* Where m has what the first n sources offer of key k: the value of the   *)
(* last one that offers it.                                                *)
Holds(m, n, k) ==
  \/ m[k] = NoValue /\ \A j \in 1..n : Offered(j, k) = NoValue
  \/ \E j \in 1..n : /\ m[k] = Offered(j, k) /\ m[k] # NoValue
                     /\ \A i \in (j + 1)..n : Offered(i, k) = NoValue

(* A merge that ends without an error has written every key of every       *)
(* source, in the version of the last source that has the key, whatever    *)
(* failed, crashed or was left in the destination by the runs before, as   *)
(* long as the sources could be read to their ends; except what was in a   *)
(* file of the first source whose copy could not be closed, where the key  *)
(* has the version of the last other source.                               *)
MergedOnSuccess == pc = "done" /\ unread = {} => \A k \in Key : Holds(disk, Len(given), k)

(* What the tool finds in a destination it never changes: neither another  *)
(* database nor what an unfinished merge left is merged into.              *)
FoundDataKept == pc # "idle" /\ found.dir = "filled" => disk = found.disk

(* README.md: the new level-DB contains all the data. A source that cannot *)
(* be read to its end is no merge.                                         *)
ReadErrorsReported == pc = "done" => unread = {}

(* The same of a file that could not be copied to its end.                 *)
CopyErrorsReported == pc = "done" => lost = {}
=============================================================================
