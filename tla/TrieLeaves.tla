---------------------------- MODULE TrieLeaves -----------------------------
(***************************************************************************)
(* What the trieTools share (trieToolsCommon/common.go): the storer over   *)
(* the directories of a database, and a traversal, in which a goroutine    *)
(* sends the leaves of a trie through a bounded channel, beside a channel  *)
(* for its error.                                                          *)
(*                                                                         *)
(* A database has directories, one for each epoch, the names of which are  *)
(* numbers [num, plain]: 3 is plain, 03 is not; other names are left out.  *)
(* Each node of the tries (a root or a leaf, which stands for the nodes    *)
(* above it too) is in the directory of an epoch, in a single flat one, or *)
(* lost. The trie library is external.                                     *)
(***************************************************************************)
EXTENDS Integers, FiniteSets

CONSTANTS
  Db, Node,
  Databases,  \* initial [dirs, place]
  MaxDirs,    \* maxDirs
  Cap,        \* TrieLeavesChannelDefaultCapacity
  Flat, Lost

DirName == [num : Nat, plain : BOOLEAN]

ASSUME TrieAssumption ==
  /\ \A w \in Databases :
       /\ w.dirs = [d \in Db |-> w.dirs[d]]
       /\ \A d \in Db : /\ w.dirs[d] \subseteq DirName /\ IsFiniteSet(w.dirs[d])
                        /\ w.place[d] = [n \in Node |-> w.place[d][n]]
                        /\ \A n \in Node : w.place[d][n] \in Nat \/ w.place[d][n] \in {Flat, Lost}
  /\ MaxDirs \in Nat /\ Cap \in Nat \ {0} /\ Lost \notin Nat \cup {Flat}

VARIABLES
  dirs, place,  \* the databases
  opened,       \* [Db -> places that the open storer reads]
  main,         \* the traversal of the main trie, and
  data,         \* that of the data trie of an account
  pc

store == <<dirs, place>>
trieVars == <<dirs, place, opened, main, data, pc>>

-----------------------------------------------------------------------------
(* GetMaxDBValue: the directories are 0, 1, ... up to a last one.          *)
Ordered(d) ==
  {n \in 0..(MaxDirs - 1) : \A m \in 0..n : [num |-> m, plain |-> TRUE] \in dirs[d]}

HasMaxDBValue(d) == Ordered(d) # {} /\ Cardinality(Ordered(d)) = Cardinality(dirs[d])

(* Mutant: the last directory is forgotten.                                *)
MissesLast(d) == Cardinality(Ordered(d)) - 2
MaxDBValue(d) == Cardinality(Ordered(d)) - 1

(* CreatePruningStorer, CreateStorer.                                      *)
PruningStorer(d) == [opened EXCEPT ![d] = 0..MaxDBValue(d)]
SingleStorer(d) == [opened EXCEPT ![d] = {Flat}]

Readable(d, n) == place[d][n] \in opened[d]

-----------------------------------------------------------------------------
(* A traversal: what is left to send, what is in the channel, the error,   *)
(* and whether the channel is closed.                                      *)
Traversal ==
  [db : Db, left : SUBSET Node, chan : SUBSET Node, err : BOOLEAN, closed : BOOLEAN]

GetAllLeaves(d, leaves) ==
  [db |-> d, left |-> leaves, chan |-> {}, err |-> FALSE, closed |-> FALSE]
NoTraversal(d) ==
  [db |-> d, left |-> {}, chan |-> {}, err |-> FALSE, closed |-> TRUE]

(* External, what the goroutine does next: it sends a leaf while there is  *)
(* room; at a node it cannot read it reports the error, then closes the    *)
(* channel, as it does when nothing is left.                               *)
Sent(t) ==
  {[t EXCEPT !.left = @ \ {n}, !.chan = @ \cup {n}] :
     n \in {m \in t.left : Readable(t.db, m) /\ Cardinality(t.chan) < Cap}}
Aborted(t) ==
  {[t EXCEPT !.err = TRUE, !.closed = TRUE] : n \in {m \in t.left : ~Readable(t.db, m)}}
Finished(t) == IF t.left = {} THEN {[t EXCEPT !.closed = TRUE]} ELSE {}

Produced(t) == IF t.closed THEN {} ELSE Sent(t) \cup Aborted(t) \cup Finished(t)

ProduceMain == main' \in Produced(main) /\ UNCHANGED <<store, opened, data, pc>>
ProduceData == data' \in Produced(data) /\ UNCHANGED <<store, opened, main, pc>>

(* The tool: it takes a leaf; its loop ends when the channel is closed and *)
(* empty; ReadFromChanNonBlocking, after the loop, gives t.err.            *)
Received(t, n) == [t EXCEPT !.chan = @ \ {n}]
Drained(t) == t.closed /\ t.chan = {}

Ended == {"done", "missing", "failed"}

TrieInit ==
  /\ \E w \in Databases : dirs = w.dirs /\ place = w.place
  /\ opened = [d \in Db |-> {}]
  /\ main = NoTraversal(CHOOSE d \in Db : TRUE) /\ data = main
  /\ pc = "start"

TrieTypeOK ==
  /\ \A d \in Db : dirs[d] \subseteq DirName
  /\ opened = [d \in Db |-> opened[d]]
  /\ \A d \in Db : opened[d] \in SUBSET Nat \/ opened[d] = {Flat}
  /\ main \in Traversal /\ data \in Traversal
=============================================================================
