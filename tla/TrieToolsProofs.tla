--------------------------- MODULE TrieToolsProofs ---------------------------
(* Theorems about the trieTools, for all databases, tries, options and     *)
(* capacities of the channel of leaves.                                    *)
EXTENDS TrieTools, FiniteSetTheorems, TLAPS

(* The databases stay as they were given.                                  *)
StoreGiven == \E w \in Databases : dirs = w.dirs /\ place = w.place

(* What a traversal has yet to hand over; one that closed its channel      *)
(* without an error has sent all.                                          *)
Unread(t) == t.left \cup t.chan
Honest(t) == t.closed /\ ~t.err => t.left = {}
HonestTraversals == Honest(main) /\ Honest(data)

-----------------------------------------------------------------------------
(* Traversals: nothing is lost between the trie and the tool, and an error *)
(* is that of a node the traversal could not read.                         *)
LEMMA StartedTraversal ==
  ASSUME NEW d \in Db, NEW leaves \in SUBSET Node
  PROVE  LET t == GetAllLeaves(d, leaves) IN
         /\ t \in Traversal /\ Honest(t) /\ Unread(t) = leaves
         /\ t.db = d /\ t.left = leaves /\ ~t.err
BY DEF GetAllLeaves, Traversal, Honest, Unread

LEMMA ProducedTraversal ==
  ASSUME NEW t \in Traversal, Honest(t), NEW u \in Produced(t)
  PROVE  /\ u \in Traversal /\ Honest(u) /\ ~t.closed
         /\ u.db = t.db /\ Unread(u) = Unread(t) /\ u.left \subseteq t.left
         /\ u.err => t.err \/ \E n \in t.left : ~Readable(t.db, n)
<1>0. ~t.closed
  BY DEF Produced
<1>1. CASE u \in Sent(t)
  <2>1. PICK n \in t.left : u = [t EXCEPT !.left = @ \ {n}, !.chan = @ \cup {n}]
    BY <1>1 DEF Sent
  <2>2. n \in Node
    BY DEF Traversal
  <2>3. u \in Traversal /\ u.err = t.err /\ u.closed = t.closed /\ u.db = t.db
    BY <2>1, <2>2 DEF Traversal
  <2>4. u.left = t.left \ {n} /\ u.chan = t.chan \cup {n}
    BY <2>1 DEF Traversal
  <2> QED BY <1>0, <2>3, <2>4 DEF Honest, Unread
<1>2. CASE u \in Aborted(t)
  BY <1>0, <1>2 DEF Aborted, Traversal, Honest, Unread
<1>3. CASE u \in Finished(t)
  BY <1>0, <1>3 DEF Finished, Traversal, Honest, Unread
<1> QED BY <1>0, <1>1, <1>2, <1>3 DEF Produced

LEMMA ReceivedTraversal ==
  ASSUME NEW t \in Traversal, Honest(t), NEW n \in t.chan
  PROVE  LET u == Received(t, n) IN
         /\ u \in Traversal /\ Honest(u) /\ n \in Unread(t)
         /\ u.db = t.db /\ u.left = t.left /\ u.err = t.err
         /\ Unread(u) \subseteq Unread(t) /\ Unread(t) = Unread(u) \cup {n}
BY DEF Received, Traversal, Honest, Unread

LEMMA DrainedTraversal ==
  ASSUME NEW t \in Traversal, Honest(t), Drained(t), ~t.err
  PROVE  Unread(t) = {}
BY DEF Drained, Honest, Unread

-----------------------------------------------------------------------------
(* Types.                                                                  *)
LEMMA ConstantTypes ==
  /\ Shard \in Db /\ Meta \in Db /\ Chain \in Db
  /\ \A a \in Account : Data[a] \in SUBSET Node /\ Data[a] \in SUBSET Item
  /\ Main \in SUBSET Node /\ Esdts \in SUBSET Node
  /\ \A r \in Root : LeavesOf[r] \in SUBSET Node
BY LeafAssumption, CheckerAssumption, BalancesAssumption

LEMMA OrderedIsFinite ==
  ASSUME NEW d \in Db
  PROVE  IsFiniteSet(Ordered(d)) /\ MaxDBValue(d) \in Int /\ Ordered(d) \subseteq 0..(MaxDirs - 1)
<1>1. Ordered(d) \subseteq 0..(MaxDirs - 1) /\ MaxDirs - 1 \in Int
  BY TrieAssumption DEF Ordered
<1>2. IsFiniteSet(Ordered(d))
  BY <1>1, FS_Interval, FS_Subset, 0 \in Int, Zenon
<1>3. Cardinality(Ordered(d)) \in Nat
  BY <1>2, FS_CardinalityType
<1> QED BY <1>1, <1>2, <1>3 DEF MaxDBValue

LEMMA OpenedType ==
  ASSUME TrieTypeOK, NEW d \in Db, NEW places,
         places \in SUBSET Nat \/ places = {Flat}, opened' = [opened EXCEPT ![d] = places]
  PROVE  /\ opened' = [e \in Db |-> opened'[e]]
         /\ \A e \in Db : opened'[e] \in SUBSET Nat \/ opened'[e] = {Flat}
         /\ opened'[d] = places /\ \A e \in Db \ {d} : opened'[e] = opened[e]
<1>1. opened = [e \in Db |-> opened[e]]
  BY DEF TrieTypeOK
<1>2. DOMAIN opened = Db
  BY <1>1
<1>3. opened' = [e \in Db |-> IF e = d THEN places ELSE opened[e]]
  BY <1>2
<1> QED BY <1>3 DEF TrieTypeOK

LEMMA InitTypeOK == Init => TypeOK /\ StoreGiven /\ HonestTraversals
<1> SUFFICES ASSUME Init PROVE TypeOK /\ StoreGiven /\ HonestTraversals
  OBVIOUS
<1>1. \A d \in Db : dirs[d] \subseteq DirName
  BY TrieAssumption DEF Init, TrieInit
<1>2. (CHOOSE d \in Db : TRUE) \in Db
  BY ConstantTypes
<1>3. main \in Traversal /\ data \in Traversal /\ HonestTraversals
  BY <1>2 DEF Init, TrieInit, NoTraversal, Traversal, HonestTraversals, Honest
<1>4. TrieTypeOK
  BY <1>1, <1>3 DEF Init, TrieInit, TrieTypeOK
<1>5. LeafTypeOK
  BY DEF Init, LeafInit, LeafTypeOK
<1>6. IdTypeOK
  BY DEF Init, IdInit, IdTypeOK
<1>7. BalTypeOK
  BY DEF Init, BalInit, BalTypeOK
<1>8. StoreGiven
  BY DEF Init, TrieInit, StoreGiven
<1> QED BY <1>3, <1>4, <1>5, <1>6, <1>7, <1>8 DEF TypeOK, Init

LEMMA ProducersTypeOK ==
  ASSUME TypeOK, HonestTraversals, Producers
  PROVE  TypeOK' /\ HonestTraversals'
<1>1. main' \in Traversal /\ data' \in Traversal /\ HonestTraversals'
  <2>1. CASE main' \in Produced(main) /\ UNCHANGED data
    BY <2>1, ProducedTraversal DEF TypeOK, TrieTypeOK, HonestTraversals, Honest
  <2>2. CASE data' \in Produced(data) /\ UNCHANGED main
    BY <2>2, ProducedTraversal DEF TypeOK, TrieTypeOK, HonestTraversals, Honest
  <2> QED BY <2>1, <2>2 DEF Producers, ProduceMain, ProduceData
<1>2. UNCHANGED <<dirs, opened, leafVars, idVars, balVars>>
  BY DEF Producers, ProduceMain, ProduceData, store
<1> QED
  BY <1>1, <1>2 DEF TypeOK, TrieTypeOK, LeafTypeOK, IdTypeOK, BalTypeOK, ShouldExport, leafVars,
     idVars, balVars

(* Steps of a tool that only end it, or move it on.                        *)
LEMMA StopTypeOK ==
  ASSUME TypeOK, HonestTraversals,
         UNCHANGED <<store, opened, main, data, leafVars, idVars, balVars>>
  PROVE  TypeOK' /\ HonestTraversals'
BY DEF TypeOK, TrieTypeOK, LeafTypeOK, IdTypeOK, BalTypeOK, HonestTraversals, Honest, store,
       leafVars, idVars, balVars

(* The data trie of an account is begun: none of its items was found.      *)
LEMMA DataStarted ==
  ASSUME TypeOK, NEW l \in Account, StartData(l)
  PROVE  /\ data' \in Traversal /\ Honest(data') /\ Unread(data') = Data[l] /\ data'.db = Shard
         /\ data'.left = Data[l] /\ ~data'.err
         /\ current' = {l} /\ pc' = "items"
         /\ found' = [a \in DOMAIN found' |-> found'[a]] /\ DOMAIN found' = DOMAIN found \cup {l}
         /\ found'[l] = {} /\ \A a \in DOMAIN found \ {l} : found'[a] = found[a]
<1>1. data' = GetAllLeaves(Shard, Data[l]) /\ current' = {l} /\ pc' = "items"
      /\ found' = [a \in DOMAIN found \cup {l} |-> IF a = l THEN {} ELSE found[a]]
  BY DEF StartData
<1>2. Shard \in Db /\ Data[l] \in SUBSET Node
  BY ConstantTypes
<1>3. /\ data' \in Traversal /\ Honest(data') /\ Unread(data') = Data[l] /\ data'.db = Shard
      /\ data'.left = Data[l] /\ ~data'.err
  BY <1>1, <1>2, StartedTraversal
<1> QED BY <1>1, <1>3

LEMMA StartLeafTypeOK ==
  ASSUME TypeOK, NEW l \in Account, StartData(l), UNCHANGED address, roots' \subseteq Account
  PROVE  LeafTypeOK'
<1>1. /\ found' = [a \in DOMAIN found' |-> found'[a]] /\ current' = {l}
      /\ DOMAIN found' = DOMAIN found \cup {l}
      /\ found'[l] = {} /\ \A a \in DOMAIN found \ {l} : found'[a] = found[a]
  BY DataStarted
<1>2. DOMAIN found \subseteq Account /\ \A a \in DOMAIN found : found[a] \subseteq Item
  BY DEF TypeOK, LeafTypeOK
<1>3. \A a \in DOMAIN found' : found'[a] \subseteq Item
  BY <1>1, <1>2
<1>4. DOMAIN found' \subseteq Account
  BY <1>1, <1>2
<1> QED BY <1>1, <1>3, <1>4 DEF TypeOK, LeafTypeOK

LEMMA ItemFound ==
  ASSUME TypeOK, NEW a, NEW i, TakeItem(a, i)
  PROVE  /\ found' = [b \in DOMAIN found' |-> found'[b]] /\ DOMAIN found' = DOMAIN found
         /\ a \in DOMAIN found => found'[a] = found[a] \cup {i}
         /\ \A b \in DOMAIN found \ {a} : found'[b] = found[b]
<1>1. found' = [found EXCEPT ![a] = @ \cup {i}]
  BY DEF TakeItem, Found
<1>2. found = [b \in DOMAIN found |-> found[b]]
  BY DEF TypeOK, LeafTypeOK
<1> QED BY <1>1, <1>2

LEMMA LeafTypes ==
  ASSUME TypeOK, HonestTraversals, LeafStep, UNCHANGED <<idVars, balVars>>
  PROVE  TypeOK' /\ HonestTraversals'
<1>0. IdTypeOK' /\ BalTypeOK'
  BY DEF TypeOK, IdTypeOK, BalTypeOK, idVars, balVars
<1>1. CASE UNCHANGED <<store, opened, main, data, leafVars>>
  BY <1>1, StopTypeOK
<1>2. CASE OpenEpochs \/ OpenSingleDirectory
  <2>1. /\ UNCHANGED <<dirs, main, data, leafVars>>
        /\ \E places : /\ places \in SUBSET Nat \/ places = {Flat}
                       /\ opened' = [opened EXCEPT ![Shard] = places]
    BY <1>2, ConstantTypes, OrderedIsFinite
    DEF OpenEpochs, OpenSingleDirectory, PruningStorer, SingleStorer, store
  <2>2. TrieTypeOK'
    BY <2>1, ConstantTypes, OpenedType DEF TypeOK, TrieTypeOK
  <2> QED
    BY <1>0, <2>1, <2>2 DEF TypeOK, LeafTypeOK, HonestTraversals, Honest, leafVars
<1>3. CASE StartMain
  <2>1. main' \in Traversal /\ Honest(main')
    BY <1>3, ConstantTypes, StartedTraversal DEF StartMain
  <2>2. UNCHANGED <<dirs, opened, data, leafVars>>
    BY <1>3 DEF StartMain, store
  <2> QED
    BY <1>0, <2>1, <2>2
    DEF TypeOK, TrieTypeOK, LeafTypeOK, HonestTraversals, Honest, leafVars
<1>4. ASSUME NEW l \in Main, SkipLeaf(l) \/ CollectRoot(l) PROVE TypeOK' /\ HonestTraversals'
  <2>1. main' = Received(main, l) /\ l \in main.chan
    BY <1>4 DEF SkipLeaf, CollectRoot
  <2>2. main' \in Traversal /\ Honest(main')
    BY <2>1, ReceivedTraversal DEF TypeOK, TrieTypeOK, HonestTraversals
  <2>3. UNCHANGED <<dirs, opened, data, tool, address, current, found>>
    BY <1>4 DEF SkipLeaf, CollectRoot, store, leafVars
  <2>4. roots' \subseteq Account
    BY <1>4 DEF SkipLeaf, CollectRoot, leafVars, TypeOK, LeafTypeOK, HasDataTrie
  <2> QED
    BY <1>0, <2>2, <2>3, <2>4 DEF TypeOK, TrieTypeOK, LeafTypeOK, HonestTraversals, Honest
<1>5. ASSUME NEW l \in Main, ExportAccount(l) \/ CheckRoot(l) PROVE TypeOK' /\ HonestTraversals'
  <2>1. l \in Account /\ StartData(l)
    BY <1>5 DEF ExportAccount, CheckRoot, HasDataTrie, TypeOK, LeafTypeOK
  <2>2. main' \in Traversal /\ Honest(main')
    BY <1>5, ReceivedTraversal DEF ExportAccount, CheckRoot, TypeOK, TrieTypeOK, HonestTraversals,
       Honest
  <2>3. UNCHANGED <<dirs, opened, tool, address>> /\ roots' \subseteq Account
    BY <1>5 DEF ExportAccount, CheckRoot, store, TypeOK, LeafTypeOK
  <2>4. LeafTypeOK'
    BY <2>1, <2>3, StartLeafTypeOK
  <2> QED
    BY <1>0, <2>1, <2>2, <2>3, <2>4, DataStarted DEF TypeOK, TrieTypeOK, HonestTraversals
<1>6. CASE ExportStorage
  <2>1. address \in Account /\ StartData(address)
    BY <1>6 DEF ExportStorage, HasDataTrie
  <2>2. UNCHANGED <<dirs, opened, main, tool, address, roots>>
    BY <1>6 DEF ExportStorage, store
  <2>3. LeafTypeOK'
    BY <2>1, <2>2, StartLeafTypeOK DEF TypeOK, LeafTypeOK
  <2> QED
    BY <1>0, <2>1, <2>2, <2>3, DataStarted DEF TypeOK, TrieTypeOK, HonestTraversals, Honest
<1>7. ASSUME NEW a \in current, NEW i \in Item, TakeItem(a, i)
      PROVE  TypeOK' /\ HonestTraversals'
  <2>1. data' \in Traversal /\ Honest(data')
    BY <1>7, ReceivedTraversal DEF TakeItem, TypeOK, TrieTypeOK, HonestTraversals
  <2>2. UNCHANGED <<dirs, opened, main, tool, address, roots, current>>
    BY <1>7 DEF TakeItem, store
  <2>3. LeafTypeOK'
    BY <1>7, <2>2, ItemFound DEF TypeOK, LeafTypeOK
  <2> QED
    BY <1>0, <2>1, <2>2, <2>3 DEF TypeOK, TrieTypeOK, HonestTraversals, Honest
<1>8. CASE (\E a \in current : ItemsDone(a)) \/ SaveTokens
  <2>1. UNCHANGED <<dirs, opened, main, data, tool, address, roots, found>>
        /\ current' \subseteq current
    BY <1>8 DEF ItemsDone, SaveTokens, store
  <2> QED
    BY <1>0, <2>1 DEF TypeOK, TrieTypeOK, LeafTypeOK, HonestTraversals, Honest
<1>9. CASE NoOrderedDirectories \/ SetupFails \/ RootMissing \/ AccountFails \/ AccountsDone
           \/ AllRootsChecked \/ NoStorage \/ ItemsMissing \/ SaveTokensFails \/ GetStats
  BY <1>1, <1>9 DEF NoOrderedDirectories, SetupFails, RootMissing, AccountFails, AccountsDone,
     AllRootsChecked, NoStorage, ItemsMissing, SaveTokensFails, GetStats, LeafStops
<1> QED BY <1>2, <1>3, <1>4, <1>5, <1>6, <1>7, <1>8, <1>9 DEF LeafStep

(* At most one line is logged of a token and a shard.                      *)
LEMMA LoggedLines ==
  ASSUME NEW t \in Esdts, NEW s \in Shards
  PROVE  /\ ~Readable(s, t) => Logged(t, s) = {NoData(t)}
         /\ Readable(s, t) /\ Stored[s][t] = NoByte => Logged(t, s) = {WrongLength(t)}
         /\ Readable(s, t) /\ Stored[s][t] # NoByte /\ ~HasType(t, s) =>
              Logged(t, s) = {NotConverted(Declared[t], Stored[s][t])}
         /\ Readable(s, t) /\ HasType(t, s) /\ ~Right(t, s) => Logged(t, s) = {NotTheSame(t, s)}
         /\ Readable(s, t) /\ HasType(t, s) /\ Right(t, s) => Logged(t, s) = {}
<1> DEFINE byte == Stored[s][t]
           noData == ~Readable(s, t)
           nothing == Readable(s, t) /\ byte = NoByte
           noType == Readable(s, t) /\ byte # NoByte /\ ~HasType(t, s)
           other == Readable(s, t) /\ HasType(t, s)
<1>1. HasType(t, s) => byte # NoByte
  BY CheckerAssumption DEF HasType
<1>2. Logged(t, s) =
        CASE noData -> {NoData(t)}
          [] nothing -> {WrongLength(t)}
          [] noType -> {NotConverted(Declared[t], byte)}
          [] other -> IF Right(t, s) THEN {} ELSE {NotTheSame(t, s)}
  BY DEF Logged
<1>3. /\ noData => ~nothing /\ ~noType /\ ~other
      /\ nothing => ~noType /\ ~other
      /\ noType => ~other
  BY <1>1
<1>4. CASE noData
  <2>1. Logged(t, s) = {NoData(t)}
    BY <1>2, <1>3, <1>4
  <2> QED BY <1>4, <2>1
<1>5. CASE nothing
  <2>1. Logged(t, s) = {WrongLength(t)}
    BY <1>2, <1>3, <1>5
  <2> QED BY <1>3, <1>5, <2>1
<1>6. CASE noType
  <2>1. Logged(t, s) = {NotConverted(Declared[t], byte)}
    BY <1>2, <1>3, <1>6
  <2> QED BY <1>3, <1>6, <2>1
<1>7. CASE other
  <2>1. Logged(t, s) = IF Right(t, s) THEN {} ELSE {NotTheSame(t, s)}
    BY <1>2, <1>3, <1>7
  <2> QED BY <1>1, <1>7, <2>1
<1> QED BY <1>4, <1>5, <1>6, <1>7

LEMMA LoggedType ==
  /\ NotConverted(V1, NoByte) \in LogLines
  /\ \A t \in Esdts, s \in Shards : Logged(t, s) \subseteq LogLines
<1>1. NotConverted(V1, NoByte) \in TypeLines
  BY CheckerAssumption DEF NotConverted, TypeLines, Types
<1>2. ASSUME NEW t \in Esdts, NEW s \in Shards PROVE Logged(t, s) \subseteq LogLines
  <2>1. Declared[t] \in Types /\ Stored[s][t] \in Byte
    BY CheckerAssumption DEF Types
  <2>2. NoData(t) \in TokenLines /\ WrongLength(t) \in TokenLines
    BY DEF NoData, WrongLength, TokenLines
  <2>3. NotConverted(Declared[t], Stored[s][t]) \in TypeLines
    BY <2>1 DEF NotConverted, TypeLines
  <2>4. NotTheSame(t, s) \in PairLines
    BY <2>1 DEF NotTheSame, PairLines
  <2> QED BY <2>2, <2>3, <2>4, LoggedLines DEF LogLines
<1> QED BY <1>1, <1>2 DEF LogLines

LEMMA CheckerTypes ==
  ASSUME TypeOK, HonestTraversals, IdStep, UNCHANGED <<leafVars, balVars>>
  PROVE  TypeOK' /\ HonestTraversals'
<1>0. LeafTypeOK' /\ BalTypeOK' /\ tool' = tool
  BY DEF TypeOK, LeafTypeOK, BalTypeOK, leafVars, balVars
<1>1. ASSUME NEW d \in Db, LoadShard(d) PROVE TypeOK' /\ HonestTraversals'
  <2>1. UNCHANGED <<dirs, main, data, idVars>> /\ opened' = [opened EXCEPT ![d] = 0..MaxDBValue(d)]
    BY <1>1 DEF LoadShard, PruningStorer, store
  <2>2. TrieTypeOK'
    BY <2>1, OrderedIsFinite, OpenedType DEF TypeOK, TrieTypeOK
  <2> QED
    BY <1>0, <2>1, <2>2 DEF TypeOK, IdTypeOK, HonestTraversals, Honest, idVars
<1>2. CASE StartEsdts \/ \E s \in Shards : CountShard(s)
  <2>1. data' \in Traversal /\ Honest(data')
    <3>1. PICK d \in Db, leaves \in SUBSET Node : data' = GetAllLeaves(d, leaves)
      <4>1. CASE StartEsdts
        BY <4>1, ConstantTypes DEF StartEsdts
      <4>2. CASE \E s \in Shards : CountShard(s)
        <5>1. \A s : {t \in Esdts : Stored[s][t] # NoByte} \in SUBSET Node
          BY ConstantTypes
        <5> QED BY <4>2, <5>1 DEF CountShard, Shards
      <4> QED BY <1>2, <4>1, <4>2
    <3> QED BY <3>1, StartedTraversal
  <2>2. UNCHANGED <<dirs, opened, main, filed, ids, reported>> /\ counted' \subseteq Shards
    BY <1>2 DEF StartEsdts, CountShard, store, idVars, TypeOK, IdTypeOK
  <2> QED
    BY <1>0, <2>1, <2>2 DEF TypeOK, TrieTypeOK, IdTypeOK, HonestTraversals, Honest
<1>3. ASSUME NEW t \in Esdts, FileToken(t) \/ CountToken(t) PROVE TypeOK' /\ HonestTraversals'
  <2>1. data' \in Traversal /\ Honest(data')
    BY <1>3, ReceivedTraversal DEF FileToken, CountToken, TypeOK, TrieTypeOK, HonestTraversals
  <2>2. UNCHANGED <<dirs, opened, main, ids, reported, counted>>
    BY <1>3 DEF FileToken, CountToken, store, idVars
  <2>3. filed' \in [Type \cup {V1} -> SUBSET Esdts]
    BY <1>3, CheckerAssumption DEF FileToken, CountToken, idVars, TypeOK, IdTypeOK
  <2> QED
    BY <1>0, <2>1, <2>2, <2>3 DEF TypeOK, TrieTypeOK, IdTypeOK, HonestTraversals, Honest
<1>4. CASE StartCheck \/ \E t \in Esdts, s \in Shards : Compare(t, s)
  <2>1. UNCHANGED <<dirs, opened, main, data, filed, counted>>
    BY <1>4 DEF StartCheck, Compare, store
  <2>2. ids' \subseteq [token : Esdts, shard : Shards]
    <3>1. CASE StartCheck
      <4>1. UNION {filed[y] : y \in Type \ {Fungible}} \subseteq Esdts
        BY DEF TypeOK, IdTypeOK
      <4> QED BY <3>1, <4>1 DEF StartCheck
    <3>2. CASE \E t \in Esdts, s \in Shards : Compare(t, s)
      BY <3>2 DEF Compare, TypeOK, IdTypeOK
    <3> QED BY <1>4, <3>1, <3>2
  <2>3. reported' \subseteq LogLines
    <3>1. CASE StartCheck
      BY <3>1, LoggedType DEF StartCheck
    <3>2. ASSUME NEW t \in Esdts, NEW s \in Shards, Compare(t, s)
          PROVE  reported' \subseteq LogLines
      <4>1. reported' = reported \cup Logged(t, s) /\ reported \subseteq LogLines
        BY <3>2 DEF Compare, TypeOK, IdTypeOK
      <4> QED BY <4>1, LoggedType
    <3> QED BY <1>4, <3>1, <3>2
  <2> QED
    BY <1>0, <2>1, <2>2, <2>3 DEF TypeOK, TrieTypeOK, IdTypeOK, HonestTraversals, Honest
<1>5. CASE UNCHANGED <<store, opened, main, data, idVars>>
  BY <1>5, StopTypeOK
<1>6. CASE NoDirectories \/ LoadFails \/ RootHashMissing \/ EsdtsDone \/ ShardCounted \/ AllCounted
  BY <1>5, <1>6 DEF NoDirectories, LoadFails, RootHashMissing, EsdtsDone, ShardCounted, AllCounted,
     IdStops
<1> QED BY <1>1, <1>2, <1>3, <1>4, <1>6 DEF IdStep

LEMMA BalancesTypes ==
  ASSUME TypeOK, HonestTraversals, BalStep \/ (\E o \in Options : RunAgain(o)),
         UNCHANGED <<leafVars, idVars>>
  PROVE  TypeOK' /\ HonestTraversals'
<1>0. LeafTypeOK' /\ IdTypeOK' /\ tool' = tool
  BY DEF TypeOK, LeafTypeOK, IdTypeOK, leafVars, idVars
<1>1. CASE CreateTrie
  <2>1. UNCHANGED <<dirs, main, data, balVars>> /\ opened' = [opened EXCEPT ![Chain] = 0..Epoch]
    BY <1>1 DEF CreateTrie, store
  <2>2. 0..Epoch \in SUBSET Nat
    BY BalancesAssumption
  <2>3. TrieTypeOK'
    BY <2>1, <2>2, ConstantTypes, OpenedType DEF TypeOK, TrieTypeOK
  <2> QED
    BY <1>0, <2>1, <2>3 DEF TypeOK, BalTypeOK, HonestTraversals, Honest, balVars
<1>2. CASE \E o \in Options : RunAgain(o)
  <2>1. UNCHANGED <<dirs, main, data>> /\ opened' = [opened EXCEPT ![Chain] = {}]
        /\ options' \in Options /\ read' = {} /\ block' = {} /\ users' = {}
        /\ exports' = exports + 1
    BY <1>2 DEF RunAgain, store
  <2>2. TrieTypeOK'
    BY <2>1, ConstantTypes, OpenedType DEF TypeOK, TrieTypeOK
  <2> QED
    BY <1>0, <2>1, <2>2 DEF TypeOK, BalTypeOK, HonestTraversals, Honest
<1>3. ASSUME NEW blocks \in SUBSET Block, LoadBlocks(blocks) PROVE TypeOK' /\ HonestTraversals'
  BY <1>0, <1>3 DEF LoadBlocks, TypeOK, TrieTypeOK, BalTypeOK, HonestTraversals, Honest, store
<1>4. ASSUME NEW b \in Block, FindBestBlock(b) PROVE TypeOK' /\ HonestTraversals'
  <2>1. b.root \in Root
    BY BalancesAssumption
  <2>2. main' \in Traversal /\ Honest(main')
    BY <1>4, <2>1, ConstantTypes, StartedTraversal DEF FindBestBlock
  <2>3. UNCHANGED <<dirs, opened, data, options, read, exports>> /\ users' = {} /\ block' = {b}
        /\ b \in read
    BY <1>4 DEF FindBestBlock, store
  <2> QED
    BY <1>0, <2>2, <2>3 DEF TypeOK, TrieTypeOK, BalTypeOK, HonestTraversals, Honest
<1>5. ASSUME NEW b \in Block, NEW l \in Node, TakeUser(b, l) PROVE TypeOK' /\ HonestTraversals'
  <2>1. main' \in Traversal /\ Honest(main')
    BY <1>5, ReceivedTraversal DEF TakeUser, TypeOK, TrieTypeOK, HonestTraversals
  <2>2. UNCHANGED <<dirs, opened, data, options, read, block, exports>>
        /\ users' \subseteq users \cup User
    BY <1>5 DEF TakeUser, store
  <2> QED
    BY <1>0, <2>1, <2>2 DEF TypeOK, TrieTypeOK, BalTypeOK, HonestTraversals, Honest
<1>6. CASE \E b \in Block : SaveBalancesFile(b) \/ SaveMetadataFile(b) \/ SaveStops(b)
  <2>1. UNCHANGED <<dirs, opened, main, data, options, read, block, users, exports>>
    BY <1>6 DEF SaveBalancesFile, SaveMetadataFile, SaveStops, store
  <2> QED
    BY <1>0, <2>1 DEF TypeOK, TrieTypeOK, BalTypeOK, HonestTraversals, Honest
<1>7. CASE ExportFails \/ NoBestBlock \/ UsersDone
  <2>1. UNCHANGED <<store, opened, main, data, balVars>>
    BY <1>7 DEF ExportFails, NoBestBlock, UsersDone, BalStops
  <2> QED BY <2>1, StopTypeOK
<1> QED BY <1>1, <1>2, <1>3, <1>4, <1>5, <1>6, <1>7 DEF BalStep

LEMMA NextTypeOK == TypeOK /\ HonestTraversals /\ [Next]_vars => TypeOK' /\ HonestTraversals'
<1> SUFFICES ASSUME TypeOK, HonestTraversals, [Next]_vars PROVE TypeOK' /\ HonestTraversals'
  OBVIOUS
<1>1. CASE UNCHANGED vars
  <2>1. UNCHANGED <<store, opened, main, data, leafVars, idVars, balVars>>
    BY <1>1 DEF vars, trieVars, store
  <2> QED BY <2>1, StopTypeOK
<1> QED
  BY <1>1, ProducersTypeOK, LeafTypes, CheckerTypes, BalancesTypes DEF Next, Tool, Again

(* The databases, traversals, maps and files are of their types.           *)
THEOREM TypesAreCorrect == Spec => [](TypeOK /\ HonestTraversals)
<1>1. Init => TypeOK /\ HonestTraversals
  BY InitTypeOK
<1> QED BY <1>1, NextTypeOK, PTL DEF Spec

LEMMA ToolKept == Next => tool' = tool
<1>1. ASSUME LeafStep PROVE tool' = tool
  BY <1>1 DEF LeafStep, OpenEpochs, OpenSingleDirectory, NoOrderedDirectories, SetupFails,
     RootMissing, StartMain, AccountFails, AccountsDone, AllRootsChecked, ExportStorage, NoStorage,
     SkipLeaf, CollectRoot, ExportAccount, CheckRoot, ItemsDone, TakeItem, ItemsMissing,
     SaveTokens, SaveTokensFails, GetStats, LeafStops, leafVars
<1> QED BY <1>1 DEF Next, Producers, Tool, Again, leafVars

-----------------------------------------------------------------------------
(* LeafTools.                                                              *)
Walkers == {"tokensExporter", "trieChecker"}
Trackers == Walkers \cup {"accountStorageExporter"}
Walking == {"accounts", "items", "roots", "save", "done"}

(* An account with a data trie is yet to come from the main trie, yet to   *)
(* be gone through, or has been.                                           *)
AccountsTracked ==
  /\ roots \subseteq WithData /\ DOMAIN found \subseteq WithData
  /\ tool = "tokensExporter" => roots = {} /\ pc # "roots"
  /\ tool = "trieChecker" => pc # "save"
  /\ tool \in Walkers /\ pc \in Walking =>
       /\ Unread(main) \subseteq Main
       /\ WithData \subseteq Unread(main) \cup roots \cup DOMAIN found
       /\ pc \in {"roots", "save", "done"} \/ (pc = "items" /\ tool = "trieChecker") =>
            Unread(main) = {}
       /\ pc = "done" => roots = {}

(* An item of the account in turn is yet to come, or was taken; of the     *)
(* accounts before it all items were.                                      *)
ItemsTracked ==
  /\ \A a \in DOMAIN found \ current : found[a] = Data[a]
  /\ pc \notin {"items", "missing"} => current = {}
  /\ pc = "items" => \E a \in DOMAIN found :
                       current = {a} /\ Unread(data) \cup found[a] = Data[a]
  /\ tool = "accountStorageExporter" =>
       /\ pc \notin {"accounts", "roots", "save"}
       /\ pc = "items" => current = {address}
       /\ pc = "done" => address \in DOMAIN found

WithEsdt == {a \in WithData : Data[a] \cap Esdt # {}}

(* The map has the accounts with tokens that were gone through.            *)
TokensTracked ==
  tool = "tokensExporter" =>
    /\ tokens = [a \in DOMAIN tokens |-> TokenNames(Data[a])]
    /\ DOMAIN tokens \subseteq WithEsdt
    /\ (DOMAIN found \ current) \cap WithEsdt \subseteq DOMAIN tokens
    /\ pc = "done" => outfile = tokens

LeafInvariant ==
  tool \in Trackers => AccountsTracked /\ ItemsTracked /\ TokensTracked

LEMMA InitLeafInvariant == Init => LeafInvariant
<1> SUFFICES ASSUME Init PROVE LeafInvariant
  OBVIOUS
<1>1. roots = {} /\ current = {} /\ found = <<>> /\ tokens = <<>> /\ pc = "start"
  BY DEF Init, LeafInit, TrieInit
<1>2. DOMAIN found = {} /\ DOMAIN tokens = {} /\ tokens = [a \in {} |-> TokenNames(Data[a])]
  BY <1>1
<1>3. AccountsTracked
  BY <1>1, <1>2 DEF AccountsTracked, Walking
<1>4. ItemsTracked
  BY <1>1, <1>2 DEF ItemsTracked
<1>5. TokensTracked
  BY <1>1, <1>2 DEF TokensTracked
<1> QED BY <1>3, <1>4, <1>5 DEF LeafInvariant

(* Steps that end a tool before its time, or open the storer.              *)
LEMMA StopLeaf ==
  ASSUME AccountsTracked, ItemsTracked, TokensTracked, UNCHANGED leafVars,
         \/ pc' = "missing"
         \/ pc' \in {"opened", "failed"} /\ pc \notin {"items", "missing"}
  PROVE  AccountsTracked' /\ ItemsTracked' /\ TokensTracked'
<1>1. AccountsTracked'
  BY DEF AccountsTracked, WithData, HasDataTrie, leafVars, Walking
<1>2. ItemsTracked'
  BY DEF ItemsTracked, leafVars
<1>3. TokensTracked'
  BY DEF TokensTracked, WithEsdt, WithData, HasDataTrie, leafVars
<1> QED BY <1>1, <1>2, <1>3

(* Steps of the traversals.                                                *)
LEMMA SameUnreadLeaf ==
  ASSUME AccountsTracked, ItemsTracked, TokensTracked, UNCHANGED <<pc, leafVars>>,
         Unread(main') = Unread(main), Unread(data') = Unread(data)
  PROVE  AccountsTracked' /\ ItemsTracked' /\ TokensTracked'
<1>1. AccountsTracked'
  BY DEF AccountsTracked, WithData, HasDataTrie, leafVars, Unread
<1>2. ItemsTracked'
  BY DEF ItemsTracked, leafVars, Unread
<1>3. TokensTracked'
  BY DEF TokensTracked, WithEsdt, WithData, HasDataTrie, leafVars
<1> QED BY <1>1, <1>2, <1>3

LEMMA MainLeafTaken ==
  ASSUME TypeOK, HonestTraversals, AccountsTracked, ItemsTracked, TokensTracked,
         tool \in Trackers, NEW l \in Main, SkipLeaf(l) \/ CollectRoot(l)
  PROVE  AccountsTracked' /\ ItemsTracked' /\ TokensTracked'
<1>1. /\ pc = "accounts" /\ l \in main.chan /\ main' = Received(main, l)
      /\ UNCHANGED <<data, pc, tool, address, current, found, tokens, outfile>>
      /\ \/ ~HasDataTrie(l) /\ roots' = roots
         \/ HasDataTrie(l) /\ roots' = roots \cup {l} /\ tool = "trieChecker"
  BY DEF SkipLeaf, CollectRoot, leafVars
<1>2. Unread(main) = Unread(main') \cup {l} /\ Unread(main') \subseteq Unread(main)
  BY <1>1, ReceivedTraversal DEF TypeOK, TrieTypeOK, HonestTraversals
<1>3. l \in WithData <=> HasDataTrie(l)
  BY DEF WithData, HasDataTrie
<1>4. WithData' = WithData /\ (Unread(main))' = Unread(main') /\ (Unread(data))' = Unread(data)
  BY <1>1 DEF WithData, HasDataTrie, Unread
<1>5. AccountsTracked'
  BY <1>1, <1>2, <1>3, <1>4 DEF AccountsTracked
<1>6. ItemsTracked'
  BY <1>1, <1>4 DEF ItemsTracked
<1>7. TokensTracked'
  BY <1>1, <1>4 DEF TokensTracked, WithEsdt
<1> QED BY <1>5, <1>6, <1>7

LEMMA MainStarted ==
  ASSUME TypeOK, AccountsTracked, ItemsTracked, TokensTracked, StartMain
  PROVE  AccountsTracked' /\ ItemsTracked' /\ TokensTracked'
<1>1. /\ pc = "opened" /\ pc' = "accounts" /\ tool \in Walkers
      /\ UNCHANGED <<data, leafVars>> /\ main' = GetAllLeaves(Shard, Main)
  BY DEF StartMain, Walkers
<1>2. Unread(main') = Main /\ WithData \subseteq Main
  BY <1>1, ConstantTypes, StartedTraversal DEF WithData
<1>3. WithData' = WithData /\ (Unread(main))' = Unread(main')
  BY DEF WithData, HasDataTrie, Unread
<1>4. AccountsTracked'
  BY <1>1, <1>2, <1>3 DEF AccountsTracked, leafVars
<1>5. ItemsTracked'
  BY <1>1 DEF ItemsTracked, leafVars, Walkers
<1>6. TokensTracked'
  BY <1>1, <1>3 DEF TokensTracked, WithEsdt, leafVars
<1> QED BY <1>4, <1>5, <1>6

(* The next account with a data trie.                                      *)
LEMMA AccountStarted ==
  ASSUME TypeOK, HonestTraversals, AccountsTracked, ItemsTracked, TokensTracked,
         tool \in Trackers, NEW l \in WithData, StartData(l), pc \notin {"items", "missing"},
         UNCHANGED <<tool, address, tokens, outfile>>,
         roots' \subseteq roots, Unread(main') \subseteq Unread(main),
         tool = "accountStorageExporter" => l = address,
         tool \in Walkers =>
           /\ pc \in {"accounts", "roots"} /\ (pc = "roots" <=> tool = "trieChecker")
           /\ Unread(main) \cup roots \subseteq Unread(main') \cup roots' \cup {l}
  PROVE  AccountsTracked' /\ ItemsTracked' /\ TokensTracked'
<1>1. /\ Unread(data') = Data[l] /\ current' = {l} /\ pc' = "items"
      /\ DOMAIN found' = DOMAIN found \cup {l}
      /\ found'[l] = {} /\ \A a \in DOMAIN found \ {l} : found'[a] = found[a]
  BY DataStarted DEF WithData
<1>2. WithData' = WithData /\ (Unread(main))' = Unread(main') /\ (Unread(data))' = Unread(data')
  BY DEF WithData, HasDataTrie, Unread
<1>3. AccountsTracked'
  BY <1>1, <1>2 DEF AccountsTracked, Walking
<1>4. current = {}
  BY DEF ItemsTracked
<1>5. ItemsTracked'
  <2>1. \A a \in DOMAIN found' \ current' : found'[a] = Data[a]
    BY <1>1, <1>4 DEF ItemsTracked
  <2>2. \E a \in DOMAIN found' : current' = {a} /\ (Unread(data))' \cup found'[a] = Data[a]
    BY <1>1, <1>2
  <2> QED BY <1>1, <2>1, <2>2 DEF ItemsTracked
<1>6. TokensTracked'
  BY <1>1, <1>2, <1>4 DEF TokensTracked, WithEsdt
<1> QED BY <1>3, <1>5, <1>6

LEMMA NextAccount ==
  ASSUME TypeOK, HonestTraversals, AccountsTracked, ItemsTracked, TokensTracked,
         tool \in Trackers,
         (\E l \in Main : ExportAccount(l) \/ CheckRoot(l)) \/ ExportStorage
  PROVE  AccountsTracked' /\ ItemsTracked' /\ TokensTracked'
<1>1. ASSUME NEW l \in Main, ExportAccount(l) PROVE AccountsTracked' /\ ItemsTracked' /\ TokensTracked'
  <2>1. /\ pc = "accounts" /\ tool = "tokensExporter" /\ l \in WithData /\ l \in main.chan
        /\ main' = Received(main, l) /\ StartData(l)
        /\ UNCHANGED <<tool, address, roots, tokens, outfile>>
    BY <1>1 DEF ExportAccount, WithData, HasDataTrie
  <2>2. Unread(main) = Unread(main') \cup {l} /\ Unread(main') \subseteq Unread(main)
    BY <2>1, ReceivedTraversal DEF TypeOK, TrieTypeOK, HonestTraversals
  <2> QED BY <2>1, <2>2, AccountStarted
<1>2. ASSUME NEW l \in Main, CheckRoot(l) PROVE AccountsTracked' /\ ItemsTracked' /\ TokensTracked'
  <2>1. /\ pc = "roots" /\ l \in roots /\ roots' = roots \ {l} /\ StartData(l)
        /\ UNCHANGED <<main, tool, address, tokens, outfile>>
    BY <1>2 DEF CheckRoot
  <2>2. tool = "trieChecker" /\ l \in WithData
    BY <2>1 DEF AccountsTracked, ItemsTracked, Trackers, Walkers
  <2> QED BY <2>1, <2>2, AccountStarted
<1>3. CASE ExportStorage
  <2>1. /\ pc = "opened" /\ tool = "accountStorageExporter" /\ address \in WithData
        /\ StartData(address) /\ UNCHANGED <<main, tool, address, roots, tokens, outfile>>
    BY <1>3 DEF ExportStorage, WithData, HasDataTrie
  <2> QED BY <2>1, AccountStarted DEF Walkers
<1> QED BY <1>1, <1>2, <1>3

LEMMA ItemTaken ==
  ASSUME TypeOK, HonestTraversals, AccountsTracked, ItemsTracked, TokensTracked,
         NEW a \in current, NEW i \in Item, TakeItem(a, i)
  PROVE  AccountsTracked' /\ ItemsTracked' /\ TokensTracked'
<1>1. /\ pc = "items" /\ i \in data.chan /\ data' = Received(data, i)
      /\ UNCHANGED <<main, pc, tool, address, roots, current, tokens, outfile>>
  BY DEF TakeItem
<1>2. Unread(data) = Unread(data') \cup {i}
  BY <1>1, ReceivedTraversal DEF TypeOK, TrieTypeOK, HonestTraversals
<1>3. WithData' = WithData /\ (Unread(main))' = Unread(main) /\ (Unread(data))' = Unread(data')
  BY <1>1 DEF WithData, HasDataTrie, Unread
<1>4. a \in DOMAIN found /\ current = {a} /\ Unread(data) \cup found[a] = Data[a]
  BY <1>1 DEF ItemsTracked
<1>5. /\ DOMAIN found' = DOMAIN found /\ found'[a] = found[a] \cup {i}
      /\ \A b \in DOMAIN found \ {a} : found'[b] = found[b]
  BY <1>4, ItemFound
<1>6. AccountsTracked'
  BY <1>1, <1>3, <1>5 DEF AccountsTracked
<1>7. ItemsTracked'
  <2>1. \A b \in DOMAIN found' \ current' : found'[b] = Data[b]
    BY <1>1, <1>4, <1>5 DEF ItemsTracked
  <2>2. a \in DOMAIN found' /\ current' = {a} /\ (Unread(data))' \cup found'[a] = Data[a]
    BY <1>1, <1>2, <1>3, <1>4, <1>5
  <2> QED BY <1>1, <2>1, <2>2 DEF ItemsTracked
<1>8. TokensTracked'
  BY <1>1, <1>3, <1>5 DEF TokensTracked, WithEsdt
<1> QED BY <1>6, <1>7, <1>8

(* The account in turn is finished.                                        *)
LEMMA AccountFinished ==
  ASSUME TypeOK, HonestTraversals, AccountsTracked, ItemsTracked, TokensTracked,
         tool \in Trackers, NEW a \in current, ItemsDone(a)
  PROVE  AccountsTracked' /\ ItemsTracked' /\ TokensTracked'
<1>1. /\ pc = "items" /\ Drained(data) /\ ~data.err /\ current' = {} /\ pc' = After
      /\ UNCHANGED <<main, data, tool, address, roots, found, outfile>>
  BY DEF ItemsDone
<1>2. a \in DOMAIN found /\ current = {a} /\ Unread(data) \cup found[a] = Data[a]
  BY <1>1 DEF ItemsTracked
<1>3. found[a] = Data[a]
  BY <1>1, <1>2, DrainedTraversal DEF TypeOK, TrieTypeOK, HonestTraversals
<1>4. WithData' = WithData /\ (Unread(main))' = Unread(main)
  BY <1>1 DEF WithData, HasDataTrie, Unread
<1>5. \/ tool = "tokensExporter" /\ pc' = "accounts"
      \/ tool = "trieChecker" /\ pc' = "roots"
      \/ tool = "accountStorageExporter" /\ pc' = "done"
  BY <1>1 DEF After, Trackers, Walkers
<1>6. AccountsTracked'
  BY <1>1, <1>4, <1>5 DEF AccountsTracked, Walking, Walkers
<1>7. ItemsTracked'
  <2>1. \A b \in DOMAIN found : found[b] = Data[b]
    BY <1>2, <1>3 DEF ItemsTracked
  <2>2. tool = "accountStorageExporter" => a = address
    BY <1>1, <1>2 DEF ItemsTracked
  <2> QED BY <1>1, <1>2, <1>5, <2>1, <2>2 DEF ItemsTracked
<1>8. ASSUME tool = "tokensExporter" PROVE TokensTracked'
  <2>1. /\ tokens = [b \in DOMAIN tokens |-> TokenNames(Data[b])]
        /\ DOMAIN tokens \subseteq WithEsdt
        /\ (DOMAIN found \ current) \cap WithEsdt \subseteq DOMAIN tokens
    BY <1>8 DEF TokensTracked
  <2>2. tokens' = WithTokens(a) /\ pc' # "done" /\ WithEsdt' = WithEsdt
    BY <1>1, <1>4, <1>5, <1>8 DEF ItemsDone, WithEsdt
  <2>3. a \in WithEsdt <=> TokenNames(found[a]) # {}
    BY <1>2, <1>3 DEF WithEsdt, TokenNames, AccountsTracked
  <2>4. CASE a \notin WithEsdt
    BY <1>1, <1>2, <2>1, <2>2, <2>3, <2>4 DEF TokensTracked, WithTokens, TokenNames
  <2>5. CASE a \in WithEsdt
    <3>1. tokens' = [b \in DOMAIN tokens \cup {a} |->
                       IF b = a THEN TokenNames(Data[a]) ELSE tokens[b]]
      BY <1>3, <2>2, <2>3, <2>5 DEF WithTokens
    <3>2. DOMAIN tokens' = DOMAIN tokens \cup {a}
      BY <3>1
    <3>3. \A b \in DOMAIN tokens' : tokens'[b] = TokenNames(Data[b])
      BY <2>1, <3>1
    <3>4. tokens' = [b \in DOMAIN tokens' |-> TokenNames(Data[b])]
      BY <3>1, <3>3
    <3>5. (DOMAIN found' \ current') \cap WithEsdt' \subseteq DOMAIN tokens'
      BY <1>1, <1>2, <2>1, <2>2, <3>2
    <3> QED BY <2>1, <2>2, <2>5, <3>2, <3>4, <3>5 DEF TokensTracked, TokenNames
  <2> QED BY <2>4, <2>5
<1>9. TokensTracked'
  BY <1>1, <1>8 DEF TokensTracked
<1> QED BY <1>6, <1>7, <1>9

(* The main trie, the list of roots, or the whole work is finished.        *)
LEMMA PhaseFinished ==
  ASSUME TypeOK, HonestTraversals, AccountsTracked, ItemsTracked, TokensTracked,
         tool \in Trackers, AccountsDone \/ AllRootsChecked \/ SaveTokens
  PROVE  AccountsTracked' /\ ItemsTracked' /\ TokensTracked'
<1>1. CASE AccountsDone /\ main.err
  BY <1>1, StopLeaf DEF AccountsDone
<1>2. CASE AccountsDone /\ ~main.err
  <2>1. /\ pc = "accounts" /\ Drained(main) /\ UNCHANGED <<main, data, leafVars>>
        /\ pc' = IF tool = "trieChecker" THEN "roots" ELSE "save"
    BY <1>2 DEF AccountsDone
  <2>2. Unread(main) = {} /\ (Unread(main))' = Unread(main) /\ WithData' = WithData
    BY <1>2, <2>1, DrainedTraversal
    DEF TypeOK, TrieTypeOK, HonestTraversals, WithData, HasDataTrie, Unread
  <2>3. AccountsTracked'
    BY <2>1, <2>2 DEF AccountsTracked, Walking, leafVars
  <2>4. ItemsTracked'
    BY <2>1 DEF ItemsTracked, leafVars
  <2>5. TokensTracked'
    BY <2>1, <2>2 DEF TokensTracked, WithEsdt, leafVars
  <2> QED BY <2>3, <2>4, <2>5
<1>3. CASE AllRootsChecked
  <2>1. pc = "roots" /\ roots = {} /\ pc' = "done" /\ UNCHANGED <<main, data, leafVars>>
    BY <1>3 DEF AllRootsChecked, LeafStops
  <2>2. tool = "trieChecker" /\ (Unread(main))' = Unread(main) /\ WithData' = WithData
    BY <2>1 DEF AccountsTracked, ItemsTracked, Trackers, Walkers, WithData, HasDataTrie, Unread
  <2>3. AccountsTracked'
    BY <2>1, <2>2 DEF AccountsTracked, Walking, leafVars
  <2>4. ItemsTracked'
    BY <2>1, <2>2 DEF ItemsTracked, leafVars
  <2>5. TokensTracked'
    BY <2>1, <2>2 DEF TokensTracked, leafVars
  <2> QED BY <2>3, <2>4, <2>5
<1>4. CASE SaveTokens
  <2>1. /\ pc = "save" /\ outfile' = tokens /\ pc' = "done"
        /\ UNCHANGED <<main, data, tool, address, roots, current, found, tokens>>
    BY <1>4 DEF SaveTokens
  <2>2. tool = "tokensExporter" /\ (Unread(main))' = Unread(main) /\ WithData' = WithData
    BY <2>1 DEF AccountsTracked, ItemsTracked, Trackers, Walkers, WithData, HasDataTrie, Unread
  <2>3. AccountsTracked'
    BY <2>1, <2>2 DEF AccountsTracked, Walking
  <2>4. ItemsTracked'
    BY <2>1, <2>2 DEF ItemsTracked
  <2>5. TokensTracked'
    BY <2>1, <2>2 DEF TokensTracked, WithEsdt
  <2> QED BY <2>3, <2>4, <2>5
<1> QED BY <1>1, <1>2, <1>3, <1>4

LEMMA LeafStepInvariant ==
  ASSUME TypeOK, HonestTraversals, AccountsTracked, ItemsTracked, TokensTracked,
         tool \in Trackers, LeafStep
  PROVE  AccountsTracked' /\ ItemsTracked' /\ TokensTracked'
<1>1. CASE OpenEpochs \/ OpenSingleDirectory \/ NoOrderedDirectories \/ SetupFails \/ RootMissing
           \/ AccountFails \/ NoStorage \/ ItemsMissing \/ SaveTokensFails
  <2>1. UNCHANGED leafVars /\ \/ pc' = "missing"
                              \/ pc' \in {"opened", "failed"} /\ pc \notin {"items", "missing"}
    BY <1>1 DEF OpenEpochs, OpenSingleDirectory, NoOrderedDirectories, SetupFails, RootMissing,
       AccountFails, NoStorage, ItemsMissing, SaveTokensFails, LeafStops
  <2> QED BY <2>1, StopLeaf
<1>2. CASE GetStats
  BY <1>2 DEF GetStats, Trackers, Walkers
<1> QED
  BY <1>1, <1>2, MainStarted, MainLeafTaken, NextAccount, ItemTaken, AccountFinished,
     PhaseFinished DEF LeafStep

LEMMA NextLeafInvariant ==
  TypeOK /\ HonestTraversals /\ LeafInvariant /\ [Next]_vars => LeafInvariant'
<1> SUFFICES ASSUME TypeOK, HonestTraversals, LeafInvariant, [Next]_vars, tool' \in Trackers
             PROVE  AccountsTracked' /\ ItemsTracked' /\ TokensTracked'
  BY DEF LeafInvariant
<1>1. tool' = tool
  BY ToolKept DEF vars, leafVars
<1>2. AccountsTracked /\ ItemsTracked /\ TokensTracked /\ tool \in Trackers
  BY <1>1 DEF LeafInvariant
<1>3. CASE Producers
  <2>1. UNCHANGED <<pc, leafVars>>
    BY <1>3 DEF Producers, ProduceMain, ProduceData
  <2>2. Unread(main') = Unread(main) /\ Unread(data') = Unread(data)
    BY <1>3, ProducedTraversal
    DEF Producers, ProduceMain, ProduceData, TypeOK, TrieTypeOK, HonestTraversals
  <2> QED BY <1>2, <2>1, <2>2, SameUnreadLeaf
<1>4. CASE LeafStep
  BY <1>2, <1>4, LeafStepInvariant
<1>5. CASE UNCHANGED vars
  <2>1. UNCHANGED <<pc, leafVars, main, data>>
    BY <1>5 DEF vars, trieVars
  <2> QED BY <1>2, <2>1, SameUnreadLeaf
<1> QED BY <1>2, <1>3, <1>4, <1>5 DEF Next, Tool, Again, Trackers, Walkers

THEOREM LeafInvariantHolds == Spec => []LeafInvariant
BY InitLeafInvariant, NextLeafInvariant, TypesAreCorrect, PTL DEF Spec

(* A tool that ends well has gone through all it is about: trieChecker     *)
(* through all the data tries, accountStorageExporter through that of its  *)
(* account, and the file of tokensExporter has all the accounts with       *)
(* tokens, however the traversals overlap and whatever is missing.         *)
THEOREM ToolsAreComplete == Spec => []SuccessIsComplete
<1>1. ASSUME TypeOK, LeafInvariant, pc = "done" PROVE SuccessIsComplete
  <2>1. ASSUME tool \in Walkers
        PROVE  DOMAIN found = WithData /\ \A a \in WithData : found[a] = Data[a]
    BY <1>1, <2>1 DEF LeafInvariant, AccountsTracked, ItemsTracked, Trackers, Walking
  <2>2. ASSUME tool = "accountStorageExporter" PROVE found[address] = Data[address]
    BY <1>1, <2>2 DEF LeafInvariant, ItemsTracked, Trackers
  <2>3. ASSUME tool = "tokensExporter"
        PROVE  outfile = [a \in {b \in WithData : Data[b] \cap Esdt # {}} |-> TokenNames(Data[a])]
    <3>1. TokensTracked /\ current = {} /\ DOMAIN found = WithData
      BY <1>1, <2>1, <2>3 DEF LeafInvariant, ItemsTracked, Trackers, Walkers
    <3>2. DOMAIN tokens = WithEsdt
      BY <2>3, <3>1 DEF TokensTracked, WithEsdt
    <3>3. outfile = [a \in WithEsdt |-> TokenNames(Data[a])]
      BY <1>1, <2>3, <3>1, <3>2 DEF TokensTracked
    <3> QED BY <3>3 DEF WithEsdt
  <2> QED BY <2>1, <2>2, <2>3 DEF SuccessIsComplete, Walkers
<1>2. TypeOK /\ LeafInvariant => SuccessIsComplete
  BY <1>1 DEF SuccessIsComplete
<1> QED BY <1>2, TypesAreCorrect, LeafInvariantHolds, PTL

-----------------------------------------------------------------------------
(* LeafTools: a node that is missing.                                      *)
LEMMA StoreKept == Next => UNCHANGED store
<1>1. ASSUME LeafStep PROVE UNCHANGED store
  BY <1>1 DEF LeafStep, OpenEpochs, OpenSingleDirectory, NoOrderedDirectories, SetupFails,
     RootMissing, StartMain, AccountFails, AccountsDone, AllRootsChecked, ExportStorage, NoStorage,
     SkipLeaf, CollectRoot, ExportAccount, CheckRoot, ItemsDone, TakeItem, ItemsMissing,
     SaveTokens, SaveTokensFails, GetStats, LeafStops
<1>2. ASSUME IdStep PROVE UNCHANGED store
  BY <1>2 DEF IdStep, LoadShard, NoDirectories, LoadFails, RootHashMissing, StartEsdts, EsdtsDone,
     StartCheck, ShardCounted, AllCounted, FileToken, CountToken, Compare, CountShard, IdStops
<1>3. ASSUME BalStep PROVE UNCHANGED store
  BY <1>3 DEF BalStep, CreateTrie, ExportFails, NoBestBlock, UsersDone, LoadBlocks, FindBestBlock,
     SaveBalancesFile, SaveMetadataFile, SaveStops, TakeUser, BalStops
<1>4. ASSUME Producers \/ Again PROVE UNCHANGED store
  BY <1>4 DEF Producers, ProduceMain, ProduceData, Again, RunAgain
<1> QED BY <1>1, <1>2, <1>3, <1>4 DEF Next, Tool

THEOREM StoreStays == Spec => []StoreGiven
<1>1. Init => StoreGiven
  BY InitTypeOK
<1>2. StoreGiven /\ [Next]_vars => StoreGiven'
  <2> SUFFICES ASSUME StoreGiven, [Next]_vars PROVE StoreGiven'
    OBVIOUS
  <2>1. UNCHANGED store
    BY StoreKept DEF vars, trieVars, store
  <2> QED BY <2>1 DEF StoreGiven, store
<1> QED BY <1>1, <1>2, PTL DEF Spec

(* GetMaxDBValue: when it has no error, no directory is above its result.  *)
LEMMA NoneAboveMaxDBValue ==
  ASSUME StoreGiven, NEW d \in Db, HasMaxDBValue(d)
  PROVE  {e.num : e \in dirs[d]} \subseteq 0..MaxDBValue(d)
<1>1. dirs[d] \subseteq DirName /\ IsFiniteSet(dirs[d])
  BY TrieAssumption DEF StoreGiven
<1>2. IsFiniteSet(Ordered(d)) /\ Cardinality(Ordered(d)) = Cardinality(dirs[d])
  BY OrderedIsFinite DEF HasMaxDBValue
<1> DEFINE name == [n \in Ordered(d) |-> [num |-> n, plain |-> TRUE]]
<1>3. \A n \in Ordered(d) : n \in Nat /\ [num |-> n, plain |-> TRUE] \in dirs[d]
  <2>1. ASSUME NEW n \in Ordered(d) PROVE n \in Nat /\ [num |-> n, plain |-> TRUE] \in dirs[d]
    <3>1. n \in 0..(MaxDirs - 1) /\ \A m \in 0..n : [num |-> m, plain |-> TRUE] \in dirs[d]
      BY DEF Ordered
    <3>2. n \in Nat /\ n \in 0..n
      BY <3>1, TrieAssumption
    <3> QED BY <3>1, <3>2
  <2> QED BY <2>1
<1>4. name \in Injection(Ordered(d), dirs[d])
  <2>1. name \in [Ordered(d) -> dirs[d]]
    BY <1>3
  <2>2. ASSUME NEW m \in Ordered(d), NEW n \in Ordered(d), name[m] = name[n] PROVE m = n
    <3>1. name[m].num = m /\ name[n].num = n
      OBVIOUS
    <3> QED BY <2>2, <3>1
  <2> QED BY <2>1, <2>2 DEF Injection, IsInjective
<1>5. name \in Surjection(Ordered(d), dirs[d])
  <2> HIDE DEF name
  <2> QED BY <1>1, <1>2, <1>4, FS_Injection
<1>6. ASSUME NEW e \in dirs[d] PROVE e.num \in Ordered(d)
  <2>1. PICK n \in Ordered(d) : name[n] = e
    BY <1>5 DEF Surjection
  <2>2. e.num = n
    BY <2>1
  <2> QED BY <2>2
<1>7. ASSUME NEW n \in Ordered(d) PROVE n \in 0..MaxDBValue(d)
  <2>1. n \in Nat /\ 0..n \in SUBSET Ordered(d)
    BY TrieAssumption DEF Ordered
  <2>2. Cardinality(0..n) = n + 1
    <3>1. 0 \in Int /\ n \in Int /\ ~(0 > n)
      BY <2>1
    <3> QED BY <3>1, FS_Interval
  <2>3. Cardinality(0..n) <= Cardinality(Ordered(d))
    BY <1>2, <2>1, FS_Subset
  <2>4. Cardinality(Ordered(d)) \in Nat
    BY <1>2, FS_CardinalityType
  <2> QED BY <2>1, <2>2, <2>3, <2>4 DEF MaxDBValue
<1> QED BY <1>6, <1>7

Unreadable(d, leaves) == \E n \in leaves : ~Readable(d, n)

(* An exporter reads all the directories there are, and an error is that   *)
(* of a node it could not read.                                            *)
ErrorsAreMissing ==
  /\ pc \notin {"start", "failed"} =>
       HasMaxDBValue(Shard) /\ opened[Shard] = 0..MaxDBValue(Shard)
  /\ tool = "tokensExporter" /\ pc \in {"accounts", "items"} =>
       /\ main.db = Shard /\ main.left \subseteq Main
       /\ main.err => Unreadable(Shard, Main)
  /\ pc = "items" =>
       /\ data.db = Shard /\ data.left \subseteq Item
       /\ data.err => Unreadable(Shard, Item)
  /\ pc = "missing" => Unreadable(Shard, {MainRoot} \cup Main \cup Item)

LEMMA ErrorsLeafStep ==
  ASSUME TypeOK, HonestTraversals, LeafInvariant, ErrorsAreMissing, tool \in Exporters,
         UNCHANGED <<store, tool>>, LeafStep
  PROVE  ErrorsAreMissing'
<1>0. /\ HasMaxDBValue(Shard)' = HasMaxDBValue(Shard) /\ MaxDBValue(Shard)' = MaxDBValue(Shard)
  BY DEF HasMaxDBValue, Ordered, MaxDBValue, store
<1>1. ASSUME UNCHANGED opened
      PROVE  \A d, leaves : Unreadable(d, leaves)' = Unreadable(d, leaves)
  BY <1>1 DEF Unreadable, Readable, store
<1>2. /\ pc # "roots" /\ tool \in Trackers
      /\ tool = "accountStorageExporter" => pc \notin {"accounts", "save"}
      /\ pc \in {"accounts", "save"} => tool = "tokensExporter"
  BY DEF LeafInvariant, AccountsTracked, ItemsTracked, Trackers, Walkers, Exporters
<1>3. CASE OpenEpochs
  <2>1. pc' = "opened" /\ HasMaxDBValue(Shard) /\ opened' = [opened EXCEPT ![Shard] = 0..MaxDBValue(Shard)]
    BY <1>3 DEF OpenEpochs, PruningStorer
  <2>2. DOMAIN opened = Db /\ Shard \in Db
    BY ConstantTypes DEF TypeOK, TrieTypeOK
  <2> QED BY <1>0, <2>1, <2>2 DEF ErrorsAreMissing
<1>4. CASE OpenSingleDirectory \/ GetStats
  BY <1>4 DEF OpenSingleDirectory, GetStats, Exporters
<1>5. CASE NoOrderedDirectories \/ SetupFails \/ AccountFails \/ SaveTokensFails
  <2>1. pc' = "failed"
    BY <1>5 DEF NoOrderedDirectories, SetupFails, AccountFails, SaveTokensFails, LeafStops
  <2> QED BY <2>1 DEF ErrorsAreMissing
<1>6. CASE AllRootsChecked \/ \E l \in Main : CheckRoot(l)
  BY <1>2, <1>6 DEF AllRootsChecked, CheckRoot
<1>7. CASE SaveTokens
  <2>1. pc = "save" /\ pc' = "done" /\ UNCHANGED opened
    BY <1>7 DEF SaveTokens
  <2> QED BY <1>0, <2>1 DEF ErrorsAreMissing
<1>8. CASE RootMissing \/ NoStorage
  <2>1. UNCHANGED opened /\ pc = "opened"
        /\ \/ pc' = "failed"
           \/ pc' = "missing" /\ Unreadable(Shard, {MainRoot} \cup Main)
    BY <1>8 DEF RootMissing, NoStorage, LeafStops, Unreadable
  <2>2. Unreadable(Shard, {MainRoot} \cup Main) => Unreadable(Shard, {MainRoot} \cup Main \cup Item)
    BY DEF Unreadable
  <2> QED BY <1>0, <1>1, <2>1, <2>2 DEF ErrorsAreMissing
<1>9. CASE StartMain
  <2>1. pc = "opened" /\ pc' = "accounts" /\ UNCHANGED opened /\ main' = GetAllLeaves(Shard, Main)
    BY <1>9 DEF StartMain
  <2>2. main'.db = Shard /\ main'.left = Main /\ ~main'.err
    BY <2>1, ConstantTypes, StartedTraversal
  <2> QED BY <1>0, <2>1, <2>2 DEF ErrorsAreMissing
<1>10. ASSUME NEW l \in Main, SkipLeaf(l) \/ CollectRoot(l) PROVE ErrorsAreMissing'
  <2>1. UNCHANGED <<opened, data, pc>> /\ pc = "accounts" /\ l \in main.chan /\ main' = Received(main, l)
    BY <1>10 DEF SkipLeaf, CollectRoot
  <2>2. main'.db = main.db /\ main'.left = main.left /\ main'.err = main.err
    BY <2>1, ReceivedTraversal DEF TypeOK, TrieTypeOK, HonestTraversals
  <2> QED BY <1>0, <1>1, <2>1, <2>2 DEF ErrorsAreMissing
<1>11. ASSUME NEW l \in Main, ExportAccount(l) PROVE ErrorsAreMissing'
  <2>1. UNCHANGED opened /\ pc = "accounts" /\ l \in main.chan /\ main' = Received(main, l)
        /\ l \in Account /\ StartData(l)
    BY <1>11 DEF ExportAccount, HasDataTrie
  <2>2. main'.db = main.db /\ main'.left = main.left /\ main'.err = main.err
    BY <2>1, ReceivedTraversal DEF TypeOK, TrieTypeOK, HonestTraversals
  <2>3. data'.db = Shard /\ data'.left \subseteq Item /\ ~data'.err /\ pc' = "items"
    BY <2>1, ConstantTypes, DataStarted
  <2> QED BY <1>0, <1>1, <2>1, <2>2, <2>3 DEF ErrorsAreMissing
<1>12. CASE ExportStorage
  <2>1. UNCHANGED opened /\ pc = "opened" /\ tool = "accountStorageExporter"
        /\ address \in Account /\ StartData(address)
    BY <1>12 DEF ExportStorage, HasDataTrie
  <2>2. data'.db = Shard /\ data'.left \subseteq Item /\ ~data'.err /\ pc' = "items"
    BY <2>1, ConstantTypes, DataStarted
  <2> QED BY <1>0, <2>1, <2>2 DEF ErrorsAreMissing
<1>13. ASSUME NEW a \in current, NEW i \in Item, TakeItem(a, i) PROVE ErrorsAreMissing'
  <2>1. UNCHANGED <<opened, main, pc>> /\ pc = "items" /\ i \in data.chan /\ data' = Received(data, i)
    BY <1>13 DEF TakeItem
  <2>2. data'.db = data.db /\ data'.left = data.left /\ data'.err = data.err
    BY <2>1, ReceivedTraversal DEF TypeOK, TrieTypeOK, HonestTraversals
  <2> QED BY <1>0, <1>1, <2>1, <2>2 DEF ErrorsAreMissing
<1>14. ASSUME NEW a \in current, ItemsDone(a) PROVE ErrorsAreMissing'
  <2>1. UNCHANGED <<opened, main, data>> /\ pc = "items" /\ pc' = After
    BY <1>14 DEF ItemsDone
  <2>2. pc' = IF tool = "tokensExporter" THEN "accounts" ELSE "done"
    BY <2>1 DEF After, Exporters
  <2> QED BY <1>0, <1>1, <2>1, <2>2 DEF ErrorsAreMissing
<1>15. CASE AccountsDone \/ ItemsMissing
  <2>1. UNCHANGED <<opened, main, data>>
        /\ \/ pc = "accounts" /\ ~main.err /\ pc' = "save"
           \/ pc = "accounts" /\ main.err /\ pc' = "missing"
           \/ pc = "items" /\ data.err /\ pc' = "missing"
    BY <1>15 DEF AccountsDone, ItemsMissing, LeafStops, Exporters
  <2>2. pc' = "missing" => Unreadable(Shard, Main) \/ Unreadable(Shard, Item)
    BY <1>2, <2>1 DEF ErrorsAreMissing
  <2>3. Unreadable(Shard, Main) \/ Unreadable(Shard, Item)
          => Unreadable(Shard, {MainRoot} \cup Main \cup Item)
    BY DEF Unreadable
  <2> QED BY <1>0, <1>1, <2>1, <2>2, <2>3 DEF ErrorsAreMissing
<1> QED
  BY <1>3, <1>4, <1>5, <1>6, <1>7, <1>8, <1>9, <1>10, <1>11, <1>12, <1>13, <1>14, <1>15 DEF LeafStep

(* The goroutines: an error of a traversal is that of a node it is about.  *)
LEMMA ErrorsProduced ==
  ASSUME TypeOK, HonestTraversals, ErrorsAreMissing, UNCHANGED <<store, tool, opened, pc>>,
         UNCHANGED <<main, data>> \/ Producers
  PROVE  ErrorsAreMissing'
<1>0. /\ HasMaxDBValue(Shard)' = HasMaxDBValue(Shard) /\ MaxDBValue(Shard)' = MaxDBValue(Shard)
      /\ \A d, leaves : Unreadable(d, leaves)' = Unreadable(d, leaves)
  BY DEF HasMaxDBValue, Ordered, MaxDBValue, Unreadable, Readable, store
<1>1. /\ main'.db = main.db /\ main'.left \subseteq main.left
      /\ main'.err => main.err \/ Unreadable(main.db, main.left)
  BY ProducedTraversal DEF Producers, ProduceMain, ProduceData, TypeOK, TrieTypeOK,
     HonestTraversals, Unreadable
<1>2. /\ data'.db = data.db /\ data'.left \subseteq data.left
      /\ data'.err => data.err \/ Unreadable(data.db, data.left)
  BY ProducedTraversal DEF Producers, ProduceMain, ProduceData, TypeOK, TrieTypeOK,
     HonestTraversals, Unreadable
<1>3. /\ main.left \subseteq Main /\ Unreadable(Shard, main.left) => Unreadable(Shard, Main)
      /\ data.left \subseteq Item /\ Unreadable(Shard, data.left) => Unreadable(Shard, Item)
  BY DEF Unreadable
<1> QED BY <1>0, <1>1, <1>2, <1>3 DEF ErrorsAreMissing

LEMMA NextErrorsAreMissing ==
  ASSUME TypeOK, HonestTraversals, LeafInvariant, [Next]_vars,
         tool \in Exporters => ErrorsAreMissing, tool' \in Exporters
  PROVE  ErrorsAreMissing'
<1>1. UNCHANGED <<store, tool>>
  BY ToolKept, StoreKept DEF vars, trieVars, store, leafVars
<1>2. CASE Producers \/ UNCHANGED vars
  <2>1. UNCHANGED <<opened, pc>> /\ (UNCHANGED <<main, data>> \/ Producers)
    BY <1>2 DEF Producers, ProduceMain, ProduceData, vars, trieVars
  <2> QED BY <1>1, <2>1, ErrorsProduced
<1>3. CASE LeafStep
  BY <1>1, <1>3, ErrorsLeafStep
<1> QED BY <1>1, <1>2, <1>3 DEF Next, Tool, Again, Exporters

(* An exporter that reports a node missing has looked in every directory   *)
(* of the database: no directory that the operator gave it has the node.   *)
THEOREM MissingNodesAreNowhere == Spec => []MissingIsNowhere
<1>1. Init => (tool \in Exporters => ErrorsAreMissing)
  BY DEF Init, TrieInit, ErrorsAreMissing
<1>2. /\ TypeOK /\ HonestTraversals /\ LeafInvariant /\ (tool \in Exporters => ErrorsAreMissing)
      /\ [Next]_vars
      => (tool \in Exporters => ErrorsAreMissing)'
  BY NextErrorsAreMissing
<1>3. StoreGiven /\ (tool \in Exporters => ErrorsAreMissing) => MissingIsNowhere
  <2> SUFFICES ASSUME StoreGiven, ErrorsAreMissing, pc = "missing"
               PROVE  \E n \in {MainRoot} \cup Main \cup Item :
                        place[Shard][n] \notin {d.num : d \in dirs[Shard]}
    BY DEF MissingIsNowhere
  <2>1. HasMaxDBValue(Shard) /\ opened[Shard] = 0..MaxDBValue(Shard)
    BY DEF ErrorsAreMissing
  <2>2. {d.num : d \in dirs[Shard]} \subseteq opened[Shard]
    BY <2>1, ConstantTypes, NoneAboveMaxDBValue
  <2>3. PICK n \in {MainRoot} \cup Main \cup Item : place[Shard][n] \notin opened[Shard]
    BY DEF ErrorsAreMissing, Unreadable, Readable
  <2> QED BY <2>2, <2>3
<1> QED BY <1>1, <1>2, <1>3, TypesAreCorrect, LeafInvariantHolds, StoreStays, PTL DEF Spec

-----------------------------------------------------------------------------
(* TokenIdChecker.                                                         *)
Comparing == {"compare", "count", "done"}

Filed(t) == Declared[t] # Garbage => t \in filed[Declared[t]]

FiledByType == \A y \in Type \cup {V1} : \A t \in filed[y] : Declared[t] = y

(* Every token is yet to come or filed, but for what an error hides.       *)
EsdtsTracked ==
  /\ pc = "esdts" =>
       /\ data.db = Meta /\ data.left \subseteq Esdts
       /\ data.err => Unreadable(Meta, Esdts)
       /\ \A t \in Esdts : t \in Unread(data) \/ Filed(t)
  /\ pc \in {"system"} \cup Comparing =>
       Unreadable(Meta, Esdts) \/ \A t \in Esdts : Filed(t)

Pairs == [token : UNION {filed[y] : y \in Type \ {Fungible}}, shard : Shards]

(* What is logged of a set of pairs, and of tokens without a type.         *)
LinesOf(pairs) == UNION {Logged(p.token, p.shard) : p \in pairs}
TypelessLines == {NotConverted(y, NoByte) : y \in {y \in {V1} : filed[y] # {}}}

(* The log has the lines of the pairs that are no longer to be compared.   *)
PairsTracked ==
  IF pc \in Comparing
    THEN /\ ids \subseteq Pairs /\ reported = TypelessLines \cup LinesOf(Pairs \ ids)
         /\ pc \in {"count", "done"} => ids = {}
    ELSE reported = {}

(* The other tools report nothing, and open one database.                  *)
HomeDb == IF tool = "balancesExporter" THEN Chain ELSE Shard

CheckerInvariant ==
  IF tool = "updateTokenIdChecker"
    THEN FiledByType /\ EsdtsTracked /\ PairsTracked
    ELSE reported = {} /\ \A d \in Db \ {HomeDb} : opened[d] = {}

LEMMA InitCheckerInvariant == Init => CheckerInvariant
BY DEF Init, TrieInit, IdInit, CheckerInvariant, FiledByType, EsdtsTracked, PairsTracked, Comparing

LEMMA EsdtsProduced ==
  ASSUME TypeOK, HonestTraversals, FiledByType, EsdtsTracked, PairsTracked,
         UNCHANGED <<store, opened, pc, idVars>>, UNCHANGED <<main, data>> \/ Producers
  PROVE  FiledByType' /\ EsdtsTracked' /\ PairsTracked'
<1>1. Unreadable(Meta, Esdts)' = Unreadable(Meta, Esdts)
  BY DEF Unreadable, Readable, store
<1>2. /\ data'.db = data.db /\ data'.left \subseteq data.left /\ Unread(data') = Unread(data)
      /\ data'.err => data.err \/ Unreadable(data.db, data.left)
  BY ProducedTraversal DEF Producers, ProduceMain, ProduceData, TypeOK, TrieTypeOK,
     HonestTraversals, Unreadable
<1>3. data.left \subseteq Esdts /\ Unreadable(Meta, data.left) => Unreadable(Meta, Esdts)
  BY DEF Unreadable
<1>4. FiledByType' /\ \A t : Filed(t)' = Filed(t)
  BY DEF FiledByType, Filed, idVars
<1>5. EsdtsTracked'
  <2>1. Unread(data)' = Unread(data')
    BY DEF Unread
  <2> QED BY <1>1, <1>2, <1>3, <1>4, <2>1 DEF EsdtsTracked
<1>6. PairsTracked'
  <2>1. \A pairs : LinesOf(pairs)' = LinesOf(pairs)
    BY DEF LinesOf, Logged, Readable, store
  <2>2. Pairs' = Pairs /\ TypelessLines' = TypelessLines /\ UNCHANGED <<pc, ids, reported>>
    BY DEF Pairs, TypelessLines, idVars
  <2> QED BY <2>1, <2>2 DEF PairsTracked
<1> QED BY <1>4, <1>5, <1>6

LEMMA TokenFiled ==
  ASSUME TypeOK, HonestTraversals, FiledByType, EsdtsTracked, PairsTracked,
         NEW t \in Esdts, FileToken(t)
  PROVE  FiledByType' /\ EsdtsTracked' /\ PairsTracked'
<1>1. /\ pc = "esdts" /\ pc' = pc /\ t \in data.chan /\ data' = Received(data, t)
      /\ UNCHANGED <<store, opened, ids, reported>>
      /\ filed' = IF Declared[t] = Garbage THEN filed
                  ELSE [filed EXCEPT ![Declared[t]] = @ \cup {t}]
  BY DEF FileToken
<1>2. /\ data'.db = data.db /\ data'.left = data.left /\ data'.err = data.err
      /\ Unread(data) = Unread(data') \cup {t}
  BY <1>1, ReceivedTraversal DEF TypeOK, TrieTypeOK, HonestTraversals
<1>3. Declared[t] \in Type \cup {V1, Garbage} /\ filed \in [Type \cup {V1} -> SUBSET Esdts]
  BY CheckerAssumption DEF TypeOK, IdTypeOK
<1>4. ASSUME Declared[t] # Garbage
      PROVE  /\ filed'[Declared[t]] = filed[Declared[t]] \cup {t}
             /\ \A y \in (Type \cup {V1}) \ {Declared[t]} : filed'[y] = filed[y]
  BY <1>1, <1>3, <1>4
<1>5. FiledByType'
  BY <1>1, <1>3, <1>4 DEF FiledByType
<1>6. \A u \in Esdts : u = t \/ Filed(u) => Filed(u)'
  <2>1. \A u \in Esdts : Declared[u] # Garbage => Declared[u] \in Type \cup {V1}
    BY CheckerAssumption
  <2> QED BY <1>1, <1>3, <1>4, <2>1 DEF Filed
<1>7. EsdtsTracked'
  <2>1. Unreadable(Meta, Esdts)' = Unreadable(Meta, Esdts) /\ Unread(data)' = Unread(data')
    BY <1>1 DEF Unreadable, Readable, store, Unread
  <2> QED BY <1>1, <1>2, <1>6, <2>1 DEF EsdtsTracked, Comparing
<1>8. PairsTracked'
  BY <1>1 DEF PairsTracked, Comparing
<1> QED BY <1>5, <1>7, <1>8

LEMMA PairCompared ==
  ASSUME FiledByType, EsdtsTracked, PairsTracked, NEW t \in Esdts, NEW s \in Shards, Compare(t, s)
  PROVE  FiledByType' /\ EsdtsTracked' /\ PairsTracked'
<1> DEFINE p == [token |-> t, shard |-> s]
<1>1. /\ pc = "compare" /\ pc' = "compare" /\ p \in ids /\ ids' = ids \ {p}
      /\ reported' = reported \cup Logged(t, s)
      /\ UNCHANGED <<store, opened, data, filed>>
  BY DEF Compare
<1>2. FiledByType'
  BY <1>1 DEF FiledByType
<1>3. EsdtsTracked'
  BY <1>1 DEF EsdtsTracked, Filed, Unreadable, Readable, store, Comparing
<1>4. PairsTracked'
  <2>1. Pairs' = Pairs /\ TypelessLines' = TypelessLines
    BY <1>1 DEF Pairs, TypelessLines
  <2>2. \A pairs : LinesOf(pairs)' = LinesOf(pairs)
    BY <1>1 DEF LinesOf, Logged, Readable, store
  <2>3. ids \subseteq Pairs /\ reported = TypelessLines \cup LinesOf(Pairs \ ids)
    BY <1>1 DEF PairsTracked, Comparing
  <2>4. Pairs \ ids' = (Pairs \ ids) \cup {p}
    BY <1>1, <2>3
  <2>5. LinesOf(Pairs \ ids') = LinesOf(Pairs \ ids) \cup Logged(t, s)
    <3>1. \A S, q : LinesOf(S \cup {q}) = LinesOf(S) \cup Logged(q.token, q.shard)
      BY DEF LinesOf
    <3>2. p.token = t /\ p.shard = s
      OBVIOUS
    <3> QED BY <2>4, <3>1, <3>2
  <2>6. reported' = TypelessLines \cup LinesOf(Pairs \ ids')
    BY <1>1, <2>3, <2>5
  <2>7. (Pairs \ ids)' = Pairs \ ids'
    BY <2>1
  <2> QED BY <1>1, <2>1, <2>2, <2>3, <2>6, <2>7 DEF PairsTracked, Comparing
<1> QED BY <1>2, <1>3, <1>4

LEMMA CheckerStep ==
  ASSUME TypeOK, HonestTraversals, FiledByType, EsdtsTracked, PairsTracked, IdStep
  PROVE  FiledByType' /\ EsdtsTracked' /\ PairsTracked'
<1>1. CASE NoDirectories \/ LoadFails \/ RootHashMissing \/ \E d \in Db : LoadShard(d)
  <2>1. /\ pc \in {"start", "system"} /\ pc' \in {"start", "failed", "missing"} /\ UNCHANGED idVars
    BY <1>1 DEF NoDirectories, LoadFails, RootHashMissing, LoadShard, IdStops
  <2> QED BY <2>1 DEF FiledByType, EsdtsTracked, PairsTracked, Comparing, idVars
<1>2. CASE StartEsdts
  <2>1. pc = "start" /\ pc' = "esdts" /\ data' = GetAllLeaves(Meta, Esdts) /\ UNCHANGED idVars
    BY <1>2 DEF StartEsdts
  <2>2. data'.db = Meta /\ data'.left = Esdts /\ ~data'.err /\ Unread(data') = Esdts
    BY <2>1, ConstantTypes, StartedTraversal
  <2>3. Unread(data)' = Unread(data')
    BY DEF Unread
  <2> QED BY <2>1, <2>2, <2>3 DEF FiledByType, EsdtsTracked, PairsTracked, Comparing, idVars
<1>3. CASE EsdtsDone
  <2>1. pc = "esdts" /\ pc' = "system" /\ Drained(data) /\ UNCHANGED <<store, opened, data, idVars>>
    BY <1>3 DEF EsdtsDone
  <2>2. data.err \/ Unread(data) = {}
    BY <2>1, DrainedTraversal DEF TypeOK, TrieTypeOK, HonestTraversals
  <2>3. Unreadable(Meta, Esdts) \/ \A t \in Esdts : Filed(t)
    BY <2>1, <2>2 DEF EsdtsTracked
  <2>4. (Unreadable(Meta, Esdts) \/ \A t \in Esdts : Filed(t))'
    BY <2>1, <2>3 DEF Unreadable, Readable, Filed, idVars, store
  <2> QED BY <2>1, <2>4 DEF FiledByType, EsdtsTracked, PairsTracked, Comparing, idVars
<1>4. CASE StartCheck
  <2>1. pc = "system" /\ pc' = "compare" /\ ids' = Pairs /\ reported' = TypelessLines
        /\ UNCHANGED <<store, opened, data, filed>>
    BY <1>4 DEF StartCheck, Pairs, TypelessLines
  <2>2. Pairs' = Pairs /\ TypelessLines' = TypelessLines
    BY <2>1 DEF Pairs, TypelessLines
  <2>3. PairsTracked'
    <3>1. LinesOf({})' = {} /\ Pairs' \ ids' = {}
      BY <2>1, <2>2 DEF LinesOf
    <3> QED BY <2>1, <2>2, <3>1 DEF PairsTracked, Comparing
  <2> QED
    BY <2>1, <2>3 DEF FiledByType, EsdtsTracked, Filed, Unreadable, Readable, store, Comparing
<1>5. CASE ShardCounted \/ AllCounted \/ (\E t \in Esdts : CountToken(t))
           \/ (\E s \in Shards : CountShard(s))
  <2>1. /\ UNCHANGED <<store, opened, filed, ids, reported>> /\ pc \in Comparing /\ pc' \in Comparing
        /\ ids = {}
    BY <1>5 DEF ShardCounted, AllCounted, CountToken, CountShard, IdStops, idVars, Comparing,
       PairsTracked
  <2>2. EsdtsTracked'
    BY <2>1 DEF EsdtsTracked, Filed, Unreadable, Readable, store, Comparing
  <2>3. PairsTracked'
    <3>1. \A pairs : LinesOf(pairs)' = LinesOf(pairs)
      BY <2>1 DEF LinesOf, Logged, Readable, store
    <3>2. Pairs' = Pairs /\ TypelessLines' = TypelessLines
      BY <2>1 DEF Pairs, TypelessLines
    <3> QED BY <2>1, <3>1, <3>2 DEF PairsTracked, Comparing
  <2> QED BY <2>1, <2>2, <2>3 DEF FiledByType
<1> QED BY <1>1, <1>2, <1>3, <1>4, <1>5, TokenFiled, PairCompared DEF IdStep

(* A tool that is not the checker opens its own database only.             *)
LEMMA OpenedByOthers ==
  ASSUME TypeOK, [Next]_vars, tool # "updateTokenIdChecker"
  PROVE  UNCHANGED <<tool, reported>> /\ \A d \in Db \ {HomeDb} : opened'[d] = opened[d]
<1>1. UNCHANGED tool
  BY ToolKept DEF vars, leafVars
<1>2. UNCHANGED reported
  BY DEF Next, Producers, Tool, Again, vars, idVars
<1>3. DOMAIN opened = Db /\ opened = [d \in Db |-> opened[d]]
  BY DEF TypeOK, TrieTypeOK
<1>4. CASE LeafStep /\ tool \in LeafTool
  <2>1. UNCHANGED opened \/ \E places : opened' = [opened EXCEPT ![Shard] = places]
    BY <1>4 DEF LeafStep, OpenEpochs, OpenSingleDirectory, NoOrderedDirectories, SetupFails,
       RootMissing, StartMain, AccountFails, AccountsDone, AllRootsChecked, ExportStorage,
       NoStorage, SkipLeaf, CollectRoot, ExportAccount, CheckRoot, ItemsDone, TakeItem,
       ItemsMissing, SaveTokens, SaveTokensFails, GetStats, LeafStops, PruningStorer, SingleStorer
  <2>2. HomeDb = Shard
    BY <1>4 DEF HomeDb, LeafTool, Exporters
  <2> QED BY <1>1, <1>2, <1>3, <2>1, <2>2
<1>5. CASE (BalStep \/ \E o \in Options : RunAgain(o)) /\ tool = "balancesExporter"
  <2>1. UNCHANGED opened \/ \E places : opened' = [opened EXCEPT ![Chain] = places]
    BY <1>5 DEF BalStep, CreateTrie, ExportFails, NoBestBlock, UsersDone, LoadBlocks,
       FindBestBlock, SaveBalancesFile, SaveMetadataFile, SaveStops, TakeUser, BalStops, RunAgain
  <2>2. HomeDb = Chain
    BY <1>5 DEF HomeDb
  <2> QED BY <1>1, <1>2, <1>3, <2>1, <2>2
<1>6. CASE Producers \/ UNCHANGED vars
  BY <1>1, <1>2, <1>6 DEF Producers, ProduceMain, ProduceData, vars, trieVars
<1> QED BY <1>4, <1>5, <1>6 DEF Next, Tool, Again

LEMMA NextCheckerInvariant ==
  TypeOK /\ HonestTraversals /\ CheckerInvariant /\ [Next]_vars => CheckerInvariant'
<1> SUFFICES ASSUME TypeOK, HonestTraversals, CheckerInvariant, [Next]_vars
             PROVE  CheckerInvariant'
  OBVIOUS
<1>1. UNCHANGED tool
  BY ToolKept DEF vars, leafVars
<1>2. CASE tool # "updateTokenIdChecker"
  <2>1. HomeDb' = HomeDb
    BY <1>1 DEF HomeDb
  <2> QED BY <1>1, <1>2, <2>1, OpenedByOthers DEF CheckerInvariant
<1>3. CASE tool = "updateTokenIdChecker"
  <2>1. FiledByType /\ EsdtsTracked /\ PairsTracked
    BY <1>3 DEF CheckerInvariant
  <2>2. FiledByType' /\ EsdtsTracked' /\ PairsTracked'
    <3>1. CASE Producers \/ UNCHANGED vars
      <4>1. UNCHANGED <<store, opened, pc, idVars>> /\ (UNCHANGED <<main, data>> \/ Producers)
        BY <3>1 DEF Producers, ProduceMain, ProduceData, vars, trieVars, store
      <4> QED BY <2>1, <4>1, EsdtsProduced
    <3>2. CASE IdStep
      BY <2>1, <3>2, CheckerStep
    <3> QED BY <1>3, <3>1, <3>2 DEF Next, Tool, Again, LeafTool, Exporters
  <2> QED BY <1>1, <1>3, <2>2 DEF CheckerInvariant
<1> QED BY <1>2, <1>3

THEOREM CheckerInvariantHolds == Spec => []CheckerInvariant
BY InitCheckerInvariant, NextCheckerInvariant, TypesAreCorrect, PTL DEF Spec

(* What tells the lines of the log apart.                                  *)
Kind(line) == line.log
Token(line) == line.token
TypeIn(line) == line.type
ValueIn(line) == line.value
ShardIn(line) == line.shard
NamesToken(line) == "token" \in DOMAIN line

LEMMA LineFields ==
  /\ \A t : /\ Kind(NoData(t)) = "canNotGetTokenData"
            /\ Token(NoData(t)) = t
  /\ \A t : /\ Kind(WrongLength(t)) = "tokenDataHasWrongLength"
            /\ Token(WrongLength(t)) = t
  /\ \A y, b : /\ Kind(NotConverted(y, b)) = "canNotConvertTokenType"
               /\ TypeIn(NotConverted(y, b)) = y /\ ValueIn(NotConverted(y, b)) = b
               /\ ~NamesToken(NotConverted(y, b))
  /\ \A t, s : /\ Kind(NotTheSame(t, s)) = "tokenTypeIsNotTheSame"
               /\ Token(NotTheSame(t, s)) = t /\ ShardIn(NotTheSame(t, s)) = s
<1>1. ASSUME NEW y, NEW b
      PROVE  /\ Kind(NotConverted(y, b)) = "canNotConvertTokenType"
             /\ TypeIn(NotConverted(y, b)) = y /\ ValueIn(NotConverted(y, b)) = b
             /\ ~NamesToken(NotConverted(y, b))
  BY DEF Kind, TypeIn, ValueIn, NamesToken, NotConverted
<1>2. ASSUME NEW t, NEW s
      PROVE  /\ Kind(NotTheSame(t, s)) = "tokenTypeIsNotTheSame"
             /\ Token(NotTheSame(t, s)) = t /\ ShardIn(NotTheSame(t, s)) = s
  BY DEF Kind, Token, ShardIn, NotTheSame
<1>3. ASSUME NEW t
      PROVE  /\ Kind(NoData(t)) = "canNotGetTokenData" /\ Token(NoData(t)) = t
             /\ Kind(WrongLength(t)) = "tokenDataHasWrongLength" /\ Token(WrongLength(t)) = t
  BY DEF Kind, Token, NoData, WrongLength
<1> QED BY <1>1, <1>2, <1>3

(* What a log that has the lines of all the pairs says.                    *)
LEMMA LinesSay ==
  ASSUME NEW typeless, typeless \subseteq {NotConverted(V1, NoByte)},
         NEW lines, lines = typeless \cup LinesOf([token : Typed, shard : Shards])
  PROVE  SaysAll(lines)
<1>1. ASSUME NEW line
      PROVE  line \in lines <=>
               line \in typeless \/ \E t \in Typed, s \in Shards : line \in Logged(t, s)
  <2>1. \A p \in [token : Typed, shard : Shards] : p.token \in Typed /\ p.shard \in Shards
    OBVIOUS
  <2>2. ASSUME NEW t \in Typed, NEW s \in Shards
        PROVE  \E p \in [token : Typed, shard : Shards] : p.token = t /\ p.shard = s
    <3>1. [token |-> t, shard |-> s] \in [token : Typed, shard : Shards]
      OBVIOUS
    <3> QED BY <3>1
  <2> QED BY <2>1, <2>2 DEF LinesOf
<1>2. Typed \subseteq Esdts
  BY DEF Typed
<1>3. ASSUME NEW t \in Typed, NEW s \in Shards, NEW line
      PROVE  line \in Logged(t, s) <=>
               \/ ~Readable(s, t) /\ line = NoData(t)
               \/ Readable(s, t) /\ Stored[s][t] = NoByte /\ line = WrongLength(t)
               \/ /\ Readable(s, t) /\ Stored[s][t] # NoByte /\ ~HasType(t, s)
                  /\ line = NotConverted(Declared[t], Stored[s][t])
               \/ Readable(s, t) /\ HasType(t, s) /\ ~Right(t, s) /\ line = NotTheSame(t, s)
  <2>1. t \in Esdts
    BY <1>2
  <2>2. HasType(t, s) => Stored[s][t] # NoByte
    BY CheckerAssumption DEF HasType
  <2> QED BY <2>1, <2>2, LoggedLines
<1>4. ASSUME NEW t \in Typed, NEW s \in Shards
      PROVE  NotTheSame(t, s) \in lines <=> Readable(s, t) /\ HasType(t, s) /\ ~Right(t, s)
  <2>1. NotTheSame(t, s) \notin typeless
    BY LineFields
  <2>2. ASSUME NEW u \in Typed, NEW r \in Shards
        PROVE  NotTheSame(t, s) \in Logged(u, r) <=>
                 /\ u = t /\ r = s
                 /\ Readable(r, u) /\ HasType(u, r) /\ ~Right(u, r)
    BY <1>3, LineFields
  <2> QED BY <1>1, <2>1, <2>2
<1>5. ASSUME NEW t \in Typed
       PROVE  NoData(t) \in lines <=> \E s \in Shards : ~Readable(s, t)
  <2>1. NoData(t) \notin typeless
    BY LineFields
  <2>2. ASSUME NEW u \in Typed, NEW r \in Shards
        PROVE  NoData(t) \in Logged(u, r) <=> u = t /\ ~Readable(r, u)
    BY <1>3, LineFields
  <2> QED BY <1>1, <2>1, <2>2
<1>6. ASSUME NEW t \in Typed
       PROVE  WrongLength(t) \in lines <=>
                \E s \in Shards : Readable(s, t) /\ Stored[s][t] = NoByte
  <2>1. WrongLength(t) \notin typeless
    BY LineFields
  <2>2. ASSUME NEW u \in Typed, NEW r \in Shards
        PROVE  WrongLength(t) \in Logged(u, r) <=>
                 u = t /\ Readable(r, u) /\ Stored[r][u] = NoByte
    BY <1>3, LineFields
  <2> QED BY <1>1, <2>1, <2>2
<1>7. ASSUME NEW y \in Type \ {Fungible}, NEW b \in Byte \ {NoByte}
       PROVE  NotConverted(y, b) \in lines <=>
                /\ b \notin DOMAIN TypeOfByte
                /\ \E t \in Typed, s \in Shards :
                     Declared[t] = y /\ Readable(s, t) /\ Stored[s][t] = b
  <2>1. NotConverted(y, b) \notin typeless
    BY LineFields
  <2>2. ASSUME NEW t \in Typed, NEW s \in Shards
        PROVE  NotConverted(y, b) \in Logged(t, s) <=>
                 /\ b \notin DOMAIN TypeOfByte
                 /\ Declared[t] = y /\ Readable(s, t) /\ Stored[s][t] = b
    BY LineFields, <1>3 DEF HasType
  <2> QED BY <1>1, <2>1, <2>2
<1>8. ASSUME NEW line \in lines, NamesToken(line) PROVE Token(line) \in Typed
  <2>1. \A y, b : line # NotConverted(y, b)
    BY <1>8, LineFields
  <2>2. PICK t \in Typed, s \in Shards : line \in Logged(t, s)
    BY <1>1, <1>8, <2>1
  <2>3. line = NoData(t) \/ line = WrongLength(t) \/ line = NotTheSame(t, s)
    BY <1>3, <2>1, <2>2
  <2> QED BY LineFields, <2>3
<1> QED BY <1>4, <1>5, <1>6, <1>7, <1>8 DEF SaysAll, NamesToken, Token

(* When the metachain's database can be read to its end and                *)
(* updateTokenIdChecker ends well, its log says of the tokens that have a  *)
(* type what TypesAreCompared states, whatever the shards' databases lack. *)
THEOREM TypesAreReported == Spec => []TypesAreCompared
<1>1. ASSUME TypeOK, CheckerInvariant, pc = "done", Loaded,
             \A n \in Esdts : Readable(Meta, n)
      PROVE  \E typeless \in SUBSET {NotConverted(V1, NoByte)} :
               reported = typeless \cup LinesOf([token : Typed, shard : Shards])
  <2>1. CASE tool # "updateTokenIdChecker"
    <3>1. reported = {} /\ \A d \in Db \ {HomeDb} : opened[d] = {}
      BY <2>1, <1>1 DEF CheckerInvariant
    <3>2. Shards = {}
      BY <1>1, <3>1, ConstantTypes DEF Loaded, Shards
    <3>3. LinesOf([token : Typed, shard : Shards]) = {}
      BY <3>2 DEF LinesOf
    <3> QED BY <3>1, <3>3
  <2>2. CASE tool = "updateTokenIdChecker"
    <3>1. FiledByType /\ EsdtsTracked /\ PairsTracked
      BY <2>2, <1>1 DEF CheckerInvariant
    <3>2. reported = TypelessLines \cup LinesOf(Pairs)
      <4>1. ids = {} /\ Pairs \ {} = Pairs
        BY <1>1, <3>1 DEF PairsTracked, Comparing
      <4> QED BY <1>1, <3>1, <4>1 DEF PairsTracked, Comparing
    <3>3. \A t \in Esdts : Filed(t)
      <4>1. ~Unreadable(Meta, Esdts)
        BY <1>1 DEF Unreadable
      <4> QED BY <1>1, <3>1, <4>1 DEF EsdtsTracked, Comparing
    <3>4. UNION {filed[y] : y \in Type \ {Fungible}} = Typed
      <4>1. ASSUME NEW t \in Typed PROVE t \in UNION {filed[y] : y \in Type \ {Fungible}}
        <5>1. t \in Esdts /\ Declared[t] \in Type \ {Fungible} /\ Declared[t] # Garbage
          BY CheckerAssumption DEF Typed
        <5> QED BY <3>3, <5>1 DEF Filed
      <4>2. ASSUME NEW y \in Type \ {Fungible}, NEW t \in filed[y] PROVE t \in Typed
        <5>1. t \in Esdts
          BY <1>1 DEF TypeOK, IdTypeOK
        <5>2. Declared[t] = y
          BY <3>1 DEF FiledByType
        <5> QED BY <5>1, <5>2 DEF Typed
      <4> QED BY <4>1, <4>2
    <3>5. Pairs = [token : Typed, shard : Shards]
      BY <3>4 DEF Pairs
    <3>6. TypelessLines \in SUBSET {NotConverted(V1, NoByte)}
      BY DEF TypelessLines
    <3> QED BY <3>2, <3>5, <3>6
  <2> QED BY <2>1, <2>2
<1>2. ASSUME TypeOK, CheckerInvariant PROVE TypesAreCompared
  <2> SUFFICES ASSUME pc = "done", Loaded, \A n \in Esdts : Readable(Meta, n)
               PROVE  TypesAreCompared
    BY DEF TypesAreCompared
  <2>1. PICK typeless \in SUBSET {NotConverted(V1, NoByte)} :
          reported = typeless \cup LinesOf([token : Typed, shard : Shards])
    BY <1>1, <1>2
  <2> QED BY <2>1, LinesSay DEF TypesAreCompared
<1> QED BY <1>2, TypesAreCorrect, CheckerInvariantHolds, PTL

-----------------------------------------------------------------------------
(* BalancesExporter.                                                       *)
ExportedOf(b, leaves) == {u \in leaves \cap User : ShouldExport(b.root, u)}

Exported(b) == [root |-> b.root, options |-> options, users |-> users]

Chosen(b) == b \in read /\ \A c \in read : Eligible(c) => b.nonce <= c.nonce

(* An account to export is yet to come from the trie of the best block, or *)
(* was taken; after the file of balances is written, it has them all.      *)
BalancesTracked ==
  /\ pc \in {"start", "blocks", "best"} => block = {}
  /\ \A b, c \in block : b = c
  /\ \A b \in block :
       /\ Chosen(b)
       /\ pc = "users" =>
            users \cup ExportedOf(b, Unread(main)) = ExportedOf(b, LeavesOf[b.root])
       /\ pc \in {"balances", "metadata", "done"} => users = ExportedOf(b, LeavesOf[b.root])
       /\ pc \in {"metadata", "done"} =>
            FileName(b) \in DOMAIN balances /\ balances[FileName(b)] = Exported(b)

BalancesInvariant ==
  /\ IF tool = "balancesExporter" THEN BalancesTracked ELSE block = {}
  /\ MetadataMatchesBalances

LEMMA InitBalancesInvariant == Init => BalancesInvariant
<1> SUFFICES ASSUME Init PROVE BalancesInvariant
  OBVIOUS
<1>1. block = {} /\ metadata = <<>>
  BY DEF Init, BalInit
<1>2. DOMAIN metadata = {}
  BY <1>1
<1> QED BY <1>1, <1>2 DEF BalancesInvariant, BalancesTracked, MetadataMatchesBalances

LEMMA SameBlocks ==
  ASSUME UNCHANGED <<store, opened, options, read>>
  PROVE  /\ \A b : Chosen(b)' = Chosen(b)
         /\ \A b, leaves : ExportedOf(b, leaves)' = ExportedOf(b, leaves)
         /\ \A b : FileName(b)' = FileName(b)
BY DEF Chosen, Eligible, IsRootHashAvailable, Readable, store, ExportedOf, ShouldExport, FileName

LEMMA SameFiles ==
  ASSUME MetadataMatchesBalances, UNCHANGED <<balances, metadata>>, half \subseteq half'
  PROVE  MetadataMatchesBalances'
BY DEF MetadataMatchesBalances

LEMMA UserTaken ==
  ASSUME TypeOK, HonestTraversals, BalancesTracked, NEW b \in block, NEW l, TakeUser(b, l)
  PROVE  BalancesTracked'
<1>1. /\ pc = "users" /\ pc' = "users" /\ l \in main.chan /\ main' = Received(main, l)
      /\ users' = IF l \in User /\ ShouldExport(b.root, l) THEN users \cup {l} ELSE users
      /\ UNCHANGED <<store, opened, options, read, block>>
  BY DEF TakeUser
<1>2. Unread(main) = Unread(main') \cup {l}
  BY <1>1, ReceivedTraversal DEF TypeOK, TrieTypeOK, HonestTraversals
<1>3. Chosen(b)' /\ \A c \in block : c = b
  BY <1>1, SameBlocks DEF BalancesTracked
<1>4. users \cup ExportedOf(b, Unread(main)) = ExportedOf(b, LeavesOf[b.root])
  BY <1>1 DEF BalancesTracked
<1>5. users' \cup ExportedOf(b, Unread(main')) = ExportedOf(b, LeavesOf[b.root])
  <2>1. ExportedOf(b, Unread(main)) =
          ExportedOf(b, Unread(main')) \cup {u \in {l} \cap User : ShouldExport(b.root, u)}
    BY <1>2 DEF ExportedOf
  <2>2. users' = users \cup {u \in {l} \cap User : ShouldExport(b.root, u)}
    BY <1>1
  <2> QED BY <1>4, <2>1, <2>2
<1>6. ExportedOf(b, LeavesOf[b.root])' = ExportedOf(b, LeavesOf[b.root])
      /\ ExportedOf(b, Unread(main))' = ExportedOf(b, Unread(main'))
  BY <1>1 DEF ExportedOf, ShouldExport, Unread
<1> QED BY <1>1, <1>3, <1>5, <1>6 DEF BalancesTracked

LEMMA BalancesStep ==
  ASSUME TypeOK, HonestTraversals, BalancesTracked, MetadataMatchesBalances,
         BalStep \/ \E o \in Options : RunAgain(o)
  PROVE  BalancesTracked' /\ MetadataMatchesBalances'
<1>1. CASE CreateTrie \/ (\E blocks \in SUBSET Block : LoadBlocks(blocks))
           \/ (\E o \in Options : RunAgain(o))
  <2>1. block' = {} /\ UNCHANGED <<balances, metadata, half>>
    BY <1>1 DEF CreateTrie, LoadBlocks, RunAgain, BalancesTracked, balVars
  <2>2. BalancesTracked'
    BY <2>1 DEF BalancesTracked
  <2> QED BY <2>1, <2>2, SameFiles
<1>2. CASE ExportFails \/ NoBestBlock \/ UsersDone \/ \E b \in Block : SaveStops(b)
  <2>1. /\ UNCHANGED <<store, opened, main, options, read, block, users, balances, metadata>>
        /\ half \subseteq half'
        /\ \/ pc' \in {"failed", "missing"}
           \/ pc = "users" /\ Drained(main) /\ ~main.err /\ pc' = "balances"
    BY <1>2 DEF ExportFails, NoBestBlock, UsersDone, SaveStops, BalStops, balVars
  <2>2. pc' = "balances" => Unread(main) = {} /\ pc = "users"
    BY <2>1, DrainedTraversal DEF TypeOK, TrieTypeOK, HonestTraversals
  <2>3. \A b \in block : pc' = "balances" => users = ExportedOf(b, LeavesOf[b.root])
    <3>1. \A b : ExportedOf(b, {}) = {}
      BY DEF ExportedOf
    <3> QED BY <2>2, <3>1 DEF BalancesTracked
  <2>4. BalancesTracked'
    <3>1. \A b \in block : Chosen(b)' /\ ExportedOf(b, LeavesOf[b.root])' = ExportedOf(b, LeavesOf[b.root])
      BY <2>1, SameBlocks DEF BalancesTracked, ExportedOf, ShouldExport
    <3> QED BY <2>1, <2>3, <3>1 DEF BalancesTracked
  <2> QED BY <2>1, <2>4, SameFiles
<1>3. ASSUME NEW b \in Block, FindBestBlock(b)
      PROVE  BalancesTracked' /\ MetadataMatchesBalances'
  <2>1. /\ pc' = "users" /\ block' = {b} /\ users' = {} /\ b \in read
        /\ main' = GetAllLeaves(Chain, LeavesOf[b.root])
        /\ UNCHANGED <<store, opened, options, read, balances, metadata, half>>
    BY <1>3 DEF FindBestBlock
  <2>2. Chosen(b)
    BY <1>3 DEF FindBestBlock, Chosen
  <2>3. Chosen(b)'
    BY <2>1, <2>2, SameBlocks
  <2>4. Unread(main)' = LeavesOf[b.root]
    <3>1. Unread(main') = LeavesOf[b.root]
      BY <2>1, BalancesAssumption, ConstantTypes, StartedTraversal
    <3> QED BY <3>1 DEF Unread
  <2>5. BalancesTracked'
    BY <2>1, <2>3, <2>4 DEF BalancesTracked
  <2> QED BY <2>1, <2>5, SameFiles
<1>4. ASSUME NEW b \in Block, NEW l \in Node, TakeUser(b, l)
      PROVE  BalancesTracked' /\ MetadataMatchesBalances'
  <2>1. b \in block /\ UNCHANGED <<balances, metadata, half>>
    BY <1>4 DEF TakeUser
  <2> QED BY <1>4, <2>1, UserTaken, SameFiles
<1>5. ASSUME NEW b \in Block, SaveBalancesFile(b)
      PROVE  BalancesTracked' /\ MetadataMatchesBalances'
  <2>1. /\ pc = "balances" /\ b \in block /\ pc' = "metadata"
        /\ balances' = Written(balances, FileName(b), Exported(b))
        /\ half' = half \cup {FileName(b)}
        /\ UNCHANGED <<store, opened, options, read, block, users, metadata>>
    BY <1>5 DEF SaveBalancesFile, Exported
  <2>2. /\ DOMAIN balances' = DOMAIN balances \cup {FileName(b)}
        /\ balances'[FileName(b)] = Exported(b)
        /\ \A n \in DOMAIN balances \ {FileName(b)} : balances'[n] = balances[n]
    BY <2>1 DEF Written
  <2>3. MetadataMatchesBalances'
    BY <2>1, <2>2 DEF MetadataMatchesBalances
  <2>4. BalancesTracked'
    <3>1. Chosen(b)' /\ FileName(b)' = FileName(b) /\ Exported(b)' = Exported(b)
          /\ ExportedOf(b, LeavesOf[b.root])' = ExportedOf(b, LeavesOf[b.root])
      BY <2>1, SameBlocks DEF BalancesTracked, Exported, ExportedOf, ShouldExport
    <3>2. users' = ExportedOf(b, LeavesOf[b.root]) /\ \A c \in block : c = b
      BY <2>1 DEF BalancesTracked
    <3> QED BY <2>1, <2>2, <3>1, <3>2 DEF BalancesTracked
  <2> QED BY <2>3, <2>4
<1>6. ASSUME NEW b \in Block, SaveMetadataFile(b)
      PROVE  BalancesTracked' /\ MetadataMatchesBalances'
  <2> DEFINE text == [root |-> b.root, options |-> options, num |-> Cardinality(users)]
  <2>1. /\ pc = "metadata" /\ b \in block /\ pc' = "done"
        /\ metadata' = Written(metadata, FileName(b), text) /\ half' = half \ {FileName(b)}
        /\ UNCHANGED <<store, opened, options, read, block, users, balances>>
    BY <1>6 DEF SaveMetadataFile
  <2>2. FileName(b) \in DOMAIN balances /\ balances[FileName(b)] = Exported(b)
    BY <2>1 DEF BalancesTracked
  <2>3. /\ DOMAIN metadata' = DOMAIN metadata \cup {FileName(b)}
        /\ metadata'[FileName(b)] = text
        /\ \A n \in DOMAIN metadata \ {FileName(b)} : metadata'[n] = metadata[n]
    BY <2>1 DEF Written
  <2>4. MetadataMatchesBalances'
    <3>1. ASSUME NEW n \in DOMAIN metadata' \ half', n # FileName(b)
          PROVE  n \in DOMAIN metadata \ half /\ metadata'[n] = metadata[n]
      BY <2>1, <2>3, <3>1
    <3>2. /\ balances[FileName(b)].root = text.root
          /\ balances[FileName(b)].options = text.options
          /\ Cardinality(balances[FileName(b)].users) = text.num
      BY <2>2 DEF Exported
    <3> QED BY <2>1, <2>2, <2>3, <3>1, <3>2 DEF MetadataMatchesBalances
  <2>5. BalancesTracked'
    <3>1. Chosen(b)' /\ FileName(b)' = FileName(b) /\ Exported(b)' = Exported(b)
          /\ ExportedOf(b, LeavesOf[b.root])' = ExportedOf(b, LeavesOf[b.root])
      BY <2>1, SameBlocks DEF BalancesTracked, Exported, ExportedOf, ShouldExport
    <3>2. users' = ExportedOf(b, LeavesOf[b.root]) /\ \A c \in block : c = b
      BY <2>1 DEF BalancesTracked
    <3> QED BY <2>1, <2>2, <3>1, <3>2 DEF BalancesTracked
  <2> QED BY <2>4, <2>5
<1> QED BY <1>1, <1>2, <1>3, <1>4, <1>5, <1>6 DEF BalStep

LEMMA NextBalancesInvariant ==
  TypeOK /\ HonestTraversals /\ BalancesInvariant /\ [Next]_vars => BalancesInvariant'
<1> SUFFICES ASSUME TypeOK, HonestTraversals, BalancesInvariant, [Next]_vars
             PROVE  BalancesInvariant'
  OBVIOUS
<1>1. UNCHANGED tool
  BY ToolKept DEF vars, leafVars
<1>2. CASE UNCHANGED balVars /\ tool # "balancesExporter"
  <2>1. UNCHANGED <<block, balances, metadata, half>>
    BY <1>2 DEF balVars
  <2> QED BY <1>1, <1>2, <2>1, SameFiles DEF BalancesInvariant
<1>3. CASE (Producers \/ UNCHANGED vars) /\ tool = "balancesExporter"
  <2>1. UNCHANGED <<store, opened, pc, options, read, block, users, balances, metadata, half>>
    BY <1>3 DEF Producers, ProduceMain, ProduceData, vars, trieVars, balVars, store
  <2>2. Unread(main') = Unread(main)
    BY <1>3, ProducedTraversal DEF Producers, ProduceMain, ProduceData, TypeOK, TrieTypeOK,
       HonestTraversals, vars, trieVars
  <2>3. BalancesTracked'
    <3>1. \A b \in block :
            /\ Chosen(b)' = Chosen(b) /\ FileName(b)' = FileName(b) /\ Exported(b)' = Exported(b)
            /\ ExportedOf(b, LeavesOf[b.root])' = ExportedOf(b, LeavesOf[b.root])
            /\ ExportedOf(b, Unread(main))' = ExportedOf(b, Unread(main))
      BY <2>1, <2>2, SameBlocks DEF Exported, ExportedOf, ShouldExport, Unread
    <3> QED BY <1>3, <2>1, <3>1 DEF BalancesInvariant, BalancesTracked
  <2> QED BY <1>1, <1>3, <2>1, <2>3, SameFiles DEF BalancesInvariant
<1>4. CASE (BalStep \/ \E o \in Options : RunAgain(o)) /\ tool = "balancesExporter"
  BY <1>1, <1>4, BalancesStep DEF BalancesInvariant
<1> QED
  BY <1>2, <1>3, <1>4 DEF Next, Tool, Again, Producers, LeafTool, Exporters, vars

THEOREM BalancesInvariantHolds == Spec => []BalancesInvariant
BY InitBalancesInvariant, NextBalancesInvariant, TypesAreCorrect, PTL DEF Spec

(* A run of balancesExporter that ends well has exported all the accounts  *)
(* its options ask for, at the root hash of the first eligible block.      *)
THEOREM AllBalancesExported == Spec => []BestBlockIsExported
<1>1. BalancesInvariant => BestBlockIsExported
  <2> SUFFICES ASSUME BalancesInvariant, pc = "done", NEW b \in block
               PROVE  /\ b.root = balances[FileName(b)].root
                      /\ users = ExportedOf(b, LeavesOf[b.root])
                      /\ \A c \in read : Eligible(c) => b.nonce <= c.nonce
    BY DEF BestBlockIsExported, ExportedOf, Eligible, IsRootHashAvailable
  <2>1. BalancesTracked
    BY DEF BalancesInvariant
  <2>2. balances[FileName(b)] = Exported(b)
    BY <2>1 DEF BalancesTracked
  <2> QED BY <2>1, <2>2 DEF BalancesTracked, Chosen, Exported
<1> QED BY <1>1, BalancesInvariantHolds, PTL

(* After any runs, the metadata of a name describes its balances, unless   *)
(* the last run that had the name did not write both files.                *)
THEOREM FilesAgree == Spec => []MetadataMatchesBalances
<1>1. BalancesInvariant => MetadataMatchesBalances
  BY DEF BalancesInvariant
<1> QED BY <1>1, BalancesInvariantHolds, PTL

-----------------------------------------------------------------------------
(* Every step comes nearer to the end.                                     *)
Fewer(S, T) == S \subseteq T /\ S # T

(* A leaf is sent once.                                                    *)
Disjoint(t) == t.left \cap t.chan = {}
SentOnce == Disjoint(main) /\ Disjoint(data)

(* A goroutine sends a leaf, or closes the channel; what the tool has yet  *)
(* to take stays.                                                          *)
HandsOver(t, u) ==
  /\ Unread(u) = Unread(t)
  /\ Fewer(u.left, t.left) \/ (u.left = t.left /\ ~t.closed /\ u.closed)

GoroutineAdvances ==
  /\ UNCHANGED <<store, opened, pc, leafVars, idVars, balVars>>
  /\ \/ HandsOver(main, main') /\ UNCHANGED data
     \/ HandsOver(data, data') /\ UNCHANGED main

(* The tools that go through leaves: the main trie, the list of roots, the *)
(* account in turn, its items.                                             *)
LeafStage ==
  CASE pc = "start" -> 0
    [] pc = "opened" -> 1
    [] pc = "accounts" \/ (pc = "items" /\ tool = "tokensExporter") -> 2
    [] pc \in {"roots", "items"} /\ tool # "tokensExporter" -> 3
    [] pc = "save" -> 4
    [] OTHER -> 5

LeafAdvances ==
  \/ LeafStage < LeafStage'
  \/ /\ LeafStage' = LeafStage
     /\ \/ Fewer(Unread(main'), Unread(main))
        \/ /\ UNCHANGED main
           /\ \/ Fewer(roots', roots)
              \/ roots' = roots /\ Fewer(current', current)
              \/ UNCHANGED <<roots, current>> /\ Fewer(Unread(data'), Unread(data))

(* updateTokenIdChecker: the databases to open, the tokens, the pairs to   *)
(* compare, the shards to count.                                           *)
CheckerStage ==
  CASE pc = "start" -> 0
    [] pc = "esdts" -> 1
    [] pc = "system" -> 2
    [] pc \in {"compare", "count"} -> 3
    [] OTHER -> 4

Unopened == {d \in Db : opened[d] = {}}

CheckerAdvances ==
  \/ CheckerStage < CheckerStage'
  \/ /\ CheckerStage' = CheckerStage
     /\ \/ Fewer(Unopened', Unopened)
        \/ /\ UNCHANGED opened
           /\ \/ Fewer(ids', ids)
              \/ ids' = ids /\ Fewer(Shards \ counted', Shards \ counted)
              \/ UNCHANGED <<ids, counted>> /\ pc = "count" /\ pc' = "compare"
              \/ UNCHANGED <<ids, counted, pc>> /\ Fewer(Unread(data'), Unread(data))

(* balancesExporter: the runs, the stages of one, the users.               *)
BalancesStage ==
  CASE pc = "start" -> 0
    [] pc = "blocks" -> 1
    [] pc = "best" -> 2
    [] pc = "users" -> 3
    [] pc = "balances" -> 4
    [] pc = "metadata" -> 5
    [] OTHER -> 6

BalancesAdvances ==
  \/ exports < exports' /\ exports' <= MaxExports
  \/ /\ exports' = exports
     /\ \/ BalancesStage < BalancesStage'
        \/ BalancesStage' = BalancesStage /\ Fewer(Unread(main'), Unread(main))

Advances ==
  /\ tool' = tool
  /\ \/ GoroutineAdvances
     \/ tool \in LeafTool /\ LeafAdvances
     \/ tool = "updateTokenIdChecker" /\ CheckerAdvances
     \/ tool = "balancesExporter" /\ BalancesAdvances

LEMMA TraversalSteps ==
  ASSUME Next
  PROVE  /\ \/ main' = main \/ main' \in Produced(main)
            \/ \E n \in main.chan : main' = Received(main, n)
            \/ \E d, leaves : main' = GetAllLeaves(d, leaves)
         /\ \/ data' = data \/ data' \in Produced(data)
            \/ \E n \in data.chan : data' = Received(data, n)
            \/ \E d, leaves : data' = GetAllLeaves(d, leaves)
<1>1. CASE Producers
  BY <1>1 DEF Producers, ProduceMain, ProduceData
<1>2. CASE LeafStep
  BY <1>2 DEF LeafStep, OpenEpochs, OpenSingleDirectory, NoOrderedDirectories, SetupFails,
     RootMissing, StartMain, AccountFails, AccountsDone, AllRootsChecked, ExportStorage, NoStorage,
     SkipLeaf, CollectRoot, ExportAccount, CheckRoot, StartData, ItemsDone, TakeItem, ItemsMissing,
     SaveTokens, SaveTokensFails, GetStats, LeafStops
<1>3. CASE IdStep
  BY <1>3 DEF IdStep, LoadShard, NoDirectories, LoadFails, RootHashMissing, StartEsdts, EsdtsDone,
     StartCheck, ShardCounted, AllCounted, FileToken, CountToken, Compare, CountShard, IdStops
<1>4. CASE BalStep \/ Again
  BY <1>4 DEF BalStep, CreateTrie, ExportFails, NoBestBlock, UsersDone, LoadBlocks, FindBestBlock,
     SaveBalancesFile, SaveMetadataFile, SaveStops, TakeUser, BalStops, Again, RunAgain
<1> QED BY <1>1, <1>2, <1>3, <1>4 DEF Next, Tool

LEMMA StepDisjoint ==
  ASSUME NEW t \in Traversal, NEW u, Disjoint(t),
         \/ u = t \/ u \in Produced(t)
         \/ \E n \in t.chan : u = Received(t, n)
         \/ \E d, leaves : u = GetAllLeaves(d, leaves)
  PROVE  Disjoint(u)
<1>1. CASE u = t
  BY <1>1
<1>2. CASE \E n \in t.chan : u = Received(t, n)
  BY <1>2 DEF Received, Disjoint, Traversal
<1>3. CASE \E d, leaves : u = GetAllLeaves(d, leaves)
  BY <1>3 DEF GetAllLeaves, Disjoint
<1>4. CASE u \in Sent(t)
  <2>1. PICK n \in t.left : u = [t EXCEPT !.left = @ \ {n}, !.chan = @ \cup {n}]
    BY <1>4 DEF Sent
  <2>2. u.left = t.left \ {n} /\ u.chan = t.chan \cup {n}
    BY <2>1 DEF Traversal
  <2> QED BY <2>2 DEF Disjoint
<1>5. CASE u \in Aborted(t) \/ u \in Finished(t)
  BY <1>5 DEF Aborted, Finished, Disjoint, Traversal
<1> QED BY <1>1, <1>2, <1>3, <1>4, <1>5 DEF Produced

LEMMA NextSentOnce == TypeOK /\ SentOnce /\ [Next]_vars => SentOnce'
<1> SUFFICES ASSUME TypeOK, SentOnce, [Next]_vars PROVE SentOnce'
  OBVIOUS
<1>1. main \in Traversal /\ data \in Traversal /\ Disjoint(main) /\ Disjoint(data)
  BY DEF TypeOK, TrieTypeOK, SentOnce
<1>2. CASE Next
  <2>1. Disjoint(main')
    BY <1>1, <1>2, TraversalSteps, StepDisjoint
  <2>2. Disjoint(data')
    BY <1>1, <1>2, TraversalSteps, StepDisjoint
  <2> QED BY <2>1, <2>2 DEF SentOnce, Disjoint
<1>3. CASE UNCHANGED vars
  BY <1>3 DEF vars, trieVars, SentOnce, Disjoint
<1> QED BY <1>2, <1>3

LEMMA ReceivedFewer ==
  ASSUME NEW t \in Traversal, Disjoint(t), NEW n \in t.chan
  PROVE  Fewer(Unread(Received(t, n)), Unread(t))
BY DEF Received, Disjoint, Unread, Fewer, Traversal

LEMMA ProducedHandsOver ==
  ASSUME NEW t \in Traversal, Honest(t), NEW u \in Produced(t)
  PROVE  HandsOver(t, u)
<1>1. Unread(u) = Unread(t) /\ ~t.closed
  BY ProducedTraversal
<1>2. CASE u \in Sent(t)
  <2>1. PICK n \in t.left : u = [t EXCEPT !.left = @ \ {n}, !.chan = @ \cup {n}]
    BY <1>2 DEF Sent
  <2>2. u.left = t.left \ {n}
    BY <2>1 DEF Traversal
  <2> QED BY <1>1, <2>2 DEF HandsOver, Fewer
<1>3. CASE u \in Aborted(t) \/ u \in Finished(t)
  <2>1. u.left = t.left /\ u.closed
    BY <1>3 DEF Aborted, Finished, Traversal
  <2> QED BY <1>1, <2>1 DEF HandsOver
<1> QED BY <1>1, <1>2, <1>3 DEF Produced

LEMMA LeafStepAdvances ==
  ASSUME TypeOK, LeafInvariant, SentOnce, tool \in LeafTool, tool' = tool, LeafStep
  PROVE  LeafAdvances
<1>0. main \in Traversal /\ data \in Traversal /\ Disjoint(main) /\ Disjoint(data)
  BY DEF TypeOK, TrieTypeOK, SentOnce
<1>1. CASE OpenEpochs \/ OpenSingleDirectory \/ NoOrderedDirectories \/ SetupFails \/ RootMissing
           \/ StartMain \/ AccountFails \/ ExportStorage \/ NoStorage \/ ItemsMissing
           \/ SaveTokens \/ SaveTokensFails \/ GetStats
  <2>1. \/ pc = "start" /\ pc' \in {"opened", "failed"}
        \/ pc = "opened" /\ pc' \in {"accounts", "failed", "missing", "done"}
        \/ pc = "opened" /\ pc' = "items" /\ tool = "accountStorageExporter"
        \/ pc = "accounts" /\ pc' = "failed"
        \/ pc = "items" /\ pc' = "missing"
        \/ pc = "save" /\ pc' \in {"done", "failed"}
    BY <1>1 DEF OpenEpochs, OpenSingleDirectory, NoOrderedDirectories, SetupFails, RootMissing,
       StartMain, AccountFails, ExportStorage, StartData, NoStorage, ItemsMissing, SaveTokens,
       SaveTokensFails, GetStats, LeafStops
  <2> QED BY <2>1 DEF LeafAdvances, LeafStage
<1>2. CASE AccountsDone
  <2>1. /\ pc = "accounts" /\ pc' \in {"missing", "save", "roots"}
        /\ pc' = "roots" => tool = "trieChecker"
    BY <1>2 DEF AccountsDone
  <2> QED BY <2>1 DEF LeafAdvances, LeafStage
<1>3. CASE AllRootsChecked
  <2>1. pc = "roots" /\ pc' = "done" /\ tool # "tokensExporter"
    BY <1>3 DEF AllRootsChecked, LeafStops, LeafInvariant, AccountsTracked, Trackers, Walkers
  <2> QED BY <2>1 DEF LeafAdvances, LeafStage
<1>4. ASSUME NEW l \in Main, SkipLeaf(l) \/ CollectRoot(l) \/ ExportAccount(l) PROVE LeafAdvances
  <2>1. /\ l \in main.chan /\ main' = Received(main, l)
        /\ \/ pc = "accounts" /\ pc' = "accounts"
           \/ pc = "accounts" /\ pc' = "items" /\ tool = "tokensExporter"
    BY <1>4 DEF SkipLeaf, CollectRoot, ExportAccount, StartData
  <2>2. Fewer(Unread(main'), Unread(main))
    BY <1>0, <2>1, ReceivedFewer
  <2>3. LeafStage' = LeafStage
    BY <2>1 DEF LeafStage
  <2> QED BY <2>2, <2>3 DEF LeafAdvances
<1>5. ASSUME NEW l \in Main, CheckRoot(l) PROVE LeafAdvances
  <2>1. /\ pc = "roots" /\ pc' = "items" /\ l \in roots /\ roots' = roots \ {l} /\ UNCHANGED main
        /\ tool # "tokensExporter"
    BY <1>5 DEF CheckRoot, StartData, LeafInvariant, AccountsTracked, Trackers, Walkers
  <2>2. LeafStage' = LeafStage /\ Fewer(roots', roots)
    BY <2>1 DEF LeafStage, Fewer
  <2> QED BY <2>1, <2>2 DEF LeafAdvances
<1>6. ASSUME NEW a \in current, ItemsDone(a) PROVE LeafAdvances
  <2>1. /\ pc = "items" /\ pc' = After /\ UNCHANGED <<main, roots>> /\ current' = {}
    BY <1>6 DEF ItemsDone
  <2>2. Fewer(current', current)
    BY <2>1 DEF Fewer
  <2>3. LeafStage' = LeafStage \/ LeafStage < LeafStage'
    BY <2>1 DEF After, LeafStage
  <2> QED BY <2>1, <2>2, <2>3 DEF LeafAdvances
<1>7. ASSUME NEW a \in current, NEW i \in Item, TakeItem(a, i) PROVE LeafAdvances
  <2>1. i \in data.chan /\ data' = Received(data, i) /\ UNCHANGED <<main, pc, roots, current>>
    BY <1>7 DEF TakeItem
  <2>2. Fewer(Unread(data'), Unread(data))
    BY <1>0, <2>1, ReceivedFewer
  <2> QED BY <2>1, <2>2 DEF LeafAdvances, LeafStage
<1> QED BY <1>1, <1>2, <1>3, <1>4, <1>5, <1>6, <1>7 DEF LeafStep

LEMMA CheckerStepAdvances ==
  ASSUME TypeOK, SentOnce, IdStep
  PROVE  CheckerAdvances
<1>0. data \in Traversal /\ Disjoint(data)
  BY DEF TypeOK, TrieTypeOK, SentOnce
<1>1. ASSUME NEW d \in Db, LoadShard(d) PROVE CheckerAdvances
  <2>1. opened[d] = {} /\ HasMaxDBValue(d) /\ opened' = [opened EXCEPT ![d] = 0..MaxDBValue(d)]
        /\ pc' = pc
    BY <1>1 DEF LoadShard, PruningStorer
  <2>2. 0..MaxDBValue(d) \in SUBSET Nat /\ 0..MaxDBValue(d) # {}
    <3>1. IsFiniteSet(Ordered(d)) /\ Ordered(d) # {}
      BY <2>1, OrderedIsFinite DEF HasMaxDBValue
    <3>2. Cardinality(Ordered(d)) \in Nat /\ Cardinality(Ordered(d)) # 0
      BY <3>1, FS_EmptySet, FS_CardinalityType
    <3> QED BY <3>2 DEF MaxDBValue
  <2>3. opened'[d] # {} /\ \A e \in Db \ {d} : opened'[e] = opened[e]
    BY <2>1, <2>2, OpenedType DEF TypeOK
  <2>4. Fewer(Unopened', Unopened)
    BY <2>1, <2>3 DEF Fewer, Unopened
  <2> QED BY <2>1, <2>4 DEF CheckerAdvances, CheckerStage
<1>2. CASE NoDirectories \/ LoadFails \/ RootHashMissing \/ StartEsdts \/ EsdtsDone \/ StartCheck
           \/ AllCounted
  <2>1. \/ pc = "start" /\ pc' \in {"failed", "missing", "esdts"}
        \/ pc = "esdts" /\ pc' = "system"
        \/ pc = "system" /\ pc' \in {"compare", "failed"}
        \/ pc = "compare" /\ pc' = "done"
    BY <1>2 DEF NoDirectories, LoadFails, RootHashMissing, StartEsdts, EsdtsDone, StartCheck,
       AllCounted, IdStops
  <2> QED BY <2>1 DEF CheckerAdvances, CheckerStage
<1>3. CASE ShardCounted
  BY <1>3 DEF ShardCounted, CheckerAdvances, CheckerStage, idVars
<1>4. ASSUME NEW t \in Esdts, FileToken(t) \/ CountToken(t) PROVE CheckerAdvances
  <2>1. t \in data.chan /\ data' = Received(data, t) /\ UNCHANGED <<opened, pc, ids, counted>>
    BY <1>4 DEF FileToken, CountToken, idVars
  <2>2. Fewer(Unread(data'), Unread(data))
    BY <1>0, <2>1, ReceivedFewer
  <2> QED BY <2>1, <2>2 DEF CheckerAdvances, CheckerStage
<1>5. ASSUME NEW t \in Esdts, NEW s \in Shards, Compare(t, s) PROVE CheckerAdvances
  <2>1. [token |-> t, shard |-> s] \in ids /\ ids' = ids \ {[token |-> t, shard |-> s]}
        /\ UNCHANGED <<opened, pc>>
    BY <1>5 DEF Compare
  <2>2. Fewer(ids', ids)
    BY <2>1 DEF Fewer
  <2> QED BY <2>1, <2>2 DEF CheckerAdvances, CheckerStage
<1>6. ASSUME NEW s \in Shards, CountShard(s) PROVE CheckerAdvances
  <2>1. s \in Shards \ counted /\ counted' = counted \cup {s} /\ UNCHANGED <<opened, ids>>
        /\ pc = "compare" /\ pc' = "count"
    BY <1>6 DEF CountShard
  <2>2. Fewer(Shards \ counted', Shards \ counted)
    BY <2>1 DEF Fewer
  <2> QED BY <2>1, <2>2 DEF CheckerAdvances, CheckerStage
<1> QED BY <1>1, <1>2, <1>3, <1>4, <1>5, <1>6 DEF IdStep

LEMMA BalancesStepAdvances ==
  ASSUME TypeOK, SentOnce, BalStep \/ \E o \in Options : RunAgain(o)
  PROVE  BalancesAdvances
<1>0. main \in Traversal /\ Disjoint(main) /\ exports \in Nat /\ MaxExports \in Nat
  BY BalancesAssumption DEF TypeOK, TrieTypeOK, SentOnce, BalTypeOK
<1>1. CASE \E o \in Options : RunAgain(o)
  BY <1>0, <1>1 DEF RunAgain, BalancesAdvances
<1>2. CASE CreateTrie \/ ExportFails \/ NoBestBlock \/ UsersDone
           \/ (\E blocks \in SUBSET Block : LoadBlocks(blocks))
           \/ (\E b \in Block : \/ FindBestBlock(b) \/ SaveBalancesFile(b)
                                \/ SaveMetadataFile(b) \/ SaveStops(b))
  <2>1. /\ exports' = exports
        /\ \/ pc = "start" /\ pc' \in {"blocks", "failed"}
           \/ pc = "blocks" /\ pc' \in {"best", "failed"}
           \/ pc = "best" /\ pc' \in {"users", "failed"}
           \/ pc = "users" /\ pc' \in {"balances", "missing"}
           \/ pc = "balances" /\ pc' \in {"metadata", "failed"}
           \/ pc = "metadata" /\ pc' \in {"done", "failed"}
    BY <1>2 DEF CreateTrie, ExportFails, NoBestBlock, UsersDone, LoadBlocks, FindBestBlock,
       SaveBalancesFile, SaveMetadataFile, SaveStops, BalStops, balVars
  <2> QED BY <2>1 DEF BalancesAdvances, BalancesStage
<1>3. ASSUME NEW b \in Block, NEW l \in Node, TakeUser(b, l) PROVE BalancesAdvances
  <2>1. l \in main.chan /\ main' = Received(main, l) /\ pc' = pc /\ exports' = exports
    BY <1>3 DEF TakeUser
  <2>2. Fewer(Unread(main'), Unread(main))
    BY <1>0, <2>1, ReceivedFewer
  <2> QED BY <2>1, <2>2 DEF BalancesAdvances, BalancesStage
<1> QED BY <1>1, <1>2, <1>3 DEF BalStep

(* No step of a tool or of a goroutine goes in a circle: each one comes    *)
(* nearer to the end of the run in a lexicographic order of what is left   *)
(* to do, however the traversals overlap.                                  *)
THEOREM EveryStepAdvances == Spec => [][Advances]_vars
<1>1. Init => SentOnce
  BY DEF Init, TrieInit, NoTraversal, SentOnce, Disjoint
<1>2. TypeOK /\ HonestTraversals /\ LeafInvariant /\ SentOnce /\ [Next]_vars => [Advances]_vars
  <2> SUFFICES ASSUME TypeOK, HonestTraversals, LeafInvariant, SentOnce, Next PROVE Advances
    OBVIOUS
  <2>1. tool' = tool
    BY ToolKept
  <2>2. CASE Producers
    <3>1. /\ UNCHANGED <<store, opened, pc, leafVars, idVars, balVars>>
          /\ \/ main' \in Produced(main) /\ UNCHANGED data
             \/ data' \in Produced(data) /\ UNCHANGED main
      BY <2>2 DEF Producers, ProduceMain, ProduceData
    <3>2. GoroutineAdvances
      BY <3>1, ProducedHandsOver DEF GoroutineAdvances, TypeOK, TrieTypeOK, HonestTraversals
    <3> QED BY <2>1, <3>2 DEF Advances
  <2>3. CASE Tool \/ Again
    BY <2>1, <2>3, LeafStepAdvances, CheckerStepAdvances, BalancesStepAdvances
    DEF Tool, Again, Advances
  <2> QED BY <2>2, <2>3 DEF Next
<1> QED BY <1>1, <1>2, NextSentOnce, TypesAreCorrect, LeafInvariantHolds, PTL DEF Spec
=============================================================================
