----------------------------- MODULE LeafTools -----------------------------
(***************************************************************************)
(* trieTools that go through the leaves of one shard: tokensExporter (the  *)
(* tokens of every account), trieChecker (are all the tries readable?),    *)
(* accountStorageExporter (the data trie of one account) and               *)
(* trieStatsPrinter. The leaves of the main trie are accounts and nodes of *)
(* code, those of an account's data trie are items.                        *)
(***************************************************************************)
EXTENDS TrieLeaves

CONSTANTS
  Account, Item, \* leaves
  Shard,         \* the database the tools are given, and
  MainRoot,      \* the root of its main trie
  Main,          \* the leaves of the main trie, accounts or not
  Data,          \* [Account -> SUBSET Item]; {}: no data trie
  Esdt,          \* the items whose key has the prefix of the tokens
  TokenName      \* getPrettyTokenName

ASSUME LeafAssumption ==
  /\ Shard \in Db /\ MainRoot \in Node /\ Main \subseteq Node
  /\ Account \subseteq Node /\ Item \subseteq Node
  /\ Data \in [Account -> SUBSET Item] /\ Esdt \subseteq Item
  /\ TokenName = [i \in Esdt |-> TokenName[i]]

VARIABLES
  tool,    \* which of the tools runs
  address, \* the account accountStorageExporter was given
  roots,   \* accounts with data tries, that trieChecker has to go through
  current, \* {} or the account the data trie of which is gone through
  found,   \* the items taken from the data trie of each account
  tokens,  \* addressTokensMap
  outfile  \* what tokensExporter has written

leafVars == <<tool, address, roots, current, found, tokens, outfile>>

Exporters == {"tokensExporter", "accountStorageExporter"}
LeafTool == Exporters \cup {"trieChecker", "trieStatsPrinter"}

LeafInit ==
  /\ address \in Node
  /\ roots = {} /\ current = {} /\ found = <<>> /\ tokens = <<>> /\ outfile = <<>>

LeafStops(why) == pc' = why /\ UNCHANGED <<store, opened, main, data, leafVars>>

-----------------------------------------------------------------------------
(* Only trieChecker and trieStatsPrinter take a directory without epochs.  *)
OpenEpochs ==
  /\ pc = "start" /\ HasMaxDBValue(Shard)
  /\ opened' = PruningStorer(Shard) /\ pc' = "opened"
  /\ UNCHANGED <<store, main, data, leafVars>>

OpenSingleDirectory ==
  /\ pc = "start" /\ ~HasMaxDBValue(Shard) /\ tool \notin Exporters
  /\ opened' = SingleStorer(Shard) /\ pc' = "opened"
  /\ UNCHANGED <<store, main, data, leafVars>>

NoOrderedDirectories ==
  pc = "start" /\ ~HasMaxDBValue(Shard) /\ tool \in Exporters /\ LeafStops("failed")

(* A malformed root hash or address; the storer, the trie, the adapter.    *)
SetupFails == pc \in {"start", "opened"} /\ LeafStops("failed")

RootMissing == pc = "opened" /\ ~Readable(Shard, MainRoot) /\ LeafStops("missing")

(* GetAllLeavesOnChannel of the main trie.                                 *)
StartMain ==
  /\ pc = "opened" /\ tool \in {"tokensExporter", "trieChecker"} /\ Readable(Shard, MainRoot)
  /\ main' = GetAllLeaves(Shard, Main) /\ pc' = "accounts"
  /\ UNCHANGED <<store, opened, data, leafVars>>

-----------------------------------------------------------------------------
(* A leaf that does not parse as an account is taken for a node of code;   *)
(* an account without a root hash has no data trie.                        *)
HasDataTrie(l) == l \in Account /\ Data[l] # {}

SkipLeaf(l) ==
  /\ pc = "accounts" /\ l \in main.chan /\ ~HasDataTrie(l)
  /\ main' = Received(main, l)
  /\ UNCHANGED <<store, opened, data, pc, leafVars>>

CollectRoot(l) ==
  /\ pc = "accounts" /\ tool = "trieChecker" /\ l \in main.chan /\ HasDataTrie(l)
  /\ main' = Received(main, l) /\ roots' = roots \cup {l}
  /\ UNCHANGED <<store, opened, data, pc, tool, address, current, found, tokens, outfile>>

StartData(l) ==
  /\ data' = GetAllLeaves(Shard, Data[l]) /\ current' = {l}
  /\ found' = [a \in DOMAIN found \cup {l} |-> IF a = l THEN {} ELSE found[a]]
  /\ pc' = "items"

(* tokensExporter: the tokens of the account, while the traversal of the   *)
(* main trie goes on.                                                      *)
ExportAccount(l) ==
  /\ pc = "accounts" /\ tool = "tokensExporter" /\ l \in main.chan /\ HasDataTrie(l)
  /\ main' = Received(main, l)
  /\ StartData(l)
  /\ UNCHANGED <<store, opened, tool, address, roots, tokens, outfile>>

(* GetExistingAccount, or the start of the traversal, fails.               *)
AccountFails ==
  /\ pc = "accounts" /\ tool = "tokensExporter" /\ main.chan # {}
  /\ LeafStops("failed")

(* Mutant: the channel of errors of the main trie is not read.             *)
AccountsDoneUnchecked ==
  /\ pc = "accounts" /\ Drained(main)
  /\ pc' = IF tool = "trieChecker" THEN "roots" ELSE "save"
  /\ UNCHANGED <<store, opened, main, data, leafVars>>

AccountsDone ==
  /\ pc = "accounts" /\ Drained(main)
  /\ pc' = IF main.err THEN "missing" ELSE IF tool = "trieChecker" THEN "roots" ELSE "save"
  /\ UNCHANGED <<store, opened, main, data, leafVars>>

(* trieChecker: the next data trie, in the order of the map; or none.      *)
CheckRoot(a) ==
  /\ pc = "roots" /\ a \in roots
  /\ roots' = roots \ {a}
  /\ StartData(a)
  /\ UNCHANGED <<store, opened, main, tool, address, tokens, outfile>>

AllRootsChecked == pc = "roots" /\ roots = {} /\ LeafStops("done")

(* accountStorageExporter: RecreateTrie, GetExistingAccount, GetAllLeaves. *)
ExportStorage ==
  /\ pc = "opened" /\ tool = "accountStorageExporter" /\ Readable(Shard, MainRoot)
  /\ address \in Main /\ HasDataTrie(address) /\ Readable(Shard, address)
  /\ StartData(address)
  /\ UNCHANGED <<store, opened, main, tool, address, roots, tokens, outfile>>

NoStorage ==
  /\ pc = "opened" /\ tool = "accountStorageExporter" /\ Readable(Shard, MainRoot)
  /\ \/ address \in Main /\ ~Readable(Shard, address) /\ LeafStops("missing")
     \/ ~(address \in Main /\ HasDataTrie(address)) /\ LeafStops("failed")

-----------------------------------------------------------------------------
Found(a, i) == [found EXCEPT ![a] = @ \cup {i}]

(* Mutant: the loop takes leaves once the channel is closed.               *)
TakeItemLate(a, i) ==
  /\ pc = "items" /\ a \in current /\ i \in data.chan /\ data.closed
  /\ data' = Received(data, i) /\ found' = Found(a, i)
  /\ UNCHANGED <<store, opened, main, pc, tool, address, roots, current, tokens, outfile>>

TakeItem(a, i) ==
  /\ pc = "items" /\ a \in current /\ i \in data.chan
  /\ data' = Received(data, i) /\ found' = Found(a, i)
  /\ UNCHANGED <<store, opened, main, pc, tool, address, roots, current, tokens, outfile>>

TokenNames(items) == {TokenName[i] : i \in items \cap Esdt}

(* Accounts without tokens are left out of the map.                        *)
WithTokens(a) ==
  IF TokenNames(found[a]) = {} THEN tokens
  ELSE [b \in DOMAIN tokens \cup {a} |-> IF b = a THEN TokenNames(found[a]) ELSE tokens[b]]

After == CASE tool = "tokensExporter" -> "accounts"
           [] tool = "trieChecker" -> "roots"
           [] OTHER -> "done"

ItemsDone(a) ==
  /\ pc = "items" /\ a \in current /\ Drained(data) /\ ~data.err
  /\ current' = {} /\ pc' = After
  /\ tokens' = IF tool = "tokensExporter" THEN WithTokens(a) ELSE tokens
  /\ UNCHANGED <<store, opened, main, data, tool, address, roots, found, outfile>>

ItemsMissing == pc = "items" /\ Drained(data) /\ data.err /\ LeafStops("missing")

(* saveResult.                                                             *)
SaveTokens ==
  /\ pc = "save" /\ outfile' = tokens /\ pc' = "done"
  /\ UNCHANGED <<store, opened, main, data, tool, address, roots, current, found, tokens>>
SaveTokensFails == pc = "save" /\ LeafStops("failed")

(* trieStatsPrinter: the library goes through all the tries.               *)
GetStats ==
  /\ pc = "opened" /\ tool = "trieStatsPrinter" /\ Readable(Shard, MainRoot)
  /\ IF \A n \in Main \cup UNION {Data[a] : a \in Main \cap Account} : Readable(Shard, n)
       THEN LeafStops("done") ELSE LeafStops("missing")

LeafStep ==
  \/ OpenEpochs \/ OpenSingleDirectory \/ NoOrderedDirectories \/ SetupFails \/ RootMissing
  \/ StartMain \/ AccountFails \/ AccountsDone \/ AllRootsChecked \/ ExportStorage \/ NoStorage
  \/ \E l \in Main : SkipLeaf(l) \/ CollectRoot(l) \/ ExportAccount(l) \/ CheckRoot(l)
  \/ \E a \in current : ItemsDone(a) \/ \E i \in Item : TakeItem(a, i)
  \/ ItemsMissing \/ SaveTokens \/ SaveTokensFails \/ GetStats

-----------------------------------------------------------------------------
LeafTypeOK ==
  /\ address \in Node
  /\ roots \subseteq Account /\ current \subseteq Account
  /\ found = [a \in DOMAIN found |-> found[a]] /\ DOMAIN found \subseteq Account
  /\ \A a \in DOMAIN found : found[a] \subseteq Item

(* A tool that ends well has gone through every leaf it is about, whatever *)
(* part of the database is missing and however the traversals overlap:     *)
(* trieChecker all the data tries, accountStorageExporter that of its      *)
(* account, and the file of tokensExporter has every account with tokens.  *)
WithData == {a \in Main \cap Account : HasDataTrie(a)}

SuccessIsComplete ==
  pc = "done" =>
    /\ tool \in {"tokensExporter", "trieChecker"} =>
         DOMAIN found = WithData /\ \A a \in WithData : found[a] = Data[a]
    /\ tool = "accountStorageExporter" => found[address] = Data[address]
    /\ tool = "tokensExporter" =>
         outfile = [a \in {b \in WithData : Data[b] \cap Esdt # {}} |-> TokenNames(Data[a])]

(* An exporter that reports a node missing has looked in every directory   *)
(* of the database: no directory that the operator gave it has the node.   *)
(* trieChecker does not keep this: see README.                             *)
MissingIsNowhere ==
  pc = "missing" /\ tool \in Exporters =>
    \E n \in {MainRoot} \cup Main \cup Item :
      place[Shard][n] \notin {d.num : d \in dirs[Shard]}
=============================================================================
