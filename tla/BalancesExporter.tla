-------------------------- MODULE BalancesExporter -------------------------
(***************************************************************************)
(* trieTools/balancesExporter: it picks a block of an epoch whose state is *)
(* in the database, and writes the balances of its accounts to a file, and *)
(* what they are the balances of to another one. The files stay from one   *)
(* run to the next.                                                        *)
(***************************************************************************)
EXTENDS TrieLeaves

CONSTANTS
  Chain,          \* the database of the shard
  Epoch,          \* the epoch it is run for
  Root, LeavesOf, \* root hashes of main tries, and their leaves
  User,           \* the leaves that parse as accounts
  Contract,       \* those that are contracts
  Zero,           \* [Root -> the users whose balance is zero]
  Projected,      \* ComputeId: the projected shard of a user
  AnyShard,       \* no by-projected-shard
  Block,          \* the headers in the storage of the epoch
  Options,        \* those of the runs: [contracts, zero, shard, format]
  MaxExports      \* bound: runs

ASSUME BalancesAssumption ==
  /\ Chain \in Db /\ Epoch \in Nat /\ Root \subseteq Node /\ User \subseteq Node
  /\ LeavesOf \in [Root -> SUBSET Node]
  /\ Block \subseteq [nonce : Nat, root : Root, scheduled : BOOLEAN] /\ IsFiniteSet(Block)
  /\ MaxExports \in Nat

VARIABLES
  options,     \* of the run
  read,        \* blocks it has read
  block,       \* {} or the best block
  users,       \* the accounts it has gone through that it exports
  balances,    \* the files, by name: [root, options, users],
  metadata,    \* and [root, options, num]
  half,        \* history: names of which the last writer has not written both
  exports

balVars == <<options, read, block, users, balances, metadata, half, exports>>

BalInit ==
  /\ options \in Options /\ read = {} /\ block = {} /\ users = {}
  /\ balances = <<>> /\ metadata = <<>> /\ half = {} /\ exports = 0

BalStops(why) == pc' = why /\ UNCHANGED <<store, opened, main, data, balVars>>

-----------------------------------------------------------------------------
(* The trie is read in the epochs up to the one given.                     *)
CreateTrie ==
  /\ pc = "start"
  /\ opened' = [opened EXCEPT ![Chain] = 0..Epoch] /\ pc' = "blocks"
  /\ UNCHANGED <<store, main, data, balVars>>

(* A wrong shard, a storer or a unit that does not open, a wrong block, a  *)
(* wrong projected shard.                                                  *)
ExportFails == pc \in {"start", "blocks", "best"} /\ BalStops("failed")

(* RangeKeys has no error: it may have read a part of the blocks.          *)
LoadBlocks(blocks) ==
  /\ pc = "blocks" /\ read' = blocks /\ pc' = "best"
  /\ UNCHANGED <<store, opened, main, data, options, block, users, balances, metadata,
                 half, exports>>

IsRootHashAvailable(b) == Readable(Chain, b.root)
Eligible(b) == IsRootHashAvailable(b) /\ ~b.scheduled

(* Mutant: the blocks are not sorted.                                      *)
FindAnyBlock(b) ==
  /\ pc = "best" /\ b \in read /\ Eligible(b)
  /\ block' = {b} /\ users' = {}
  /\ main' = GetAllLeaves(Chain, LeavesOf[b.root]) /\ pc' = "users"
  /\ UNCHANGED <<store, opened, data, options, read, balances, metadata, half, exports>>

(* FindBestBlock: the first by nonce, of several with the nonce any one.   *)
(* GetUserAccounts is started at its root hash.                            *)
FindBestBlock(b) ==
  /\ pc = "best" /\ b \in read /\ Eligible(b)
  /\ \A c \in read : Eligible(c) => b.nonce <= c.nonce
  /\ block' = {b} /\ users' = {}
  /\ main' = GetAllLeaves(Chain, LeavesOf[b.root]) /\ pc' = "users"
  /\ UNCHANGED <<store, opened, data, options, read, balances, metadata, half, exports>>

NoBestBlock == pc = "best" /\ (\A b \in read : ~Eligible(b)) /\ BalStops("failed")

ShouldExport(root, u) ==
  /\ options.contracts \/ u \notin Contract
  /\ options.zero \/ u \notin Zero[root]
  /\ options.shard \in {AnyShard, Projected[u]}

TakeUser(b, l) ==
  /\ pc = "users" /\ b \in block /\ l \in main.chan
  /\ main' = Received(main, l)
  /\ users' = IF l \in User /\ ShouldExport(b.root, l) THEN users \cup {l} ELSE users
  /\ UNCHANGED <<store, opened, data, pc, options, read, block, balances, metadata,
                 half, exports>>

UsersDone ==
  /\ pc = "users" /\ Drained(main)
  /\ IF main.err THEN BalStops("missing") ELSE BalStops("balances")

-----------------------------------------------------------------------------
(* getOutputFileBasename and the extensions. The names do not tell whether *)
(* contracts and zero balances are in the file.                            *)
FileName(b) == [nonce |-> b.nonce, shard |-> options.shard, format |-> options.format]

Written(files, name, text) ==
  [n \in DOMAIN files \cup {name} |-> IF n = name THEN text ELSE files[n]]

(* Mutant: a file of balances that is there is kept.                       *)
SaveOnce(b) ==
  /\ pc = "balances" /\ b \in block /\ pc' = "metadata"
  /\ balances' = IF FileName(b) \in DOMAIN balances THEN balances
                 ELSE Written(balances, FileName(b),
                              [root |-> b.root, options |-> options, users |-> users])
  /\ half' = half \cup {FileName(b)}
  /\ UNCHANGED <<store, opened, main, data, options, read, block, users, metadata, exports>>

SaveBalancesFile(b) ==
  /\ pc = "balances" /\ b \in block /\ pc' = "metadata"
  /\ balances' = Written(balances, FileName(b),
                         [root |-> b.root, options |-> options, users |-> users])
  /\ half' = half \cup {FileName(b)}
  /\ UNCHANGED <<store, opened, main, data, options, read, block, users, metadata, exports>>

SaveMetadataFile(b) ==
  /\ pc = "metadata" /\ b \in block /\ pc' = "done"
  /\ metadata' = Written(metadata, FileName(b),
                         [root |-> b.root, options |-> options, num |-> Cardinality(users)])
  /\ half' = half \ {FileName(b)}
  /\ UNCHANGED <<store, opened, main, data, options, read, block, users, balances, exports>>

(* An unknown format, or a write that fails: the file that was there has   *)
(* perhaps been cut off; or the run is stopped between the two files.      *)
SaveStops(b) ==
  /\ pc \in {"balances", "metadata"} /\ b \in block /\ pc' = "failed"
  /\ half' = half \cup {FileName(b)}
  /\ UNCHANGED <<store, opened, main, data, options, read, block, users, balances, metadata,
                 exports>>

(* The operator runs the tool again.                                       *)
RunAgain(o) ==
  /\ pc \in Ended /\ exports < MaxExports /\ exports' = exports + 1
  /\ options' = o /\ read' = {} /\ block' = {} /\ users' = {}
  /\ opened' = [opened EXCEPT ![Chain] = {}] /\ pc' = "start"
  /\ UNCHANGED <<store, main, data, balances, metadata, half>>

BalStep ==
  \/ CreateTrie \/ ExportFails \/ NoBestBlock \/ UsersDone
  \/ \E blocks \in SUBSET Block : LoadBlocks(blocks)
  \/ \E b \in Block : \/ FindBestBlock(b) \/ SaveBalancesFile(b) \/ SaveMetadataFile(b)
                      \/ SaveStops(b)
                      \/ \E l \in Node : TakeUser(b, l)

-----------------------------------------------------------------------------
BalTypeOK ==
  /\ options \in Options /\ read \subseteq Block /\ block \subseteq Block
  /\ users \subseteq User /\ exports \in Nat

(* A run that ends well has exported all the accounts its options ask for, *)
(* at the root hash of the first block, among those read, that has its     *)
(* state in the database and no scheduled miniblocks.                      *)
BestBlockIsExported ==
  pc = "done" => \A b \in block :
    /\ b.root = balances[FileName(b)].root
    /\ users = {u \in LeavesOf[b.root] \cap User : ShouldExport(b.root, u)}
    /\ \A c \in read : Readable(Chain, c.root) /\ ~c.scheduled => b.nonce <= c.nonce

(* After any runs, with any options: the metadata of a name describes the  *)
(* balances of that name, unless the last run that had the name did not    *)
(* write both files.                                                       *)
MetadataMatchesBalances ==
  \A n \in DOMAIN metadata \ half :
    /\ n \in DOMAIN balances
    /\ balances[n].root = metadata[n].root
    /\ balances[n].options = metadata[n].options
    /\ Cardinality(balances[n].users) = metadata[n].num
=============================================================================
