# A verification development of mx-chain-tools-go

TLA+ models of the tools in `src/`, TLC configurations that check them on small
instances, and theorems that TLAPS proves for all values of the constants.
Paths below are relative to the repository (`src/`).

1. [Inventory](#inventory)
2. [What is modelled](#what-is-modelled)
3. [Runs, bounds, fairness](#runs-bounds-fairness)
4. [Proofs](#proofs)
5. [Disagreements met](#disagreements-met)
6. [Not modelled](#not-modelled)
7. [Plan](#plan)

## Inventory

The repository is a set of independent command line tools. None of them talks to
another at run time; they meet in what they leave behind (an index, a database
directory, a JSON file).

**elasticreindexer** (`elasticreindexer/`) copies indices from a source Elasticsearch
cluster to a destination cluster, both live.
- *State*: the configuration, the position in two lists of indices, one goroutine per
  interval with a scroll on the source and a page in memory. All that lasts is in the
  destination: indices, aliases, documents.
- *Operations*: `ProcessNoTimestamp` (one index after the other), `ProcessWithTimestamp`
  (one index after the other, each by several goroutines over disjoint intervals of time),
  `copyMappingIfNecessary`, scroll, bulk requests, counts.
- *Interactions*: the node that goes on indexing into the source; the gateway before the
  clusters, which may give up on a request the cluster still executes; the observing squad
  that `elasticreindexer/README.md` lets the operator start against the destination before the
  copy is complete; `indices-creator`, which prepares indices and aliases; the operator, who
  reruns the tool on what an earlier run left.
- *Hard*: goroutines that check, create and write the same names; errors of goroutines that
  are only logged; existence checks that fail open; snapshots (the scroll, the cut of the
  time span) used long after they were taken; answers that are partial without saying so in
  their status; retries of writes; crashes between two steps.
- *Correct when*: a job without an error has copied its share; a run without an error and
  without a warning misses nothing; existing documents are not replaced unless the operator
  asks for it; the copy never replaces what the squad wrote by something older; copied
  indices are reachable by their alias; every run ends. The code keeps some of these in part
  only (see Disagreements met).

**indices-creator** (`elasticreindexer/cmd/indices-creator`) creates templates, indices
`<name>-000001` and aliases, each after an existence check; reruns after a crash or a lost
answer are hard. Correct when a rerun completes what a crash interrupted.

**dbMerger** merges LevelDB directories: copies the first one to the destination and puts every
key of the others into it; `path/parser.go` reads epochs and shard from directory names. *State*:
open persisters, the destination directory. *Hard*: failing opens and closes, batched writes,
a copied file whose `Close`
fails, a rerun on a half written destination. Correct when the last source wins for every key, and
nothing that failed passes for merged.

**tokensRemover/metaDataRemover** turns lists of token nonces into intervals, packs the
intervals in bulks of a fixed number of nonces, and creates one signed transaction per bulk.
Correct when the bulks partition the nonces, and none holds more than the bulk size.

**tokensRemover/txsSender** sends a file of transactions, waiting before each one for the
account to reach its nonce. *State*: the index it is at, and outside it the file, the pool and the
accounts. *Hard*: lost answers, polling of a stale nonce, restart from an index, a file made again
meanwhile. Correct when no transaction is sent before its turn and none that was sent is lost but
the last.

**trieTools/zeroBalanceSystemAccountChecker** finds tokens that only the system account still
holds, over the shards, and cross-checks them in bulks against Elasticsearch and the gateway.
*State*: the merged files, the tokens left, the bulk, the retries. *Hard*: files of different
moments, two files of a shard, responses that are late or missing. Correct when a token that
some account is known to hold is never exported.

**trieTools: tokensExporter, trieChecker, accountStorageExporter, trieStatsPrinter,
updateTokenIdChecker** consume the leaves of a trie from a bounded channel, beside a channel of
errors, while a goroutine produces them; the nodes are in directories, one per epoch. *Hard*: a
traversal inside a traversal, an error that arrives as the end, directories that are missing.
Correct when a traversal that failed is never taken for a complete one.

**trieTools/balancesExporter** picks a block whose state is in the database and writes balances
to one file and what they are the balances of to another. *Hard*: equal nonces, blocks that are
not read, a run that stops between the files. Correct when the two files agree.

**netComparator** compares transactions of two networks, with retries of the pair of requests.
*Hard*: what an attempt leaves to the next one, not-found answers. Correct when the report is true.

**tgbot** polls a balance and notifies once per episode. **validatorStatsToPrometheus** serves
statistics of validators; it keeps no state between two scrapes.

`PROJECT.json` lists the hazards of those that are modelled, each at its line.

## What is modelled

### Modules

| module | models | code |
|---|---|---|
| `ReindexIntervals` | the intervals as closed formulas | `computeIntervals`, `getWithTimestamp` |
| `IntervalsLoop` | the loop that computes them | `computeIntervals` |
| `Reindexer` | a run of the tool, and reruns, in its environment | `reindexer.go`, `reindexerMultiWrites.go`, `elasticClient.go`, `main.go` |
| `CopyService` | what a run promises, without the how | specification only |
| `BulkRequests` | one page of a scroll becomes bulk requests | `buffer.go`, `queries.go`, the handlers of `reindexer.go` |
| `IndicesCreator` | runs of the indices creator against one cluster | `cmd/indices-creator/main.go`, `elasticClient.go`, `reader.go` |
| `DBMerger` | runs of the merger on one destination | `dbMerger/cmd/generalDBMerger`, `fullDBMerger.go`, `dataMerger.go`, `osOperationsHandler.go` |
| `TokenBulks` | the tokens of a shard become the bulks of its transactions | `metaDataRemover/tokenSorting.go`, `txDataFormater.go` |
| `TxsSender` | making the files of transactions, sending them, the network | `metaDataRemover/txCreator.go`, `tokensInputReader.go`, `txsSender/txsSender.go` |
| `ZeroBalance` | the checker on exports of a network that goes on | `zeroBalanceSystemAccountChecker`, `trieToolsCommon/addressTokens.go` |
| `TrieLeaves` | databases, and the traversal of a trie | `trieToolsCommon/common.go` |
| `LeafTools` | tokensExporter, trieChecker, accountStorageExporter, trieStatsPrinter | their `main.go` |
| `TokenIdChecker` | updateTokenIdChecker | its `main.go`, `shardState.go` |
| `BalancesExporter` | balancesExporter, over several runs | its `blocks`, `export`, `trie` |
| `TrieTools` | the three above and the goroutines of the traversals, composed | the same |
| `NetComparator` | one run against two networks | `netComparator/cmd/main.go` |
| `ReindexerMC`, `BulkRequestsMC`, `IndicesCreatorMC`, `DBMergerMC`, `TokenBulksMC`, `TxsSenderMC`, `ZeroBalanceMC`, `TrieToolsMC`, `NetComparatorMC` | finite values for the constants | |
| `ReindexerProofs` (with the intervals, their loop and the refinement), `BulkRequestsProofs`, `IndicesCreatorProofs`, `DBMergerProofs`, `TokensRemoverProofs` (of `TokenBulks` and `TxsSender`), `ZeroBalanceProofs`, `TrieToolsProofs`, `NetComparatorProofs` | theorems and proofs | |

`Reindexer` extends `ReindexIntervals` and instantiates `CopyService`. `IntervalsLoop` checks
that the formulas are what the loop computes. `BulkRequests` refines what `Reindexer` shows as
the actions `WriteDoc`, `PageWritten` and, of a bulk request, `RequestFails`: a page is split
into requests, each executed entirely or in part, and the handler returns nil only when all of it
is written (`PageIsWritten`). `IndicesCreator` ends, on success, with what `ReindexerMC` takes as a
prepared destination. The number of bulks of `TokenBulks` is the number of transactions that `TxsSender`
has for a shard, whose files are what its senders send. `tokensExporter` (`LeafTools`) writes the files
that `ZeroBalance` reads. `DBMerger` and `NetComparator` stand alone.

### State and actions of `Reindexer`

| state | code |
|---|---|
| `flags` | `--overwrite`, `--skip-mappings` |
| `phase`, `cur` | where `startReindexing` is: the phase, and the position in its list |
| `now` | `currentTimestampUnix` |
| `pc[j]`, `aliasSeen[j]` | next step and local `aliasExists` of a job: `<<index, 0>>` is `processIndex`, `<<index, k>>` the goroutine of the k-th interval |
| `snap[j]`, `scrollId[j]` | what the query of the job selected at its search, in the version of then; whether the answer had a `_scroll_id` |
| `rest[j]`, `page[j]`, `skipped[j]` | documents of the scroll not yet fetched; fetched and not yet written; left out by an answer with status 200 |
| `src`, `clock` | the source: version and timestamp of each document |
| `dest`, `names` | the destination: version of each document; per index name the alias, `<name>-000001` and a concrete index of that very name |
| `late` | writes the gateway gave up on |
| `squad` | the observing squad is writing |
| `src0` | history: what the source held when the run began, and of the indices with timestamp when the time span was cut |
| `dest0`, `faults`, `runs` | history and bounds |

Each request is a step of its own, so that goroutines, source, squad and faults interleave
between any two requests. A bulk request is one step per document, because the destination
executes its operations one by one. `RequestFails` ends a job at any request; `CreateIndex` and
`PutAlias` may fail after their effect; an existence check that fails answers "no"
(`elasticClient.go:223`); `GatewayTimeout` leaves a write that `LateWrite` executes at any later
time, while the client sends it again; `Crash` stops everything; `Rerun` starts over.

The code takes every answer with status 200 for a complete one (`elasticClient.go:256-278`, `336-338`). So
`Search` and `Scroll` may answer with a part of the documents, for shards that failed or timed out: those are
`skipped`, as is all beyond the first page when the answer has no `_scroll_id` (`elasticClient.go:320`). A partial
answer counts as a fault. `SourceIndexes` gives a document the time of its block, which lies any while
before the moment at which it is indexed: after the cut a document may appear in, or move into, an
interval that was searched already.

A document is its version. The destination creates a concrete index at a write to a name that
does not exist, and refuses an index that exists and an alias with the name of an index, as
Elasticsearch does.

### State and actions of `IndicesCreator`

`templates`, `legacy`, `names`, `writeIndex` and `policies` are the cluster; `todo` and `cur` the loop
over the map of enabled indices (any order); `pc` the next request; `policyErr` the error that
`createIndexesAndMappings` only logs. Every request of `createIndies` and `createPoliciesIfEnabled` is
an action. `Check` is the existence check that takes a failing request for "does not exist";
`Request` a request that is executed and answered, refused, lost before it is executed, or executed
with its answer lost. Meanwhile `AutoCreate`: another client writes to a name, which becomes a
concrete index unless the alias is there. Between runs the operator deletes indices. The kinds of template follow the client library the code calls
(go-elasticsearch v7): `Indices.ExistsTemplate` asks for `_template`, `Indices.PutIndexTemplate` puts
to `_index_template`.

### State and actions of `DBMerger`

`content`, `dirs`, `dbs` are the sources, `given` the arguments of the run in order; `destDir`,
`disk`, `batch` the destination: its directory, what its files hold, and what was put and is not
yet in them; `unread` and `lost` are history. One action per check, per entry of the copied directory, per opened persister, per
call of the handler of `RangeKeys`, per closed persister. `CopyEntryUnclosed` is a copied file whose `Close` fails, which
`copyFile` only logs (`osOperationsHandler.go:97-100`): the copy goes on and the data of the file are not there. `CopyFails`, `OpenFails`, `PutFails`,
`RangeStops`, `CloseDestFails` are their failures with what they may leave behind. The persister is
a library and modelled by its contract: puts go to a batch that is written when full, by a timer
(`Flush`), or by `Close`; what was put without an error is in the files once `Close` returned
none; `RangeKeys` ends at the first error without telling; an open level-DB is locked; a level-DB
that is not there is created. `Exit` is the end of the process or its death at any step, which
loses the batch.

### State and actions of `TokenBulks`

`tokens`, `bulkSize` are the input; `rest` and `walk` the loop of `getIntervals` (what it has not reached, and the interval it
counts), `pending` the intervals in no bulk yet, `cur` the remainder that a split inserted next, `placed` the parts of
the bulks, `bulk` and `inBulk` the current bulk and its `numNoncesInBulk`. `Parse` refuses the whole list for one malformed
token; `BeginInterval`, `Walk`, `EndInterval` are the steps of `getIntervals` for any of the IDs, whose order the
map leaves open; `PlaceWhole` and `Split` the two branches of `groupTokenIntervalsInBulks`. A token keeps the form
it is written in, because the maps are keyed by the text and the intervals by the number.

### State and actions of `TxsSender`

`input`, `pems`, `todo`, `run`, `cpc` are a run of metaDataRemover: `StartCreator` refuses malformed pems and another
number of pems than of shards, `CreateTxs` makes and saves the transactions of a shard and forgets the error of
`saveResult` (`unsaved`), `MissingPem`, `CreatorFails` and `Created` end it. `file` holds what is on the disk, and a sender per
shard goes its way through the copy it read: `txs`, `idx`, `polls` and `spc` are the loop of `send` and
`waitForNonceIncremental`; `SeeNonce`, `Retry`, `GiveUp`, `Send`, `SendFails` its requests. The nonce seen is any from the past
of the account; `SendFails` may leave the transaction accepted. The network is external: `Execute` takes
the transaction that has the nonce of its account, `Drop` loses one, `ExecuteForeign` is another use of the account.
The operator may stop a sender at any step and start it at any index, and make the files anew at any time.

### State and actions of `ZeroBalance`

`holders`, `transit`, `meta` are the network: who holds a token, which tokens travel, what the system accounts have.
`Export` is the snapshot of one shard, taken at its own moment. `Read` merges the files (`shardMap`, `global`), `GetExtraTokens`
takes what only the system account has, per shard, or `SanityCheckFails`; `Collect` fills a bulk, `Search` is the search of
its tokens with any part of the accounts as the answer, `NextToken`, `ZeroBalance`, `StillExists`, `Retry`, `CouldNotGetBalance`
the loops of `checkIndexerResponse` and `GetBalance`; `CountTokens`, `Remove`, `Save` the end. `known` and `moved` are history: tokens
of which the indexer has named a holder, and tokens that moved since they were asked for.

### State and actions of the trie modules

In `TrieLeaves` a database is the set of its directories (`dirs`) and the place of each node (`place`); `opened` is what the
storer reads. `main` and `data` are two traversals: what is left to send, what is in the channel, the error, and whether
the channel is closed; `ProduceMain` and `ProduceData` are the goroutines. The tools take one leaf per step. `LeafTools` has
one action per stage of each of the four tools, with the tool as a variable (`tool`): what they share (opening, the loop over accounts,
the loop over items) is shared. `TokenIdChecker` files the tokens of the metachain by type,
compares each with each shard, and counts; `reported` is the set of the contents of the lines that it logged, each with the fields that the code
puts there: the token and the shard (`NotTheSame`), the token (`NoData`, `WrongLength`), or neither, for a value that is no type (`NotConverted`).
`BalancesExporter` keeps `balances` and `metadata`, the files by name, from run to run; `RunAgain` takes other options, `SaveStops` is
a write that fails or a run that dies between the two. `TrieTools` runs one of them beside the producers.

### State and actions of `NetComparator`

`net` and `number` are the networks and the configuration; `hashes` the list; `i`, `attempt`, `txM`, `txS`, `wd` the comparison under way; `diffs` the
report. `GetPrimary` and `GetSecondary` are the two requests of an attempt, with every answer that does not make it fail: the
transaction, a transaction without fields (a 404 with a JSON body), none (a 404 without); `AttemptFails` starts over with the primary;
`Compare`, `NilDereference` and `GiveUp` end a comparison.

### Properties

- `JobCopiesItsShare`: what a job's query selected is written when the job ends without an error: nothing is lost between
  pages, retries, late writes and concurrent writers.
- `CompleteOnSuccess`: a run with no error and no warning has copied, of an index without timestamp, all that was there at
  its beginning and, of an index with timestamp, all that did not change since the cut. A document that does change can
  be lost: its new time may be behind the last interval or in one that was searched. Both properties except what
  an answer with status 200 left out. The code does lose both kinds (see Disagreements met).
- `NoOverwriteWithoutConsent`: without both flags, existing documents stay, even when both
  existence checks fail open: what holds the tool back then is that the cluster refuses to
  create an index that exists.
- `CopiesBehindAlias`: a copied index is behind its alias.
- `NoStaleOverwrite`: once the squad is started as the tool's README says, a document goes back to an older version in two
  cases only: by a write that the gateway had given up on, or in an index that the note does not name; and only if it is
  one that changes. Both cases do happen (see Disagreements met).
- `RunEnds`: every run ends.
- `ImplementsCopyService`: the tool is a copy service that says "complete" only when every
  wanted document that stayed as it was, and that no partial answer left out, is copied, and that only writes versions the
  source held since the run looked: since its start or, with timestamps, since the cut.
- `SpanIsShared`, `OverlapIsABoundary`, `LoopComputesIntervals`: the intervals.
- `DocumentsInOneRequest`, `PageIsWritten`, `RequestsBounded`: the bulk requests. `RequestsBounded` is the limit that the code keeps, one
  byte above the one it states (`RequestsWithinThreshold`, see Disagreements met).
- `PreparedOnSuccess`, `PoliciesOnSuccess`, `CreatedUnderTemplate`: a run of the creator that reports
  success has prepared every index and policy, and no index is created before its template, although
  checks fail open, answers are lost, and others write to the names. What makes the first one
  true is that a concrete index of the name makes the alias fail.
- `MergedOnSuccess`: a merge without an error wrote the last source's value of every key, although
  earlier runs failed or died at any step. A source that could not be read to its end is excluded, and of a key
  whose copied file could not be closed only the value of another source is promised: the code notices neither
  (see Disagreements met).
- `FoundDataKept`: what a run finds in its destination is never changed.
- `ListedAreDeleted`, `OnlyListedOnce`, `BulksAreFull`, `PackingEnds`: the bulks hold every listed token, hold nothing else
  and nothing twice (when no nonce is written in two forms), are full but for the last, and the loop ends although a
  split makes the list it goes through longer.
- `SentInTurn`: what is in the pool has a nonce that its account has reached, although nonces are old and files made again.
- `SentAreExecuted`: if nobody else used the account, everything a sender has sent is executed but for the last
  one, whatever was dropped, lost or restarted; so that a run that failed has lost at most one transaction.
- `CreatedOnSuccess`: each shard of a successful run has its own transactions, signed with its own key, in its file, unless
  the file could not be written, which the code does not notice. `SenderEnds`: a sender ends.
- `ExportedInNoAccount`: an exported token is in the system account of its shard and in no account of any file.
  `HeldTokensNotExported`: a token that stays where it is while it is checked and of which the indexer names a holder is not
  exported. Both limits are real: a token in transit between two exports is in no file, and an indexer
  that is late or answers with an error names nobody; then the metadata of a token that somebody holds is exported.
- `AllTokensAsked`, `SanityMeansDoubleFile`, `CheckEnds`: the bulks miss and repeat no token; only two files of a shard make the
  sanity check fail; a check ends.
- `SuccessIsComplete`: trieChecker, tokensExporter and accountStorageExporter end well only if they have gone through every
  leaf they are about. updateTokenIdChecker is not among them: it does not keep this.
- `MissingIsNowhere`: an exporter reports a node missing only if no directory has it. trieChecker and
  trieStatsPrinter do not keep this.
- `TypesAreCompared`: if the metachain's database can be read to its end, the log of updateTokenIdChecker says, of the typed tokens
  that are not fungible, which token has another type in which shard, which token some shard cannot read or has nothing of, and of which type
  there is a token with a value that is no type, and nothing else. Of the last kind neither the token nor the shard can be told from the log. The
  databases of the shards may lack anything.
- `BestBlockIsExported`, `MetadataMatchesBalances`: the run exports the accounts of the first eligible block that was read, and
  metadata describe the balances beside them, unless the last run of that name did not write both.
- `ToolEnds`: neither a full channel nor one traversal inside another blocks a tool.
- `ReportIsTrue`: a report says "same", "differs" or "error" of a transaction only if it is so, unless a network denied having it,
  and nothing only if all attempts failed. `ComparatorEnds`: the comparisons end.

## Runs, bounds, fairness

`ReindexerMC` has one index without timestamp (`accounts`, document `a1`) and one with timestamps
(`tokens`, documents `t1`, `t2`), an empty name in each list as the loops skip it, two writers,
pages of one document (so that every scroll of two documents has a full first page, a further page
and an empty one), and a time span that does not divide by two once the clock advances, with a
document on the common boundary of the intervals and one in the last.

| run | shows | bounds |
|---|---|---|
| `intervals` | the interval properties, one iteration per step | times up to 12 s, up to 5 writers: remainders of every size, more writers than seconds |
| `reindexer_copy` | `JobCopiesItsShare`, `CompleteOnSuccess`, `ImplementsCopyService`, `NoStaleOverwrite` with `--skip-mappings`: the squad may start as soon as `accounts` is copied and writes while `tokens` is; `a1` and `t1` change, `t2` appears during the run, all with any time of block | one fault (a failing request or a partial answer), one late write at a time, one indexing of the source, two runs |
| `reindexer_mappings` | `NoOverwriteWithoutConsent`, `CopiesBehindAlias`, and `RunEnds` under fairness, the tool copying mappings into every kind of destination | two faults (both checks fail open), nothing indexed meanwhile, two runs |
| `bulk_requests` | the bulk request properties | pages of up to four hits, three ids, sources that share, fill and exceed a buffer |
| `bulk_threshold` | the disagreement on the size of a request: `RequestsWithinThreshold` is violated | pages of up to two hits |
| `creator` | the three properties of the creator | two indices with policies, every state of the names, two failing requests, two runs |
| `merger` | the two properties of the merger | up to three sources in any order and with repetitions (two to merge after the copied one, and a source given twice), two keys, two runs |
| `token_bulks` | the four properties of the bulks | every list of two IDs with nonces 0 to 4, two of them in two written forms, and lists with a malformed token; bulks of one to four nonces |
| `txs_sender` | the four properties of files and senders | two shards and two keys, one key for both, pems that are missing, doubled or malformed; three transactions in a file (so that one is sent while another waits and a third remains), two runs of each tool, one foreign transaction, one retry |
| `zero_balance` | the five properties of the checker | two shards, three tokens with nonces and a fungible one, in a world where one account has two tokens and one where nobody holds most, bulks of two, two departures, three files in either order of a shard's two, two retries |
| `trie_tools` | the six properties of the trie tools | channels of one leaf, two accounts and a node of code, ten databases: complete ones, a missing, an extra, a flat directory, a lost root, account, item or node of the metachain; four blocks, two of one nonce; two runs of balancesExporter with three sets of options |
| `net_comparator` | the two properties of the comparator | three transactions, 1 to 4 asked for with a maximum of 3, one, two or three attempts |

Two runs are enough for reruns because a run starts from the clusters alone: what a third one
meets, the destination states of the second one cover. One late write at a time is enough to
have a stale write arrive after any other write of the same document.

Two indices of the creator differ in how far a run got; two keys of the merger let the last source
that holds a key be another one for each; every value is the path of its source, so no two sources
agree by accident. Any operation of the merger may fail, any number of times.

In `reindexer_copy` one indexing is enough for a document to leave the share of one goroutine and come into that of
another, before, between and after their searches, and one fault for a partial answer to either. `a1` changes in an index that is
gated, `t1` changes in one that is not, and `t2` only appears.

Five nonces are enough for intervals that are longer than a bulk, fit it exactly and leave room, with gaps
of one nonce and more, and for a remainder that is split again; two IDs for intervals of the same length
that only their ID orders.

Two departures let one token leave while another travels, or come back; three files are all shards and one of them twice; a
bulk of two splits three tokens unevenly. A channel of one leaf is where a producer blocks most. A third
run of balancesExporter meets nothing that the second one does not: what is left are the files of one name.

Runs of the reindexer, the intervals, the bulk requests, the token bulks and the four last ones stop when the bounds are
used up or the tool has returned, so deadlock is not checked there; that a tool never stops early is what `RunEnds`,
`PackingEnds`, `SenderEnds`, `CheckEnds`, `ToolEnds` and `ComparatorEnds` say. In the runs of the creator and the merger deadlock is checked.

`NoStaleOverwrite` has no bound of its own: late writes, partial answers and changes of every index happen in its run
while the squad writes. What the property leaves out it says itself.

*Fairness* (`FairSpec`): weak fairness of the main goroutine and of each job, because the Go
scheduler runs every goroutine that can run and the clusters answer each request, with a result or
an error (`elasticClient` sets no timeout of its own: a cluster that never answers blocks the tool,
and this is assumed away). Nothing is assumed of the source, the squad, the operator or faults.
`TokenBulks` and `NetComparator` have weak fairness of their next step: a function of one goroutine runs on until it
returns (the comparisons of netComparator run one after the other, `compareTransaction` is called in the loop).
`TxsSender` has it of each sender, `ZeroBalance` of the checker, `TrieTools` of the tool and of each of the two producers, not of the
network, the operator or a further run. A weakly fair sender retries a fixed number of times and then gives up; nothing is assumed of what the proxy answers.

Each property of a passing run has a mutant in `PROJECT.json`: a plausible bug of the code, written as
an operator marked "Mutant" before the definition it replaces, with which TLC finds the
property violated.

## Proofs

TLAPS checks every proof. The assumptions are the named ASSUMEs of `Reindexer` (shape of the
configuration; initial documents carry timestamps of the past; aliases are on `<name>-000001` and
documents under names that exist), `BulkRequests` (lengths are natural numbers, the line that names a document
is not empty), `IndicesCreator` (names in a state the cluster allows; configured indices are
indices), `DBMerger` (at least two sources; databases are functions from keys), `TokenBulks` (IDs are ordered, the
configured bulk size is positive), `TxsSender` (shapes of inputs; markers are none of the values), `ZeroBalance` (each account has a
shard, tokens are finitely many, the bulk size is positive), `IntervalsLoop` (its bounds are natural numbers),
`TrieLeaves`, `LeafTools`, `TokenIdChecker`, `BalancesExporter` (shapes of tries, leaves and blocks; a database has finitely many
directories; a channel has room for a leaf; markers) and `NetComparator` (at least one attempt; markers).

- `ReindexerProofs`, intervals: for every span and number of writers, every second is in some interval
  (`IntervalsCoverSpan`) and none reaches past the cut (`IntervalsEndAtCut`). The step is a
  quotient; `DivisionBounds` is the one lemma about it.
- `ReindexerProofs`, the loop: `LoopYieldsIntervals`, `WholeSpanIsShared` and `WritersShareBoundaries` from `LoopInvariant`: the k-th iteration
  starts where the k-th interval of the formulas does, and the intervals put out are the first k - 1 of them. So what is proved of the
  formulas, in the copy too, is proved of the loop.
- `ReindexerProofs`, copy: `TypeCorrect`, then `CopyInvariantHolds`. Neither `JobCopiesItsShare` nor
  `CompleteOnSuccess` is inductive: that a finished job's documents are written depends on what its
  scroll still holds. `CopyInvariant` says that a document that a copying job selected is in `skipped`, in `rest`, in `page`
  or in the destination (`SharesAccounted`), that what a scroll or a late write carries is not older
  than `src0` and not newer than the source (`FrozenVersions`, `LateVersions`), and that a job
  past its loop has an empty `rest` and `page` (`EmptiedScrolls`). `SharesSelected` says that a job has selected each document of its
  share that did not change since `src0` was taken; of one that did change this is false, as it may have come into the share after
  the search. `src0` is taken again at the cut, so that `SharesSelected` and `LateVersions` need that before the cut no job with
  timestamps has searched and no late write is of such a document. `MainWaits` proves that the main goroutine has passed
  only indices whose jobs ended (`MainProgress`). With `IntervalsCoverSpan` (each
  document before the cut is some goroutine's) they give `SuccessIsComplete`.
- `ReindexerProofs`, consent: `CopiesAreBehindAlias` and `NothingOverwrittenWithoutConsent`, from what
  the existence checks, the refusals of the cluster and the order alias-after-index establish
  (`NamesExclusive`, `DocumentsNamed`, `MappingProgress`, `UsedNamesRefused`).
- `ReindexerProofs`, squad: `SquadNeverSetBack`, under one condition on the constants (`SquadRule`): the
  destination begins with nothing newer than the source. `SquadInvariant` says that the destination stays behind the source
  (`DestinationBehind`), that a scroll or a late write of a document that does not change holds its only version (`OnlyVersions`), and that while the
  squad writes the jobs of the gated indices have ended (`SquadWaits`). So a write of a job is of an index that is not gated, and every
  other one is late. Late writes and changes are not limited.
- `ReindexerProofs`, refinement: `ReindexerImplementsCopyService`. Each action is a `Write`, an `Update`, a `Look` (the cut), an
  `AnswerInPart`, an end or a stutter of the service; the end uses `SuccessIsComplete`. A partial answer only ever
  adds to what is left out, and a run begins with nothing left out.
- `BulkRequestsProofs`: `RequestsPartitionPage`, `RequestsAreBounded` and `HandledPageIsWritten`
  from one invariant, for pages and documents of any size.
- `IndicesCreatorProofs`: `CreatorPrepares`, `IndicesHaveTemplates`, `PoliciesAreSet`. `LoopInvariant`
  says that every index the loop has passed is prepared, and how far the index at hand is; it
  stays because no action takes an alias away while a run is under way. `PolicyInvariant` is the same for
  the second loop.
- `DBMergerProofs`: `FoundDataIsKept` from `DestinationInvariant` (a run that got past the checks found
  an empty directory, and a batch is what the run has put). `MergeIsComplete` from `Progress`: at each stage,
  a key that is not in `left` has, in the batch or the files, the value of the last of the
  sources up to the one at hand that offers it (the first source does not offer what is in a file that could not be closed, `Offered`); `SourcesGiven` says where the run is in its
  sources. Any number of sources, keys, values and runs.
- `TokensRemoverProofs`, bulks: `BulksTyped`, then `ListedTokensAreDeleted` from `ListedInvariant` (a token is not yet reached, in
  the walk, in an interval, or in a placed part; the walk goes upwards, so that the interval it counts
  reaches its last nonce also when forms repeat), `ListedTokensAreDeletedOnce` from `OnceInvariant` (the walk is
  where its count says, what is behind it is below what is before it, and intervals and placed parts lie
  apart), `ClosedBulksAreFull` from `SlotsInvariant` (the counter of the current bulk is the cardinality of what is
  placed in it). Any lists, any sizes. `EveryStepAdvances` is the part of `PackingEnds` that is within reach: each step makes what is left
  to do smaller (the tokens not reached, the intervals, what is left of one), which for a split rests on the positive bulk size.
- `TokensRemoverProofs`, transactions: `TypeCorrect`; `SenderInvariantHolds` from two facts that `SentInTurn` alone lacks: a sender about to send has seen
  its nonce (`InTurn`; nonces never go back), and the n-th transaction executed has nonce n (`NoncesArePositions`). With them
  `SentTransactionsAreExecuted`: a sender passes a transaction only when the account is past its nonce, and an account that is past a nonce has
  executed something with it. `FilesCreatedOnSuccess` from `CreatorInvariant` (shards that are done have their file).
- `ZeroBalanceProofs`: `TypeCorrect`; `EveryTokenAsked` from `TokensCounted` (the counter is the cardinality of what was taken and is not in the
  bulk); `OutputFollowsFiles` (what is exported for a shard is part of its extra tokens) and from it
  `ExportedHeldByNobody`; `InsaneMeansDoubleFile`, where a shard has one file and so loses none (`HasMaximum`: the last file of a shard
  exists, proved by well-foundedness, as induction is not available); `HeldNeverExported` from `CrossChecked`: a token whose holder was named and that did not move
  is in the bulk at hand, or still to be checked with that holder, or in `stillExist`.
- `TrieToolsProofs`, traversals: a traversal is `Honest` if, once closed without an error, it has nothing left to send. `ProducedTraversal`,
  `ReceivedTraversal` and `DrainedTraversal` say, for any trie and capacity, that no step of the goroutine loses a leaf, that the tool
  takes the leaves that are left or in the channel (`Unread`), that an error is that of a node that cannot be read, and that a drained
  channel without an error means that nothing is unread. `TypesAreCorrect` carries this along with the types.
- `TrieToolsProofs`, leaves: `ToolsAreComplete` from `LeafInvariant`: an account with a data trie is unread, in `roots`, or in `found`
  (`AccountsTracked`); an item of the account in turn is unread or found, and of the accounts before it all were found (`ItemsTracked`); the map
  of tokens is that of the accounts gone through (`TokensTracked`).
- `TrieToolsProofs`, missing nodes: `MissingNodesAreNowhere` from `ErrorsAreMissing` (an exporter has opened the epochs up to `MaxDBValue`, and an error is
  that of a node it could not read) and `NoneAboveMaxDBValue`: if there are as many directories as ordered ones, each directory is
  one of them (the names map one-to-one into the directories, hence onto them), and none is above the last.
- `TrieToolsProofs`, types of tokens: `TypesAreReported` from `CheckerInvariant` (`FiledByType`, `EsdtsTracked`, and `PairsTracked`: the log has the lines
  of the pairs that are no longer to be compared and of the tokens without a type; `LinesSay` is the step from these lines to what the log says of tokens,
  shards and types, from what the fields of each line are, `LoggedLines` and `LineFields`; the tools that are not the checker report
  nothing and open one database, so that the property says nothing of them by accident).
- `TrieToolsProofs`, balances: `AllBalancesExported` and `FilesAgree` from `BalancesInvariant`, over any number of runs and options: the block is the first
  eligible one, a user to export is unread or taken, and once the balances are written the file of that name has them all.
- `TrieToolsProofs`, `EveryStepAdvances`: the same for the trie tools. The order is that of the runs, the stages of a run, the leaves of the main
  trie to be taken, the roots, the account in turn, its items (for the checker: the databases to open, the pairs, the shards), while a
  goroutine moves a leaf or closes its channel. It rests on a leaf being sent once (`SentOnce`).
- `NetComparatorProofs`: `TypeCorrect`, `ReportsAreTrue` from `ListedOnce` (each hash once, and past ones done) and `Answered` (what is held of the current transaction is an answer
  about it, not about an earlier one or another attempt).

Model-checked only: liveness (`RunEnds`, `PackingEnds`, `SenderEnds`, `CheckEnds`, `ToolEnds`, `ComparatorEnds`), which is out of the prover's reach
(that a step is always possible, and that it is taken; that steps lead nearer to the end is proved of the token bulks and the trie tools). Every
other property of a run is a theorem. `SquadNeverSetBack` asks for a
destination with nothing newer than the source, as the run has.

## Disagreements met

One statement of the repository is contradicted by a run of `PROJECT.json`, `bulk_threshold` (`BulkRequestsMC`,
`RequestsWithinThreshold`): `buffer.go:5` calls `bulkSizeThreshold` the maximum size of one bulk request, but the check does not count
the newline that `PutData` appends, and two documents that fill a buffer exactly go out in a request that is one byte longer.

Of the others that the code does not keep, and of what it does not notice, configurations beside the runs show each: TLC finds the property
violated with `tlc -config <cfg> <module>`.

- `reindexer_mapped_parallel.cfg` (`ReindexerMC`, `MappedRunCopiesAll`): without `--skip-mappings` (and without `--overwrite`) the goroutines of an index
  with timestamp all check the mapping; all but the first find what the first one created, give up
  with a logged warning, and the run returns nil without their intervals.
- `reindexer_changing.cfg` (`ReindexerMC`, `ChangingDocumentsCopied`): a document with timestamp that changes during the run may be selected by
  no goroutine, because its new timestamp is past the end of the last interval or in an interval that was searched before, and is missing
  in any version, although nothing is reported.
- `reindexer_partial.cfg` (`ReindexerMC`, `PartialAnswersNoticed`): a search, or a page of a scroll, that is answered with status 200 by a part of the shards,
  or without a `_scroll_id`, ends the copy of the job early and without an error (`elasticClient.go:256-278`, `320-322`, `336-338`).
- `reindexer_late.cfg` (`ReindexerMC`, `SquadNeverReplaced`): a bulk request that met a gateway timeout and is executed after the squad started sets a
  document back, although all the indices that the README names had been copied.
- `creator_quiet.cfg` (`IndicesCreatorMC`, `QuietRunSucceeds`): a run that stops between creating `<name>-000001` and its alias leaves a state
  that no rerun completes: the name is not found, and creating the index again fails.
- `merger_unreadable.cfg` (`DBMergerMC`, `ReadErrorsReported`): a source that cannot be read to its end is merged in part, without an error.
- `merger_incomplete.cfg` (`DBMergerMC`, `CopyErrorsReported`): a copied file that cannot be closed is logged, and the merge ends well
  without what the file lacks (`osOperationsHandler.go:97-100`).

Met while modelling, and part of the models:

- netComparator: the not-found that the comment of `getTransaction` (`main.go:284`) says is returned for 404 is returned only if
  the body is no JSON; with a JSON body the 404 falls through and is read as a transaction without fields (`Blank`). The
  not-found of the primary is overwritten by the secondary's result (`main.go:213`), and when the secondary has the
  transaction, the primary's is dereferenced at `main.go:223` though it is nil (`NilDereference`).
- trieChecker and trieStatsPrinter take a database with an extra or missing directory for a single flat one, and then report nodes
  missing that are there (`OpenSingleDirectory`).
- updateTokenIdChecker does not read the channel of errors of the tokens it files (`main.go:191`): after a traversal that stopped
  early it checks a part of them and ends well. Tokens of the first version are filed under the type "" (`main.go:201`) and never compared. Its log of a value that is no
  type, a type not set among them, names neither the token nor the shard (`main.go:167-170`), and those of a token without data or of a wrong length (`main.go:157`,
  `162`) name no shard.
- metaDataRemover forgets the error of `saveResult` (`txCreator.go:80`) and ends well without the file, or with the one of an earlier run.
- zeroBalanceSystemAccountChecker takes a response without hits, an error among them, for a token that nobody holds.
- balancesExporter gives the files of runs with and without contracts or zero balances the same name.

What the models show besides, without a statement in the repository that it would contradict:
`--skip-mappings` alone overwrites existing documents (`NoOverwriteWithoutConsent` asks for both flags); `DoesTemplateExist` asks for templates of the legacy kind, so that a template
which the tool has put is put again by every run; a source path of the merger that holds no level-DB
is merged as an empty one; a nonce that a list holds in two written forms
makes its interval reach past the last nonce, to one that is not listed (`OnlyListedOnce` asks for nonces written once).

## Not modelled

In the modelled tool: the counts that goroutines compare and log when they end
(`reindexerMultiWrites.go:99-112`; they change nothing), the content of mappings, the order of hits
within the time-sorted scroll (pages are any documents, which includes that order), the second
between the starts of two goroutines (all interleavings are included), scrolls that expire (a failing request),
`countScroll` (unsynchronised, only varies a duration), requests that never answer, aliases that
point at other indices, several instances of the tool at once, and a rerun while a late
write or the squad is still at work.

In the indices creator: the content of templates and policies, rollovers of an alias to further
indices, reading the configuration files. In the merger: `path/parser.go` (no command uses it), the
level-DB's own format (a file that could not be closed stands for the data of one key; a manifest cut off so
that the copy does not open is `OpenFails`, one with which it opens and lacks more is not modelled), another process that writes to the first source while it is copied (nothing
locks it), and the exit status, which is 0 also after an error.

In the token bulks: nonces of 2^63 and more, the order of the IDs and intervals within a bulk, a bulk size of 0 (the
loop does not end; the configuration is not checked). In the sender: what a transaction says, its signature and its cost, the transactions a
proxy sends twice. In the checker:
the gateway's answers that are no number, the scroll of the indexer beyond one page of hits. In the trie tools: the nodes above a leaf, which stand with
it, pruning while a tool runs (the node is stopped), whether the storer of balancesExporter can be made without the tracker of persisters and the statistics
that its `trieFactory`, unlike `common.go`, does not give it (the model takes it for made), lines of a log that are the same as an earlier one, the figures of trieStatsPrinter, the layout of the formats. In
netComparator: which fields differ and the HTML report.

tgbot is one goroutine with a timer, a counter and a flag of its own; a table of balances tests it. validatorStatsToPrometheus keeps nothing between two scrapes. `cmd/deduplicator` prints a comparison of two lists. `path/parser.go` of
dbMerger is called by no command and changes no state. Generated and vendored code, mocks and test data are left out.

## Plan

Done: every tool that keeps or changes state, and the proofs of all their safety properties.

Next:

1. That a page written by `BulkRequests` is a sequence of the steps `Reindexer` has for it, as a refinement.
2. The notifier of tgbot with its timer and its close, if it gets more than one episode of state.
