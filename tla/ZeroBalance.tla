---------------------------- MODULE ZeroBalance ----------------------------
(***************************************************************************)
(* trieTools/zeroBalanceSystemAccountChecker: which tokens have metadata   *)
(* in the system accounts of the shards and are held by nobody, so that    *)
(* the metadata may be deleted. It reads files in which tokensExporter     *)
(* wrote the accounts of a shard with their tokens, and may cross-check    *)
(* the tokens found with the indexer (elastic) and the gateway.            *)
(*                                                                         *)
(* The network goes on meanwhile: tokens leave accounts and arrive at      *)
(* others, and the files are of different moments. It is external, and so  *)
(* are the exports, the indexer and the gateway.                           *)
(***************************************************************************)
EXTENDS Integers, FiniteSets, Sequences

CONSTANTS
  Token, Account, Shard, ShardOf,
  HasNonce,    \* the tokens that are not fungible
  System,      \* the address of the system account, in each shard
  Worlds,      \* initial [holders, meta]
  BulkSize,    \* multipleSearchBulk
  MaxRetrials, \* maxRequestsRetrial
  PageSize,    \* hits in a response of the indexer
  MaxMoves,    \* bound: departures of tokens
  MaxFiles     \* bound: exported files

Address == Account \cup {System}
World == [holders : [Token -> SUBSET Account], meta : [Shard -> SUBSET Token]]

(* The tokens of the addresses it has.                                     *)
AddressTokensMap == UNION {[D -> SUBSET Token] : D \in SUBSET Address}

ASSUME ZeroBalanceAssumption ==
  /\ ShardOf \in [Account -> Shard] /\ HasNonce \subseteq Token /\ System \notin Account
  /\ Worlds \subseteq World /\ IsFiniteSet(Token)
  /\ BulkSize \in Nat \ {0} /\ {MaxRetrials, PageSize, MaxMoves, MaxFiles} \subseteq Nat

VARIABLES
  holders,    \* of each token
  transit,    \* tokens in pending miniblocks
  meta,       \* [Shard -> SUBSET Token]: tokens of the system accounts
  moves,
  files,      \* the files of the directory, in its order: [shard, tokens]
  shardMap,   \* shardAddressTokensMap: partial function of the shards
  global,     \* globalAddressTokensMap
  extra,      \* globalExtraTokens
  perShard,   \* extraTokensPerShard
  taken,      \* tokens the loop has gone through
  requests,   \* those of the current bulk
  counter,    \* counterRequests
  hits,       \* addresses the indexer gave for the tokens of the bulk
  token,      \* {} or the token that is cross-checked, and
  retrials,   \* the failed requests for its balance at the current hit
  stillExist, \* tokensThatStillExist
  output,     \* the result of the run, once it is written
  pc,
  known,      \* history: tokens that had a holder among their hits
  moved       \* history: tokens that moved since they were asked for

world == <<holders, transit, meta, moves, moved>>
inputs == <<shardMap, global, extra>>
check == <<taken, requests, counter, hits, token, retrials, stillExist, known>>
vars == <<world, files, inputs, perShard, check, output, pc>>

Init ==
  /\ \E w \in Worlds : holders = w.holders /\ meta = w.meta
  /\ transit = {} /\ moves = 0 /\ moved = {}
  /\ files = <<>> /\ shardMap = <<>> /\ global = <<>> /\ extra = {} /\ perShard = <<>>
  /\ taken = {} /\ requests = {} /\ counter = 0 /\ hits = <<>> /\ token = {}
  /\ retrials = 0 /\ stillExist = {} /\ known = {}
  /\ output = <<>> /\ pc = "export"

-----------------------------------------------------------------------------
(* External: the network. A token leaves an account, all of it or a part,  *)
(* and arrives at another, whose shard then has its metadata.              *)
Depart(t, a, all) ==
  /\ moves < MaxMoves /\ pc \notin {"done", "failed"}
  /\ a \in holders[t] /\ t \notin transit
  /\ moves' = moves + 1 /\ moved' = moved \cup {t} /\ transit' = transit \cup {t}
  /\ holders' = IF all THEN [holders EXCEPT ![t] = @ \ {a}] ELSE holders
  /\ UNCHANGED <<meta, files, inputs, perShard, check, output, pc>>

Arrive(t, a) ==
  /\ t \in transit
  /\ transit' = transit \ {t} /\ moved' = moved \cup {t}
  /\ holders' = [holders EXCEPT ![t] = @ \cup {a}]
  /\ meta' = [meta EXCEPT ![ShardOf[a]] = @ \cup {t}]
  /\ UNCHANGED <<moves, files, inputs, perShard, check, output, pc>>

(* What tokensExporter finds in a shard: the addresses that have tokens.   *)
Snapshot(s) ==
  LET tokens(x) == IF x = System THEN meta[s]
                   ELSE {t \in Token : x \in holders[t] /\ ShardOf[x] = s}
  IN [x \in {y \in Address : tokens(y) # {}} |-> tokens(x)]

(* A shard may be exported twice (shard1.json, shard01.json), or not. The  *)
(* directory has the two in the order of their names; how the files of     *)
(* different shards lie makes no difference.                               *)
Export(s) ==
  /\ pc = "export" /\ Len(files) < MaxFiles
  /\ LET file == [shard |-> s, tokens |-> Snapshot(s)]
     IN \/ files' = Append(files, file)
        \/ /\ \E k \in DOMAIN files : files[k].shard = s
           /\ files' = <<file>> \o files
  /\ UNCHANGED <<world, inputs, perShard, check, output, pc>>

-----------------------------------------------------------------------------
(* addressTokens.go.                                                       *)
HasAddress(m, a) == a \in DOMAIN m
GetTokens(m, a) == IF HasAddress(m, a) THEN m[a] ELSE {}
Delete(m, a) == [x \in DOMAIN m \ {a} |-> m[x]]
GetAllTokens(m) == UNION {m[a] : a \in DOMAIN m}

(* getFileContent: the tokens without nonce are left out, their addresses  *)
(* are not.                                                                *)
Content(k) == [a \in DOMAIN files[k].tokens |-> files[k].tokens[a] \cap HasNonce]

(* Mutant: an address of several files has the tokens of the last one.     *)
MergeOverwrites ==
  [a \in UNION {DOMAIN Content(k) : k \in DOMAIN files} |->
     LET last == CHOOSE k \in DOMAIN files :
                   /\ a \in DOMAIN Content(k)
                   /\ \A m \in DOMAIN files : a \in DOMAIN Content(m) => m <= k
     IN Content(last)[a]]

(* readTokensWithNonce: the files are merged, and of two files of a shard  *)
(* the last is the one of the shard.                                       *)
Merged ==
  [a \in UNION {DOMAIN Content(k) : k \in DOMAIN files} |->
     UNION {GetTokens(Content(k), a) : k \in DOMAIN files}]
LastFile(s) ==
  CHOOSE k \in DOMAIN files :
    files[k].shard = s /\ \A m \in DOMAIN files : files[m].shard = s => m <= k
ShardMap == [s \in {files[k].shard : k \in DOMAIN files} |-> Content(LastFile(s))]

Fail ==
  /\ pc' = "failed"
  /\ UNCHANGED <<world, files, perShard, check, output>>

(* A file may be unreadable, and so may its name.                          *)
ReadFails == pc = "export" /\ Fail /\ UNCHANGED inputs

Read ==
  /\ pc = "export"
  /\ shardMap' = ShardMap /\ global' = Merged /\ pc' = "extra"
  /\ UNCHANGED <<world, files, extra, perShard, check, output>>

GlobalExtra == GetTokens(global, System) \ GetAllTokens(Delete(global, System))
ShardExtra(s) == GlobalExtra \cap GetTokens(shardMap[s], System)

SystemAccountMissing ==
  ~HasAddress(global, System) \/ \E s \in DOMAIN shardMap : ~HasAddress(shardMap[s], System)
(* Mutant: a token of two shards is counted twice.                         *)
SanityDisjoint ==
  /\ UNION {ShardExtra(s) : s \in DOMAIN shardMap} = GlobalExtra
  /\ \A r, s \in DOMAIN shardMap : r # s => ShardExtra(r) \cap ShardExtra(s) = {}

SanityCheck == UNION {ShardExtra(s) : s \in DOMAIN shardMap} = GlobalExtra

NoSystemAccount == pc = "extra" /\ SystemAccountMissing /\ Fail /\ UNCHANGED inputs

SanityCheckFails ==
  /\ pc = "extra" /\ ~SystemAccountMissing /\ ~SanityCheck
  /\ pc' = "insane"
  /\ UNCHANGED <<world, files, inputs, perShard, check, output>>

GetExtraTokens(crossCheck) ==
  /\ pc = "extra" /\ ~SystemAccountMissing /\ SanityCheck
  /\ extra' = GlobalExtra
  /\ perShard' = [s \in DOMAIN shardMap |-> ShardExtra(s)]
  /\ pc' = IF crossCheck THEN "collect" ELSE "save"
  /\ UNCHANGED <<world, files, shardMap, global, check, output>>

-----------------------------------------------------------------------------
Bulk == IF Cardinality(extra) < BulkSize THEN Cardinality(extra) ELSE BulkSize

(* Mutant: what is left after the last full bulk is not asked for.         *)
CollectFullBulks(t) ==
  /\ pc = "collect" /\ t \in extra \ taken
  /\ taken' = taken \cup {t} /\ requests' = requests \cup {t}
  /\ pc' = IF Cardinality(requests') < Bulk THEN "collect" ELSE "search"
  /\ UNCHANGED <<world, files, inputs, perShard, counter, hits, token, retrials, stillExist,
                 known, output>>

(* The loop over the map of tokens, in any order.                          *)
Collect(t) ==
  /\ pc = "collect" /\ t \in extra \ taken
  /\ taken' = taken \cup {t} /\ requests' = requests \cup {t}
  /\ pc' = IF Cardinality(requests') < Bulk /\ taken' # extra THEN "collect" ELSE "search"
  /\ UNCHANGED <<world, files, inputs, perShard, counter, hits, token, retrials, stillExist,
                 known, output>>

Pages == {p \in SUBSET Account : Cardinality(p) <= PageSize}

(* GetMultiple. The indexer may be late, give a part of the accounts, or   *)
(* an error in place of hits. The search, or what it needs (the            *)
(* configuration, the client), may fail.                                   *)
Search(found) ==
  /\ pc = "search"
  /\ hits' = found
  /\ known' = known \cup {t \in requests : found[t] \cap holders[t] # {}}
  /\ moved' = moved \ requests
  /\ pc' = "check"
  /\ UNCHANGED <<holders, transit, meta, moves, files, inputs, perShard, taken, requests,
                 counter, token, retrials, stillExist, output>>

SearchFails == pc \in {"collect", "search"} /\ Fail /\ UNCHANGED inputs

(* checkIndexerResponse: the next response that has hits.                  *)
NextToken(t) ==
  /\ pc = "check" /\ token = {} /\ t \in requests /\ hits[t] # {}
  /\ token' = {t} /\ retrials' = 0
  /\ UNCHANGED <<world, files, inputs, perShard, taken, requests, counter, hits, stillExist,
                 known, output, pc>>

(* Mutant: the first balance, whatever it is, decides.                     *)
FirstBalanceDecides(t, a) ==
  /\ pc = "check" /\ t \in token /\ a \in hits[t] /\ a \notin holders[t]
  /\ retrials < MaxRetrials /\ retrials' = 0
  /\ hits' = [hits EXCEPT ![t] = {}]
  /\ token' = {}
  /\ UNCHANGED <<world, files, inputs, perShard, taken, requests, counter, stillExist,
                 known, output, pc>>

(* GetBalance: an account that has the token no longer, perhaps never had. *)
ZeroBalance(t, a) ==
  /\ pc = "check" /\ t \in token /\ a \in hits[t] /\ a \notin holders[t]
  /\ retrials < MaxRetrials /\ retrials' = 0
  /\ hits' = [hits EXCEPT ![t] = @ \ {a}]
  /\ token' = IF hits[t] = {a} THEN {} ELSE token
  /\ UNCHANGED <<world, files, inputs, perShard, taken, requests, counter, stillExist,
                 known, output, pc>>

(* A balance, or an answer without one, which is not "0" either.           *)
StillExists(t, a) ==
  /\ pc = "check" /\ t \in token /\ a \in hits[t] /\ retrials < MaxRetrials
  /\ stillExist' = stillExist \cup {t}
  /\ hits' = [hits EXCEPT ![t] = {}] /\ token' = {}
  /\ UNCHANGED <<world, files, inputs, perShard, taken, requests, counter, retrials,
                 known, output, pc>>

(* Mutant: the retries are counted over, after the last one.               *)
RetryForEver ==
  /\ pc = "check" /\ token # {} /\ retrials < MaxRetrials
  /\ retrials' = (retrials + 1) % MaxRetrials
  /\ UNCHANGED <<world, files, inputs, perShard, taken, requests, counter, hits, token,
                 stillExist, known, output, pc>>

Retry ==
  /\ pc = "check" /\ token # {} /\ retrials < MaxRetrials
  /\ retrials' = retrials + 1
  /\ UNCHANGED <<world, files, inputs, perShard, taken, requests, counter, hits, token,
                 stillExist, known, output, pc>>

CouldNotGetBalance ==
  pc = "check" /\ token # {} /\ retrials >= MaxRetrials /\ Fail /\ UNCHANGED inputs

BulkChecked ==
  /\ pc = "check" /\ \A t \in requests : hits[t] = {}
  /\ counter' = counter + Cardinality(requests)
  /\ requests' = {} /\ hits' = <<>> /\ pc' = "collect"
  /\ UNCHANGED <<world, files, inputs, perShard, taken, token, retrials, stillExist, known,
                 output>>

(* The end of the loop; the tool counts whether it asked for every token.  *)
CountTokens ==
  /\ pc = "collect" /\ taken = extra
  /\ pc' = IF counter = Cardinality(extra) THEN "remove" ELSE "miscounted"
  /\ UNCHANGED <<world, files, inputs, perShard, check, output>>

(* removeTokensIfStillExist.                                               *)
Remove ==
  /\ pc = "remove"
  /\ perShard' = [s \in DOMAIN perShard |-> perShard[s] \ stillExist]
  /\ pc' = "save"
  /\ UNCHANGED <<world, files, inputs, check, output>>

Save ==
  /\ pc = "save" /\ output' = perShard /\ pc' = "done"
  /\ UNCHANGED <<world, files, inputs, perShard, check>>
SaveFails == pc = "save" /\ Fail /\ UNCHANGED inputs

Tool ==
  \/ ReadFails \/ Read \/ NoSystemAccount \/ SanityCheckFails
  \/ \E crossCheck \in BOOLEAN : GetExtraTokens(crossCheck)
  \/ \E t \in extra : Collect(t) \/ NextToken(t) \/ \E a \in Account : ZeroBalance(t, a) \/ StillExists(t, a)
  \/ \E found \in [requests -> Pages] : Search(found)
  \/ SearchFails \/ Retry \/ CouldNotGetBalance \/ BulkChecked
  \/ CountTokens \/ Remove \/ Save \/ SaveFails

Network ==
  \/ \E t \in Token, a \in Account : Arrive(t, a) \/ \E all \in BOOLEAN : Depart(t, a, all)
  \/ \E s \in Shard : Export(s)

Next == Tool \/ Network

(* The tool goes on by itself: requests have an answer or an error.        *)
Spec == Init /\ [][Next]_vars /\ WF_vars(Tool)

-----------------------------------------------------------------------------
Ended == {"done", "failed", "insane"}

TypeOK ==
  /\ holders \in [Token -> SUBSET Account] /\ transit \subseteq Token
  /\ meta \in [Shard -> SUBSET Token] /\ moves \in Nat /\ moved \subseteq Token
  /\ files \in Seq([shard : Shard, tokens : AddressTokensMap])
  /\ DOMAIN shardMap \subseteq Shard /\ \A s \in DOMAIN shardMap : shardMap[s] \in AddressTokensMap
  /\ global \in AddressTokensMap
  /\ extra \subseteq Token /\ taken \subseteq extra /\ requests \subseteq taken
  /\ DOMAIN perShard \subseteq Shard /\ \A s \in DOMAIN perShard : perShard[s] \subseteq Token
  /\ counter \in Nat /\ retrials \in 0..MaxRetrials
  /\ token \subseteq requests /\ stillExist \subseteq Token /\ known \subseteq taken
  /\ pc = "check" => hits \in [requests -> SUBSET Account]
  /\ pc \in Ended \cup {"export", "extra", "collect", "search", "check", "miscounted",
                        "remove", "save"}

(* A token is exported for a shard only if a file says that its metadata   *)
(* is in the system account there, and no file says that anybody holds it. *)
ExportedInNoAccount ==
  pc = "done" => \A s \in DOMAIN output : \A t \in output[s] : \A k \in DOMAIN files :
    /\ \A a \in DOMAIN files[k].tokens \ {System} : t \notin files[k].tokens[a]
    /\ \E m \in DOMAIN files : files[m].shard = s /\ t \in GetTokens(files[m].tokens, System)

(* The cross-check: a token that stays where it is from the moment it is   *)
(* asked for, and one holder of which the indexer names, is not exported.  *)
HeldTokensNotExported ==
  pc = "done" => \A s \in DOMAIN output : output[s] \cap (known \ moved) = {}

(* However the tokens fall into bulks, each is asked for exactly once: the *)
(* tool's own count never finds one missing.                               *)
AllTokensAsked ==
  /\ pc # "miscounted"
  /\ pc = "remove" => taken = extra /\ counter = Cardinality(extra)

(* The sanity check can only refuse a directory with two files of a shard. *)
SanityMeansDoubleFile ==
  pc = "insane" => \E k, m \in DOMAIN files : k # m /\ files[k].shard = files[m].shard

(* The check ends, whatever requests fail.                                 *)
CheckEnds == (pc # "export") ~> (pc \in Ended)
=============================================================================
