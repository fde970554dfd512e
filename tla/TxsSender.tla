----------------------------- MODULE TxsSender -----------------------------
(***************************************************************************)
(* tokensRemover: metaDataRemover makes one file of transactions for each  *)
(* shard (txCreator.go), and txsSender sends the transactions of a file,   *)
(* one per block, from an index the operator gives (txsSender.go). The two *)
(* tools meet in the files and in the nonces of the accounts.              *)
(*                                                                         *)
(* A file is [shard, run, from, base, num]: num transactions of the        *)
(* account from, the i-th one (from 0) with nonce base + i, written by the *)
(* run-th run of metaDataRemover. The network is external: a pool, and for *)
(* each account the transactions executed, the position of which is their  *)
(* nonce. What a proxy says of an account may be old.                      *)
(***************************************************************************)
EXTENDS Integers, Sequences, FiniteSets

CONSTANTS
  Shard, Account,
  NoFile, Bad,  \* no (readable) file; a name or a key that does not parse
  PemDirs,      \* directories of pem files: sequences of [shard, account]
  Inputs,       \* tokens files: from some shards to their numbers of bulks
  WaitTime,     \* waitTimeNonceIncremented
  MaxRuns,      \* bound: runs of metaDataRemover
  MaxSends,     \* bound: runs of txsSender
  MaxForeign    \* bound: transactions of the accounts that no tool made

Transactions == [shard : Shard, run : Nat, from : Account, base : Nat, num : Nat]

ASSUME SenderAssumption ==
  /\ PemDirs \subseteq Seq([shard : Shard \cup {Bad}, account : Account \cup {Bad}])
  /\ \A in \in Inputs : /\ DOMAIN in \subseteq Shard
                        /\ in = [s \in DOMAIN in |-> in[s]]
                        /\ \A s \in DOMAIN in : in[s] \in Nat
  /\ NoFile \notin Transactions /\ Bad \notin Shard \cup Account
  /\ {WaitTime, MaxRuns, MaxSends, MaxForeign} \subseteq Nat

VARIABLES
  input, pems,  \* what metaDataRemover was given: tokens, and pem of a shard
  todo,         \* the shards it has no transactions for yet
  run,          \* its runs so far
  unsaved,      \* the shards whose file this run could not write
  cpc,          \* where it is
  file,         \* [Shard -> Transactions \cup {NoFile}]
  txs, start, idx, polls, spc,  \* the sender of each shard
  pool,         \* transactions accepted by the network, not executed
  executed,     \* [Account -> Seq]: the transactions executed
  sends, foreign

creator == <<input, pems, todo, run, unsaved, cpc>>
sender == <<txs, start, idx, polls, spc>>
network == <<pool, executed>>
vars == <<creator, file, sender, network, sends, foreign>>

Tx(f, i) == [shard |-> f.shard, run |-> f.run, from |-> f.from, nonce |-> f.base + i]
Foreign(a, n) == [shard |-> Bad, run |-> 0, from |-> a, nonce |-> n]

Nonce(a) == Len(executed[a])

Init ==
  /\ input = <<>> /\ pems = <<>> /\ todo = {} /\ run = 0 /\ unsaved = {} /\ cpc = "off"
  /\ file = [s \in Shard |-> NoFile]
  /\ txs = [s \in Shard |-> NoFile]
  /\ start = [s \in Shard |-> 0] /\ idx = [s \in Shard |-> 0]
  /\ polls = [s \in Shard |-> 0] /\ spc = [s \in Shard |-> "off"]
  /\ pool = {} /\ executed = [a \in Account |-> <<>>]
  /\ sends = 0 /\ foreign = 0

-----------------------------------------------------------------------------
(* readPemsData: two files may name one shard (shard1.pem, shard01.pem).   *)
PemsRefused(dir) == \E k \in DOMAIN dir : Bad \in {dir[k].shard, dir[k].account}
PemMap(dir) ==
  [s \in {dir[k].shard : k \in DOMAIN dir} |->
     dir[CHOOSE k \in DOMAIN dir :
           dir[k].shard = s /\ \A m \in DOMAIN dir : dir[m].shard = s => m <= k].account]

(* A run starts; a malformed token, a pem that does not parse, or another  *)
(* number of pems than of shards, refuses it before any file is touched.   *)
StartCreator(in, dir) ==
  /\ cpc \in {"off", "ok", "failed"} /\ run < MaxRuns
  /\ run' = run + 1 /\ unsaved' = {} /\ input' = in
  /\ IF PemsRefused(dir)
       THEN pems' = <<>> /\ todo' = {} /\ cpc' = "failed"
       ELSE /\ pems' = PemMap(dir)
            /\ todo' = DOMAIN in
            /\ cpc' = IF Cardinality(DOMAIN PemMap(dir)) = Cardinality(DOMAIN in)
                        THEN "create" ELSE "failed"
  /\ UNCHANGED <<file, sender, network, sends, foreign>>

(* Whatever else fails: the configuration, the proxy, a signature.         *)
CreatorFails ==
  /\ cpc = "create" /\ cpc' = "failed"
  /\ UNCHANGED <<input, pems, todo, run, unsaved, file, sender, network, sends, foreign>>

(* Mutant: a shard without a pem is skipped.                               *)
SkipsPem(s) ==
  /\ cpc = "create" /\ s \in todo /\ s \notin DOMAIN pems
  /\ todo' = todo \ {s}
  /\ UNCHANGED <<input, pems, run, unsaved, cpc, file, sender, network, sends, foreign>>

MissingPem(s) ==
  /\ cpc = "create" /\ s \in todo /\ s \notin DOMAIN pems
  /\ cpc' = "failed"
  /\ UNCHANGED <<input, pems, todo, run, unsaved, file, sender, network, sends, foreign>>

(* createTxs and saveResult, whose error is forgotten: then the file that  *)
(* was there stays, or is cut off.                                         *)
CreateTxs(s, nonce) ==
  /\ cpc = "create" /\ s \in todo /\ s \in DOMAIN pems
  /\ todo' = todo \ {s}
  /\ \/ /\ file' = [file EXCEPT ![s] = [shard |-> s, run |-> run, from |-> pems[s],
                                        base |-> nonce, num |-> input[s]]]
        /\ unsaved' = unsaved
     \/ /\ file' \in {file, [file EXCEPT ![s] = NoFile]}
        /\ unsaved' = unsaved \cup {s}
  /\ UNCHANGED <<input, pems, run, cpc, sender, network, sends, foreign>>

Created ==
  /\ cpc = "create" /\ todo = {} /\ cpc' = "ok"
  /\ UNCHANGED <<input, pems, todo, run, unsaved, file, sender, network, sends, foreign>>

Creator ==
  \/ \E in \in Inputs, dir \in PemDirs : StartCreator(in, dir)
  \/ CreatorFails \/ Created
  \/ \E s \in todo : MissingPem(s)
       \/ \E nonce \in 0..(IF s \in DOMAIN pems THEN Nonce(pems[s]) ELSE 0) : CreateTxs(s, nonce)

-----------------------------------------------------------------------------
Sending(s) == spc[s] \in {"wait", "send"}

(* The operator starts a sender: it reads the file, checks the index and   *)
(* asks for the configuration of the network, which may fail.              *)
StartSender(s, i) ==
  /\ ~Sending(s) /\ sends < MaxSends
  /\ sends' = sends + 1
  /\ txs' = [txs EXCEPT ![s] = file[s]]
  /\ start' = [start EXCEPT ![s] = i] /\ idx' = [idx EXCEPT ![s] = i]
  /\ polls' = [polls EXCEPT ![s] = 0]
  /\ \/ spc' = [spc EXCEPT ![s] = "failed"]
     \/ /\ file[s] # NoFile /\ i < file[s].num
        /\ spc' = [spc EXCEPT ![s] = "wait"]
  /\ UNCHANGED <<creator, file, network, foreign>>

Expected(s) == txs[s].base + idx[s]

(* Mutant: any nonce up to the awaited one will do.                        *)
SeeAtMost(s) ==
  /\ spc[s] = "wait" /\ polls[s] < WaitTime
  /\ \E seen \in 0..Nonce(txs[s].from) : seen <= Expected(s)
  /\ spc' = [spc EXCEPT ![s] = "send"]
  /\ UNCHANGED <<creator, file, txs, start, idx, polls, network, sends, foreign>>

(* Mutant: only the first transaction of a run waits for its nonce.        *)
SeeFirstOnly(s) ==
  /\ spc[s] = "wait" /\ polls[s] < WaitTime
  /\ idx[s] > start[s] \/ \E seen \in 0..Nonce(txs[s].from) : seen = Expected(s)
  /\ spc' = [spc EXCEPT ![s] = "send"]
  /\ UNCHANGED <<creator, file, txs, start, idx, polls, network, sends, foreign>>

(* waitForNonceIncremental: the nonce of the account, perhaps an old one,  *)
(* has to be that of the transaction; a failed request counts as a retry.  *)
SeeNonce(s) ==
  /\ spc[s] = "wait" /\ polls[s] < WaitTime
  /\ \E seen \in 0..Nonce(txs[s].from) : seen = Expected(s)
  /\ spc' = [spc EXCEPT ![s] = "send"]
  /\ UNCHANGED <<creator, file, txs, start, idx, polls, network, sends, foreign>>

(* Mutant: a retry is not counted, and the nonce is polled for ever.       *)
RetryUncounted(s) ==
  /\ spc[s] = "wait" /\ polls[s] < WaitTime
  /\ UNCHANGED vars

Retry(s) ==
  /\ spc[s] = "wait" /\ polls[s] < WaitTime
  /\ polls' = [polls EXCEPT ![s] = @ + 1]
  /\ UNCHANGED <<creator, file, txs, start, idx, spc, network, sends, foreign>>

GiveUp(s) ==
  /\ spc[s] = "wait" /\ polls[s] >= WaitTime
  /\ spc' = [spc EXCEPT ![s] = "failed"]
  /\ UNCHANGED <<creator, file, txs, start, idx, polls, network, sends, foreign>>

Accepted(s) == pool' = pool \cup {Tx(txs[s], idx[s])} /\ UNCHANGED executed

(* The next transaction is awaited, after a round.                         *)
Send(s) ==
  /\ spc[s] = "send"
  /\ Accepted(s)
  /\ idx' = [idx EXCEPT ![s] = @ + 1]
  /\ polls' = [polls EXCEPT ![s] = 0]
  /\ spc' = [spc EXCEPT ![s] = IF idx[s] + 1 < txs[s].num THEN "wait" ELSE "done"]
  /\ UNCHANGED <<creator, file, txs, start, sends, foreign>>

(* The transaction is refused, or it is accepted and the answer is lost.   *)
SendFails(s) ==
  /\ spc[s] = "send"
  /\ Accepted(s) \/ UNCHANGED network
  /\ spc' = [spc EXCEPT ![s] = "failed"]
  /\ UNCHANGED <<creator, file, txs, start, idx, polls, sends, foreign>>

Step(s) == SeeNonce(s) \/ Retry(s) \/ GiveUp(s) \/ Send(s) \/ SendFails(s)

(* The operator stops the sender.                                          *)
Stop(s) ==
  /\ Sending(s)
  /\ spc' = [spc EXCEPT ![s] = "failed"]
  /\ UNCHANGED <<creator, file, txs, start, idx, polls, network, sends, foreign>>

-----------------------------------------------------------------------------
(* External: the network.                                                  *)
Execute(t) ==
  /\ t \in pool /\ t.nonce = Nonce(t.from)
  /\ executed' = [executed EXCEPT ![t.from] = Append(@, t)]
  /\ pool' = pool \ {t}
  /\ UNCHANGED <<creator, file, sender, sends, foreign>>

Drop(t) ==
  /\ t \in pool /\ pool' = pool \ {t}
  /\ UNCHANGED <<creator, file, sender, executed, sends, foreign>>

ExecuteForeign(a) ==
  /\ foreign < MaxForeign /\ foreign' = foreign + 1
  /\ executed' = [executed EXCEPT ![a] = Append(@, Foreign(a, Nonce(a)))]
  /\ UNCHANGED <<creator, file, sender, pool, sends>>

Network ==
  \/ \E t \in pool : Execute(t) \/ Drop(t)
  \/ \E a \in Account : ExecuteForeign(a)

Next ==
  \/ Creator \/ Network
  \/ \E s \in Shard : Step(s) \/ Stop(s)
       \/ \E i \in 0..(IF file[s] = NoFile THEN 0 ELSE file[s].num) : StartSender(s, i)

(* A sender goes on by itself: every request has an answer or an error.    *)
Spec == Init /\ [][Next]_vars /\ \A s \in Shard : WF_vars(Step(s))

-----------------------------------------------------------------------------
TypeOK ==
  /\ \A s \in DOMAIN input : s \in Shard /\ input[s] \in Nat
  /\ \A s \in DOMAIN pems : s \in Shard /\ pems[s] \in Account
  /\ todo \in SUBSET DOMAIN input /\ run \in Nat /\ unsaved \in SUBSET Shard
  /\ cpc \in {"off", "create", "ok", "failed"}
  /\ file \in [Shard -> Transactions \cup {NoFile}]
  /\ txs \in [Shard -> Transactions \cup {NoFile}]
  /\ start \in [Shard -> Nat] /\ idx \in [Shard -> Nat] /\ polls \in [Shard -> Nat]
  /\ spc \in [Shard -> {"off", "wait", "send", "done", "failed"}]
  /\ \A s \in Shard : Sending(s) => txs[s] # NoFile
  /\ pool \subseteq [shard : Shard \cup {Bad}, run : Nat, from : Account, nonce : Nat]
  /\ executed \in [Account -> Seq([shard : Shard \cup {Bad}, run : Nat, from : Account, nonce : Nat])]
  /\ sends \in Nat /\ foreign \in Nat

(* One transaction per block: the tools never have a transaction in the    *)
(* pool whose turn has not come, whatever answers are old or lost.         *)
SentInTurn == \A t \in pool : t.nonce <= Nonce(t.from)

(* No transaction that another run made, or nobody here, has had a nonce   *)
(* that the file wanted.                                                   *)
Undisturbed(f) ==
  \A p \in (f.base + 1)..Nonce(f.from) :
    executed[f.from][p].shard = f.shard /\ executed[f.from][p].run = f.run

(* If nobody else used the account, everything a sender has sent is        *)
(* executed, but for the last one: when it fails, it has lost at most one. *)
SentAreExecuted ==
  \A s \in Shard : txs[s] # NoFile /\ Undisturbed(txs[s]) =>
    \A i \in start[s]..(idx[s] - 2) :
      \E p \in 1..Nonce(txs[s].from) : executed[txs[s].from][p] = Tx(txs[s], i)

(* metaDataRemover succeeds: each shard of the tokens has a file with its  *)
(* bulks, signed with the key given for that shard, unless it could not be *)
(* written.                                                                *)
CreatedOnSuccess ==
  cpc = "ok" => \A s \in DOMAIN input \ unsaved :
    /\ s \in DOMAIN pems
    /\ file[s] # NoFile
    /\ file[s].run = run /\ file[s].from = pems[s] /\ file[s].num = input[s]

(* A sender ends, whatever the proxy answers.                              *)
SenderEnds == \A s \in Shard : Sending(s) ~> ~Sending(s)
=============================================================================
