--------------------------- MODULE NetComparator ---------------------------
(***************************************************************************)
(* netComparator: it asks a primary network for transactions, gets each of *)
(* them from the primary and from a secondary network, with retries, and   *)
(* reports the fields that differ. The transactions are compared one after *)
(* the other. The networks are external: an answer may be an error, or be  *)
(* that of a node that does not know the transaction yet.                  *)
(***************************************************************************)
EXTENDS Integers, Sequences

CONSTANTS
  Tx, Value,
  Absent,         \* a network does not have a transaction
  Blank,          \* the transaction without any field
  Networks,       \* pairs of networks: [Tx -> Value \cup {Absent}]
  Numbers,        \* --number
  Maximum, Low, Medium,  \* maximum-, low-, mediumNumberOfTransactions
  MinRetries, MediumRetries, MaxRetries

ASSUME ComparatorAssumption ==
  /\ Networks \subseteq [Tx -> Value \cup {Absent}] \X [Tx -> Value \cup {Absent}]
  /\ Blank \notin Value /\ Absent \notin Value \cup {Blank}
  /\ Numbers \subseteq Nat /\ {Maximum, Low, Medium} \subseteq Nat
  /\ {MinRetries, MediumRetries, MaxRetries} \subseteq Nat \ {0}

VARIABLES
  net,      \* <<primary, secondary>>
  number,   \* config.Number
  hashes,   \* txHashes
  i,        \* the transaction that is compared
  attempt,  \* failed attempts at it
  txM,      \* what the primary gave: {} or one transaction
  txS, wd,  \* what the secondary gave; whether it gave a wrappedDifferences
  diffs,    \* wrappedDiffs, in the order of hashes
  pc,
  lagged,   \* history: transactions a network denied though it has them
  failures  \* history: failed attempts at each of the transactions

vars == <<net, number, hashes, i, attempt, txM, txS, wd, diffs, pc, lagged, failures>>

Entries == {"none", "same", "differs", "error"}

Init ==
  /\ net \in Networks /\ number \in Numbers
  /\ hashes = <<>> /\ i = 1 /\ attempt = 0 /\ txM = {} /\ txS = {} /\ wd = FALSE
  /\ diffs = <<>> /\ pc = "list" /\ lagged = {} /\ failures = [t \in Tx |-> 0]

Stops(why) ==
  /\ pc' = why
  /\ UNCHANGED <<net, number, hashes, i, attempt, txM, txS, wd, diffs, lagged, failures>>

-----------------------------------------------------------------------------
(* calculateRetryAttempts.                                                 *)
Retries ==
  IF number < Low THEN MinRetries ELSE IF number < Medium THEN MediumRetries ELSE MaxRetries

TooMany == pc = "list" /\ number > Maximum /\ Stops("failed")

(* The proxies, the timestamp, or the list of the primary network.         *)
ListFails == pc = "list" /\ number <= Maximum /\ Stops("failed")

(* At most number transactions, each once, that the primary has.           *)
Lists ==
  {l \in UNION {[1..n -> {t \in Tx : net[1][t] # Absent}] : n \in 0..number} :
     \A p, q \in DOMAIN l : l[p] = l[q] => p = q}

List(l) ==
  /\ pc = "list" /\ number <= Maximum
  /\ hashes' = l /\ diffs' = [p \in DOMAIN l |-> "none"] /\ pc' = "primary"
  /\ UNCHANGED <<net, number, i, attempt, txM, txS, wd, lagged, failures>>

Current == hashes[i]
Comparing(where) == pc = where /\ i <= Len(hashes)

(* getTransaction, where it does not fail. The answer 404 has a JSON body, *)
(* which is then read as a transaction without fields, or another body,    *)
(* and then there is no transaction, and a wrappedDifferences.             *)
Answers(n) == (IF net[n][Current] = Absent THEN {} ELSE {{net[n][Current]}}) \cup {{Blank}, {}}
Lags(n, tx) ==
  IF net[n][Current] # Absent /\ tx # {net[n][Current]} THEN lagged \cup {Current} ELSE lagged

GetPrimary(tx) ==
  /\ Comparing("primary") /\ tx \in Answers(1) /\ attempt < Retries
  /\ txM' = tx /\ lagged' = Lags(1, tx) /\ pc' = "secondary"
  /\ UNCHANGED <<net, number, hashes, i, attempt, txS, wd, diffs, failures>>

(* Mutant: without an answer the transaction of an earlier one is kept.     *)
KeepSecondary(tx) ==
  /\ Comparing("secondary") /\ tx \in Answers(2)
  /\ txS' = IF tx = {} THEN txS ELSE tx
  /\ wd' = FALSE /\ lagged' = Lags(2, tx) /\ pc' = "compare"
  /\ UNCHANGED <<net, number, hashes, i, attempt, txM, diffs, failures>>

(* The wrappedDifferences of the secondary replaces that of the primary.   *)
GetSecondary(tx) ==
  /\ Comparing("secondary") /\ tx \in Answers(2)
  /\ txS' = tx /\ wd' = (tx = {}) /\ lagged' = Lags(2, tx) /\ pc' = "compare"
  /\ UNCHANGED <<net, number, hashes, i, attempt, txM, diffs, failures>>

(* No answer, 429, another code, or a body that does not parse: the next   *)
(* attempt begins with the primary again.                                  *)
Asking == (Comparing("primary") /\ attempt < Retries) \/ Comparing("secondary")

(* Mutant: failures of the secondary are not counted.                      *)
PrimaryFailsOnly ==
  /\ Asking
  /\ attempt' = IF pc = "primary" THEN attempt + 1 ELSE attempt
  /\ failures' = [failures EXCEPT ![Current] = attempt']
  /\ pc' = "primary"
  /\ UNCHANGED <<net, number, hashes, i, txM, txS, wd, diffs, lagged>>

AttemptFails ==
  /\ Asking
  /\ attempt' = attempt + 1
  /\ failures' = [failures EXCEPT ![Current] = @ + 1]
  /\ pc' = "primary"
  /\ UNCHANGED <<net, number, hashes, i, txM, txS, wd, diffs, lagged>>

NextTransaction ==
  /\ i' = i + 1 /\ attempt' = 0 /\ pc' = "primary"
  /\ UNCHANGED <<net, number, hashes, txM, txS, wd, lagged, failures>>

(* getDifference.                                                          *)
Difference == IF txM = txS THEN "same" ELSE "differs"

Compare ==
  /\ pc = "compare" /\ (wd \/ txM # {})
  /\ diffs' = [diffs EXCEPT ![i] = IF wd THEN "error" ELSE Difference]
  /\ NextTransaction

(* The primary gave no transaction and the secondary did.                  *)
NilDereference == pc = "compare" /\ ~wd /\ txM = {} /\ Stops("panicked")

(* retry.Do gives the error, which is logged.                              *)
GiveUp ==
  /\ Comparing("primary") /\ attempt >= Retries
  /\ UNCHANGED diffs
  /\ NextTransaction

Report == pc = "primary" /\ i > Len(hashes) /\ Stops("done")
ReportFails == pc = "primary" /\ i > Len(hashes) /\ Stops("failed")

Next ==
  \/ TooMany \/ ListFails \/ \E l \in Lists : List(l)
  \/ \E v \in Value : \E tx \in {{v}, {Blank}, {}} : GetPrimary(tx) \/ GetSecondary(tx)
  \/ AttemptFails \/ Compare \/ NilDereference \/ GiveUp \/ Report \/ ReportFails

(* Every request has an answer or an error.                                *)
Spec == Init /\ [][Next]_vars /\ WF_vars(Next)

-----------------------------------------------------------------------------
TypeOK ==
  /\ net \in [Tx -> Value \cup {Absent}] \X [Tx -> Value \cup {Absent}]
  /\ number \in Nat
  /\ hashes \in Seq(Tx) /\ diffs \in Seq(Entries) /\ Len(diffs) = Len(hashes)
  /\ i \in Nat \ {0} /\ attempt \in 0..Retries
  /\ txM \in SUBSET (Value \cup {Blank}) /\ txS \in SUBSET (Value \cup {Blank})
  /\ wd \in BOOLEAN /\ lagged \subseteq Tx /\ failures \in [Tx -> Nat]
  /\ pc \in {"list", "primary", "secondary", "compare", "done", "failed", "panicked"}

(* Whatever attempts failed before, of this transaction or of another one, *)
(* a report says of a transaction what is true of it, unless a network     *)
(* denied having it; it says nothing only if every attempt has failed.     *)
ReportIsTrue ==
  pc = "done" => \A p \in DOMAIN hashes :
    LET t == hashes[p] IN
    /\ diffs[p] = "none" => failures[t] = Retries
    /\ t \notin lagged =>
         /\ diffs[p] = "same" => net[1][t] = net[2][t]
         /\ diffs[p] = "differs" => net[1][t] # net[2][t]
         /\ diffs[p] = "error" => net[2][t] = Absent

(* A comparison ends, whatever requests fail: with a report, an error, or  *)
(* a panic.                                                                *)
ComparatorEnds == (pc = "primary") ~> (pc \in {"done", "failed", "panicked"})
=============================================================================
