------------------------ MODULE NetComparatorProofs ------------------------
(* Whatever requests fail, a report of netComparator is true of the        *)
(* transactions that no network denied having.                             *)
EXTENDS NetComparator, SequenceTheorems, TLAPS

LEMMA RetriesType == Retries \in Nat \ {0}
BY ComparatorAssumption DEF Retries

(* A transaction that is asked for is one of the list, and an attempt that *)
(* goes on is not the last one that may fail.                              *)
AttemptsLeft ==
  pc \in {"secondary", "compare"} => i <= Len(hashes) /\ attempt < Retries

(* The list holds transactions of the primary network, each once.          *)
ListedOnce ==
  /\ \A p, q \in DOMAIN hashes : hashes[p] = hashes[q] => p = q
  /\ \A p \in DOMAIN hashes : net[1][hashes[p]] # Absent
  /\ pc = "list" => hashes = <<>>

LEMMA ListTypes ==
  ASSUME TypeOK
  PROVE  /\ Len(hashes) \in Nat /\ DOMAIN hashes = 1..Len(hashes) /\ DOMAIN diffs = DOMAIN hashes
         /\ \A p \in DOMAIN hashes : hashes[p] \in Tx
         /\ i \in Nat \ {0} /\ attempt \in Nat /\ Retries \in Nat \ {0}
         /\ \A t \in Tx : net[1][t] \in Value \cup {Absent} /\ net[2][t] \in Value \cup {Absent}
<1>1. /\ Len(hashes) \in Nat /\ DOMAIN hashes = 1..Len(hashes) /\ DOMAIN diffs = DOMAIN hashes
      /\ \A p \in DOMAIN hashes : hashes[p] \in Tx
  BY DEF TypeOK
<1>2. i \in Nat \ {0} /\ attempt \in Nat /\ Retries \in Nat \ {0}
  BY RetriesType DEF TypeOK
<1>3. \A t \in Tx : net[1][t] \in Value \cup {Absent} /\ net[2][t] \in Value \cup {Absent}
  BY DEF TypeOK
<1> QED BY <1>1, <1>2, <1>3

LEMMA ListType ==
  ASSUME TypeOK, NEW l \in Lists
  PROVE  /\ l \in Seq(Tx) /\ Len(l) \in Nat /\ DOMAIN l = 1..Len(l)
         /\ [p \in DOMAIN l |-> "none"] \in Seq(Entries)
         /\ Len([p \in DOMAIN l |-> "none"]) = Len(l)
         /\ \A p, q \in DOMAIN l : l[p] = l[q] => p = q
         /\ \A p \in DOMAIN l : net[1][l[p]] # Absent
<1>1. PICK n \in 0..number : l \in [1..n -> {t \in Tx : net[1][t] # Absent}]
  BY DEF Lists
<1>2. n \in Nat
  BY <1>1 DEF TypeOK
<1>3. l \in [1..n -> Tx] /\ \A p \in 1..n : net[1][l[p]] # Absent
  BY <1>1
<1>4. l \in Seq(Tx) /\ Len(l) = n /\ DOMAIN l = 1..n
  BY <1>2, <1>3
<1>5. [p \in 1..n |-> "none"] \in [1..n -> Entries]
  BY DEF Entries
<1>6. [p \in 1..n |-> "none"] \in Seq(Entries) /\ Len([p \in 1..n |-> "none"]) = n
  BY <1>2, <1>5
<1>7. \A p, q \in DOMAIN l : l[p] = l[q] => p = q
  BY DEF Lists
<1> QED BY <1>2, <1>3, <1>4, <1>6, <1>7

LEMMA InitTypeOK == Init => TypeOK /\ AttemptsLeft /\ ListedOnce
<1> SUFFICES ASSUME Init PROVE TypeOK /\ AttemptsLeft /\ ListedOnce
  OBVIOUS
<1>1. net \in [Tx -> Value \cup {Absent}] \X [Tx -> Value \cup {Absent}] /\ number \in Nat
  BY ComparatorAssumption DEF Init
<1>2. attempt \in 0..Retries
  BY RetriesType DEF Init
<1>3. hashes \in Seq(Tx) /\ diffs \in Seq(Entries) /\ Len(diffs) = Len(hashes)
  BY DEF Init
<1>4. AttemptsLeft /\ ListedOnce
  <2>1. pc = "list" /\ hashes = <<>> /\ DOMAIN hashes = {}
    BY DEF Init
  <2> QED BY <2>1 DEF AttemptsLeft, ListedOnce
<1>5. failures \in [Tx -> Nat] /\ i \in Nat \ {0} /\ lagged \subseteq Tx
      /\ txM = {} /\ txS = {} /\ pc = "list"
  BY DEF Init
<1>6. wd \in BOOLEAN
  BY Zenon DEF Init
<1> QED BY <1>1, <1>2, <1>3, <1>4, <1>5, <1>6 DEF TypeOK

LEMMA NextTypeOK ==
  TypeOK /\ AttemptsLeft /\ ListedOnce /\ [Next]_vars => TypeOK' /\ AttemptsLeft' /\ ListedOnce'
<1> SUFFICES ASSUME TypeOK, AttemptsLeft, ListedOnce, [Next]_vars
             PROVE  TypeOK' /\ AttemptsLeft' /\ ListedOnce'
  OBVIOUS
<1>0. Retries' = Retries
  BY DEF Next, vars, Retries, TooMany, ListFails, List, GetPrimary, GetSecondary, AttemptFails,
     Compare, NilDereference, GiveUp, Report, ReportFails, NextTransaction, Stops
<1>1. CASE UNCHANGED vars
  BY <1>0, <1>1 DEF vars, TypeOK, AttemptsLeft, ListedOnce
<1>2. CASE TooMany \/ ListFails \/ NilDereference \/ Report \/ ReportFails
  BY <1>0, <1>2 DEF TooMany, ListFails, NilDereference, Report, ReportFails, Stops, Comparing,
     TypeOK, AttemptsLeft, ListedOnce
<1>3. ASSUME NEW l \in Lists, List(l) PROVE TypeOK' /\ AttemptsLeft' /\ ListedOnce'
  <2>1. /\ hashes' = l /\ diffs' = [p \in DOMAIN l |-> "none"] /\ pc' = "primary"
        /\ UNCHANGED <<net, number, i, attempt, txM, txS, wd, lagged, failures>>
    BY <1>3 DEF List
  <2> QED BY <1>0, <2>1, ListType DEF TypeOK, AttemptsLeft, ListedOnce
<1>4. ASSUME NEW v \in Value, NEW tx \in {{v}, {Blank}, {}}, GetPrimary(tx) \/ GetSecondary(tx)
      PROVE  TypeOK' /\ AttemptsLeft' /\ ListedOnce'
  <2>1. i \in DOMAIN hashes /\ Current \in Tx
    BY <1>4, ListTypes DEF GetPrimary, GetSecondary, Comparing, Current
  <2>2. lagged' \subseteq Tx /\ tx \in SUBSET (Value \cup {Blank})
    BY <1>4, <2>1 DEF GetPrimary, GetSecondary, Lags, TypeOK
  <2>3. CASE GetPrimary(tx)
    <3>1. /\ txM' = tx /\ pc' = "secondary" /\ i <= Len(hashes) /\ attempt < Retries
          /\ UNCHANGED <<net, number, hashes, i, attempt, txS, wd, diffs, failures>>
      BY <2>3 DEF GetPrimary, Comparing
    <3> QED BY <1>0, <2>2, <3>1 DEF TypeOK, AttemptsLeft, ListedOnce
  <2>4. CASE GetSecondary(tx)
    <3>1. /\ txS' = tx /\ wd' \in BOOLEAN /\ pc = "secondary" /\ pc' = "compare"
          /\ UNCHANGED <<net, number, hashes, i, attempt, txM, diffs, failures>>
      BY <2>4 DEF GetSecondary, Comparing
    <3> QED BY <1>0, <2>2, <3>1 DEF TypeOK, AttemptsLeft, ListedOnce
  <2> QED BY <1>4, <2>3, <2>4
<1>5. CASE AttemptFails
  <2>1. i \in DOMAIN hashes /\ Current \in Tx /\ attempt < Retries
    BY <1>5, ListTypes DEF AttemptFails, Asking, Comparing, Current, AttemptsLeft
  <2>2. attempt' \in 0..Retries /\ failures' \in [Tx -> Nat]
    BY <1>5, <2>1, RetriesType DEF AttemptFails, TypeOK
  <2>3. pc' = "primary" /\ UNCHANGED <<net, number, hashes, i, txM, txS, wd, diffs, lagged>>
    BY <1>5 DEF AttemptFails
  <2>4. hashes # <<>>
    BY <2>1, ListTypes
  <2> QED BY <1>0, <2>2, <2>3, <2>4 DEF TypeOK, AttemptsLeft, ListedOnce
<1>6. CASE Compare \/ GiveUp
  <2>1. i' \in Nat \ {0} /\ attempt' = 0 /\ pc' = "primary"
        /\ UNCHANGED <<net, number, hashes, txM, txS, wd, lagged, failures>>
    BY <1>6 DEF Compare, GiveUp, NextTransaction, TypeOK
  <2>2. diffs' \in Seq(Entries) /\ Len(diffs') = Len(hashes)
    <3>1. CASE Compare
      <4>1. PICK e \in Entries : diffs' = [diffs EXCEPT ![i] = e]
        BY <3>1 DEF Compare, Difference, Entries
      <4>2. diffs \in Seq(Entries) /\ Len(diffs) = Len(hashes)
        BY DEF TypeOK
      <4>3. i \in DOMAIN diffs
        BY <3>1, ListTypes DEF Compare, AttemptsLeft
      <4> QED BY <4>1, <4>2, <4>3, ExceptSeq
    <3>2. CASE GiveUp
      BY <3>2 DEF GiveUp, TypeOK
    <3> QED BY <1>6, <3>1, <3>2
  <2>3. 0 \in 0..Retries
    BY RetriesType
  <2> QED BY <1>0, <2>1, <2>2, <2>3 DEF TypeOK, AttemptsLeft, ListedOnce
<1> QED BY <1>1, <1>2, <1>3, <1>4, <1>5, <1>6 DEF Next

LEMMA TypedInOrder == Spec => [](TypeOK /\ AttemptsLeft /\ ListedOnce)
BY InitTypeOK, NextTypeOK, PTL DEF Spec

(* The variables keep their types, for all networks and bounds.            *)
THEOREM TypeCorrect == Spec => []TypeOK
BY TypedInOrder, PTL

-----------------------------------------------------------------------------
(* What the report will say of the p-th transaction.                       *)
TrueOf(p) ==
  LET t == hashes[p] IN
  /\ diffs[p] = "none" => failures[t] = Retries
  /\ t \notin lagged =>
       /\ diffs[p] = "same" => net[1][t] = net[2][t]
       /\ diffs[p] = "differs" => net[1][t] # net[2][t]
       /\ diffs[p] = "error" => net[2][t] = Absent

(* The transactions behind are reported truly; those ahead have not been   *)
(* asked for; the current one was given as the networks have it.           *)
Answered ==
  /\ \A p \in DOMAIN hashes : p < i => TrueOf(p)
  /\ \A p \in DOMAIN hashes : p >= i => diffs[p] = "none"
  /\ \A p \in DOMAIN hashes : p > i => failures[hashes[p]] = 0
  /\ i \in DOMAIN hashes => failures[Current] = attempt
  /\ pc = "list" => \A t \in Tx : failures[t] = 0
  /\ pc = "list" => i = 1 /\ attempt = 0
  /\ pc \in {"secondary", "compare"} =>
       (Current \notin lagged => txM = {net[1][Current]})
  /\ pc = "compare" =>
       /\ wd = (txS = {})
       /\ Current \notin lagged /\ net[2][Current] # Absent => txS = {net[2][Current]}
       /\ txS \in {{v} : v \in Value} => net[2][Current] # Absent
  /\ pc = "done" => i > Len(hashes)

(* The comparison of two answers that are those of the networks.           *)
LEMMA ComparedTruly ==
  ASSUME TypeOK, AttemptsLeft, ListedOnce, Answered, Compare, Current \notin lagged
  PROVE  /\ diffs'[i] = "same" => net[1][Current] = net[2][Current]
         /\ diffs'[i] = "differs" => net[1][Current] # net[2][Current]
         /\ diffs'[i] = "error" => net[2][Current] = Absent
<1>1. i \in DOMAIN hashes /\ i \in DOMAIN diffs /\ pc = "compare"
  BY ListTypes DEF Compare, AttemptsLeft
<1>2. diffs'[i] = IF wd THEN "error" ELSE Difference
  BY <1>1 DEF Compare, TypeOK
<1>3. /\ net[1][Current] \in Value /\ net[2][Current] \in Value \cup {Absent}
      /\ net[1][Current] # Absent
  BY <1>1, ListTypes DEF ListedOnce, Current
<1>4. txM = {net[1][Current]} /\ txM \in {{v} : v \in Value}
  BY <1>1, <1>3 DEF Answered
<1>5. /\ wd = (txS = {}) /\ (net[2][Current] # Absent => txS = {net[2][Current]})
      /\ (txS \in {{v} : v \in Value} => net[2][Current] # Absent)
  BY <1>1 DEF Answered
<1>6. CASE wd
  BY <1>2, <1>5, <1>6
<1>7. CASE ~wd
  BY <1>2, <1>3, <1>4, <1>5, <1>7 DEF Difference
<1> QED BY <1>6, <1>7

LEMMA InitAnswered == Init => Answered
BY DEF Init, Answered

LEMMA ListAnswered ==
  ASSUME TypeOK, ListedOnce, Answered, NEW l \in Lists, List(l)
  PROVE  Answered'
<1>1. /\ hashes' = l /\ diffs' = [p \in DOMAIN l |-> "none"] /\ pc = "list" /\ pc' = "primary"
      /\ UNCHANGED <<net, number, i, attempt, txM, txS, wd, lagged, failures>>
  BY DEF List
<1>2. i = 1
  BY <1>1 DEF Answered
<1> QED BY <1>1, <1>2, ListType DEF Answered, Current

LEMMA GetAnswered ==
  ASSUME TypeOK, AttemptsLeft, ListedOnce, Answered,
         NEW v \in Value, NEW tx \in {{v}, {Blank}, {}}, GetPrimary(tx) \/ GetSecondary(tx)
  PROVE  Answered'
<1>1. /\ UNCHANGED <<net, number, hashes, i, attempt, diffs, failures>>
      /\ i \in DOMAIN hashes /\ Current \in Tx /\ Current' = Current
  BY ListTypes DEF GetPrimary, GetSecondary, Comparing, Current
<1>2. net[1][Current] \in Value
  BY <1>1, ListTypes DEF ListedOnce, Current
<1>3. lagged \subseteq lagged' /\ Retries' = Retries
  BY <1>1 DEF GetPrimary, GetSecondary, Lags, Retries
<1>4. \A p \in DOMAIN hashes : TrueOf(p) => TrueOf(p)'
  BY <1>1, <1>3 DEF TrueOf
<1>5. CASE GetPrimary(tx)
  <2>1. txM' = tx /\ pc' = "secondary" /\ lagged' = Lags(1, tx)
    BY <1>5 DEF GetPrimary
  <2>2. Current \notin lagged' => tx = {net[1][Current]}
    BY <1>2, <2>1, ComparatorAssumption DEF Lags
  <2> QED BY <1>1, <1>4, <2>1, <2>2 DEF Answered
<1>6. CASE GetSecondary(tx)
  <2>1. /\ txS' = tx /\ wd' = (tx = {}) /\ pc = "secondary" /\ pc' = "compare" /\ txM' = txM
        /\ lagged' = Lags(2, tx) /\ tx \in Answers(2)
    BY <1>6 DEF GetSecondary, Comparing
  <2>2. Current \notin lagged' /\ net[2][Current] # Absent => tx = {net[2][Current]}
    BY <2>1 DEF Lags
  <2>3. tx \in {{u} : u \in Value} => net[2][Current] # Absent
    BY <2>1, ComparatorAssumption DEF Answers
  <2> QED BY <1>1, <1>3, <1>4, <2>1, <2>2, <2>3 DEF Answered
<1> QED BY <1>5, <1>6

LEMMA FailAnswered ==
  ASSUME TypeOK, AttemptsLeft, ListedOnce, Answered, AttemptFails
  PROVE  Answered'
<1>1. /\ UNCHANGED <<net, number, hashes, i, diffs, lagged>> /\ pc' = "primary" /\ pc # "list"
      /\ i \in DOMAIN hashes /\ Current \in Tx /\ attempt' = attempt + 1
      /\ failures' = [failures EXCEPT ![Current] = @ + 1]
  BY ListTypes DEF AttemptFails, Asking, Comparing, Current
<1>2. \A p \in DOMAIN hashes : p # i => failures'[hashes[p]] = failures[hashes[p]]
  BY <1>1, ListTypes DEF ListedOnce, Current, TypeOK
<1>3. failures'[Current] = attempt' /\ Current' = Current /\ Retries' = Retries
  BY <1>1 DEF Answered, Current, TypeOK, Retries
<1>4. \A p \in DOMAIN hashes : p < i => (TrueOf(p) => TrueOf(p)')
  BY <1>1, <1>2, <1>3, ListTypes DEF TrueOf
<1> QED BY <1>1, <1>2, <1>3, <1>4, ListTypes DEF Answered

LEMMA NextTransactionAnswered ==
  ASSUME TypeOK, AttemptsLeft, ListedOnce, Answered, Compare \/ GiveUp
  PROVE  Answered'
<1>1. /\ UNCHANGED <<net, number, hashes, lagged, failures>> /\ pc' = "primary"
      /\ i' = i + 1 /\ attempt' = 0 /\ i \in DOMAIN hashes
      /\ \A p \in DOMAIN hashes : p # i => diffs'[p] = diffs[p]
  BY ListTypes DEF Compare, GiveUp, NextTransaction, AttemptsLeft, Comparing, TypeOK
<1>2. Retries' = Retries
  BY <1>1 DEF Retries
<1>3. ASSUME NEW p \in DOMAIN hashes, p = i PROVE TrueOf(p)'
  <2>1. CASE Compare
    <3>1. diffs'[i] # "none"
      BY <1>1, <2>1, ListTypes DEF Compare, Difference, TypeOK
    <3> QED BY <1>1, <1>3, <2>1, <3>1, ComparedTruly DEF TrueOf, Current
  <2>2. CASE GiveUp
    <3>1. attempt = Retries /\ diffs'[i] = "none"
      BY <1>1, <2>2, ListTypes DEF GiveUp, Answered, TypeOK
    <3>2. failures[hashes[p]] = Retries
      BY <1>1, <1>3, <3>1 DEF Answered, Current
    <3> QED BY <1>1, <1>2, <1>3, <3>1, <3>2 DEF TrueOf
  <2> QED BY <2>1, <2>2
<1>4. \A p \in DOMAIN hashes : p < i => TrueOf(p)'
  BY <1>1, <1>2, ListTypes DEF Answered, TrueOf
<1>5. \A p \in DOMAIN hashes : p < i' => TrueOf(p)'
  BY <1>1, <1>3, <1>4, ListTypes
<1>6. \A p \in DOMAIN hashes : p >= i' => diffs'[p] = "none" /\ failures[hashes[p]] = 0
  BY <1>1, ListTypes DEF Answered
<1> QED BY <1>1, <1>5, <1>6, ListTypes DEF Answered, Current

LEMMA StopAnswered ==
  ASSUME TypeOK, Answered, TooMany \/ ListFails \/ NilDereference \/ Report \/ ReportFails
  PROVE  Answered'
<1>1. /\ UNCHANGED <<net, number, hashes, i, attempt, txM, txS, wd, diffs, lagged, failures>>
      /\ pc' \in {"failed", "panicked", "done"} /\ (pc' = "done" => i > Len(hashes))
  BY DEF TooMany, ListFails, NilDereference, Report, ReportFails, Stops
<1>2. \A p \in DOMAIN hashes : TrueOf(p)' = TrueOf(p)
  BY <1>1 DEF TrueOf, Retries
<1> QED BY <1>1, <1>2 DEF Answered, Current

LEMMA NextAnswered ==
  TypeOK /\ AttemptsLeft /\ ListedOnce /\ Answered /\ [Next]_vars => Answered'
<1> SUFFICES ASSUME TypeOK, AttemptsLeft, ListedOnce, Answered, [Next]_vars PROVE Answered'
  OBVIOUS
<1>1. CASE UNCHANGED vars
  <2>1. \A p \in DOMAIN hashes : TrueOf(p)' = TrueOf(p)
    BY <1>1 DEF vars, TrueOf, Retries
  <2> QED BY <1>1, <2>1 DEF vars, Answered, Current
<1> QED BY <1>1, ListAnswered, GetAnswered, FailAnswered, NextTransactionAnswered, StopAnswered
    DEF Next

(* A report is true of every transaction that no network denied having.    *)
THEOREM ReportsAreTrue == Spec => []ReportIsTrue
<1>1. TypeOK /\ Answered => ReportIsTrue
  <2> SUFFICES ASSUME TypeOK, Answered, pc = "done", NEW p \in DOMAIN hashes PROVE TrueOf(p)
    BY DEF ReportIsTrue, TrueOf
  <2> QED BY ListTypes DEF Answered
<1> QED BY <1>1, TypedInOrder, InitAnswered, NextAnswered, PTL DEF Spec
=============================================================================
