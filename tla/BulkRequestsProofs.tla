------------------------- MODULE BulkRequestsProofs -------------------------
(* What a page of any size becomes, for any sources and any threshold.     *)
EXTENDS BulkRequests, TLAPS

LEMMA InitTypeOK == Init => TypeOK
<1> SUFFICES ASSUME Init PROVE TypeOK
  OBVIOUS
<1>1. hits \in Seq(Hit) /\ Len(hits) \in Nat
  <2> PICK n \in 0..MaxHits : hits \in [1..n -> Hit]
    BY DEF Init
  <2> QED BY LengthsAssumption
<1> QED BY <1>1 DEF Init, TypeOK, Buffer

LEMMA HitsTyped ==
  ASSUME TypeOK
  PROVE  /\ Len(hits) \in Nat /\ DOMAIN hits = 1..Len(hits)
         /\ \A p \in DOMAIN hits : hits[p].id \in Id
<1>1. Len(hits) \in Nat /\ DOMAIN hits = 1..Len(hits) /\ \A p \in DOMAIN hits : hits[p] \in Hit
  BY DEF TypeOK
<1> QED BY <1>1 DEF Hit

LEMMA BuffersTyped ==
  ASSUME TypeOK
  PROVE  /\ Len(buffers) \in Nat /\ DOMAIN buffers = 1..Len(buffers)
         /\ \A b \in DOMAIN buffers : buffers[b].ids \subseteq Id /\ buffers[b].len \in Nat
<1>1. /\ Len(buffers) \in Nat /\ DOMAIN buffers = 1..Len(buffers)
      /\ \A b \in DOMAIN buffers : buffers[b] \in Buffer
  BY DEF TypeOK
<1> QED BY <1>1 DEF Buffer

(* A key of the map has a source, and a length.                            *)
LEMMA SourceOf ==
  ASSUME TypeOK, NEW id \in Id, resultsMap[id] # 0
  PROVE  /\ resultsMap[id] \in DOMAIN hits
         /\ hits[resultsMap[id]].len \in Nat
         /\ Written(MetaLen[id], hits[resultsMap[id]].len) \in Nat \ {0}
<1>1. resultsMap[id] \in DOMAIN hits
  BY DEF TypeOK
<1>2. hits[resultsMap[id]] \in Hit
  BY <1>1 DEF TypeOK
<1>3. hits[resultsMap[id]].len \in Nat
  BY <1>2, LengthsAssumption DEF Hit
<1>4. MetaLen[id] \in Nat \ {0}
  BY LengthsAssumption
<1> QED BY <1>1, <1>3, <1>4 DEF Written

LEMMA StartedType ==
  ASSUME TypeOK
  PROVE  Started \in Seq(Buffer) /\ Len(Started) \in Nat \ {0}
<1>1. CASE buffers = <<>>
  <2>1. Started = <<[ids |-> {}, len |-> 0]>>
    BY <1>1 DEF Started
  <2>2. [ids |-> {}, len |-> 0] \in Buffer
    BY DEF Buffer
  <2> QED BY <2>1, <2>2
<1>2. CASE buffers # <<>>
  BY <1>2 DEF Started, TypeOK
<1> QED BY <1>1, <1>2

(* The map keeps the last hit of every id among the hits it has seen, its  *)
(* keys are put one by one, and the buffers hold keys.                     *)
MapKeepsLast ==
  /\ pc # "extract" => pos = Len(hits) + 1
  /\ \A p \in 1..(pos - 1) :
       /\ resultsMap[hits[p].id] # 0
       /\ (\A q \in 1..(pos - 1) : q > p => hits[q].id # hits[p].id)
            => resultsMap[hits[p].id] = p

KeysOnly ==
  /\ pc = "extract" => buffers = <<>>
  /\ toPut \subseteq {id \in Id : resultsMap[id] # 0}
  /\ \A b \in DOMAIN buffers : buffers[b].ids \subseteq {id \in Id : resultsMap[id] # 0}

(* The requests sent so far wrote what their buffers hold.                 *)
SentIsWritten ==
  /\ pc \in {"extract", "put"} => next = 1
  /\ pc \in {"send", "done", "failed"} => toPut = {}
  /\ pc = "done" => next > Len(buffers)
  /\ \A b \in DOMAIN buffers : b < next =>
       \A id \in buffers[b].ids : written[id] = resultsMap[id]

BulkInvariant ==
  TypeOK /\ MapKeepsLast /\ KeysOnly /\ SentIsWritten
    /\ DocumentsInOneRequest /\ RequestsBounded

LEMMA InitInvariant == Init => BulkInvariant
BY InitTypeOK DEF Init, BulkInvariant, MapKeepsLast, KeysOnly, SentIsWritten,
   DocumentsInOneRequest, RequestsBounded

LEMMA ExtractKeeps == BulkInvariant /\ Extract => BulkInvariant'
<1> SUFFICES ASSUME BulkInvariant, Extract PROVE BulkInvariant'
  OBVIOUS
<1> USE DEF BulkInvariant
<1>1. /\ pc = "extract" /\ pos \in 1..Len(hits) /\ Len(hits) \in Nat
      /\ hits[pos].id \in Id
      /\ resultsMap' = [resultsMap EXCEPT ![hits[pos].id] = pos] /\ pos' = pos + 1
      /\ UNCHANGED <<hits, toPut, buffers, next, written, pc>>
  BY HitsTyped DEF Extract, TypeOK
<1>2. TypeOK'
  BY <1>1 DEF TypeOK
<1>3. \A p \in 1..pos : hits[p].id \in Id
  BY <1>1, HitsTyped
<1>4. MapKeepsLast'
  <2> SUFFICES ASSUME NEW p \in 1..pos
               PROVE  /\ resultsMap'[hits[p].id] # 0
                      /\ (\A q \in 1..pos : q > p => hits[q].id # hits[p].id)
                           => resultsMap'[hits[p].id] = p
    BY <1>1 DEF MapKeepsLast
  <2>1. CASE hits[p].id = hits[pos].id
    BY <1>1, <1>3, <2>1 DEF TypeOK
  <2>2. CASE hits[p].id # hits[pos].id
    <3>1. p \in 1..(pos - 1) /\ resultsMap'[hits[p].id] = resultsMap[hits[p].id]
      BY <1>1, <1>3, <2>2 DEF TypeOK
    <3> QED BY <3>1, <1>1 DEF MapKeepsLast
  <2> QED BY <2>1, <2>2
<1>5. KeysOnly'
  BY <1>1 DEF KeysOnly, TypeOK
<1>6. SentIsWritten' /\ DocumentsInOneRequest' /\ RequestsBounded'
  BY <1>1 DEF SentIsWritten, DocumentsInOneRequest, RequestsBounded, KeysOnly
<1> QED BY <1>2, <1>4, <1>5, <1>6

LEMMA PutDataKeeps ==
  ASSUME BulkInvariant, NEW id \in Id, PutData(id)
  PROVE  BulkInvariant'
<1> USE DEF BulkInvariant
<1> DEFINE data == hits[resultsMap[id]].len
           size == Written(MetaLen[id], data)
           cur  == Len(Started)
           full == ANewElementIsNeeded(Started[cur].len, MetaLen[id], data)
<1>1. /\ pc = "put" /\ id \in toPut /\ toPut' = toPut \ {id}
      /\ buffers' = IF full THEN Append(Started, [ids |-> {id}, len |-> size])
                    ELSE [Started EXCEPT ![cur] = [ids |-> @.ids \cup {id}, len |-> @.len + size]]
      /\ UNCHANGED <<hits, pos, resultsMap, next, written, pc>>
  BY DEF PutData
<1>2. resultsMap[id] # 0
  BY <1>1 DEF KeysOnly
<1>3. data \in Nat /\ size \in Nat \ {0} /\ MetaLen[id] \in Nat
  BY <1>2, SourceOf, LengthsAssumption
<1>4. Started \in Seq(Buffer) /\ cur \in Nat \ {0} /\ Started[cur] \in Buffer
  BY StartedType
<1>5. /\ DOMAIN buffers \subseteq DOMAIN Started
      /\ \A b \in DOMAIN Started : Started[b].ids # {} => b \in DOMAIN buffers
      /\ \A b \in DOMAIN buffers : Started[b] = buffers[b]
  BY DEF Started, TypeOK
<1>6. CASE full
  <2>1. /\ buffers' = Append(Started, [ids |-> {id}, len |-> size])
        /\ Started[cur].len # 0
    BY <1>1, <1>6 DEF ANewElementIsNeeded
  <2>2. Started = buffers
    BY <2>1 DEF Started
  <2>3. /\ DOMAIN buffers' = DOMAIN buffers \cup {cur + 1} /\ cur + 1 \notin DOMAIN buffers
        /\ buffers'[cur + 1] = [ids |-> {id}, len |-> size]
        /\ \A b \in DOMAIN buffers : buffers'[b] = buffers[b]
    BY <1>4, <2>1, <2>2
  <2>4. [ids |-> {id}, len |-> size] \in Buffer
    BY <1>3 DEF Buffer
  <2>5. TypeOK'
    BY <1>1, <1>4, <2>1, <2>4 DEF TypeOK
  <2>6. MapKeepsLast' /\ KeysOnly'
    BY <1>1, <1>2, <2>3 DEF MapKeepsLast, KeysOnly
  <2>7. SentIsWritten'
    BY <1>1, <2>3, <1>4 DEF SentIsWritten
  <2>8. DocumentsInOneRequest'
    BY <1>1, <2>3 DEF DocumentsInOneRequest
  <2>9. RequestsBounded'
    <3>1. buffers'[cur + 1].ids = {id} /\ buffers'[cur + 1].len > 0
      BY <1>3, <2>3
    <3> QED BY <2>3, <3>1 DEF RequestsBounded
  <2> QED BY <2>5, <2>6, <2>7, <2>8, <2>9
<1>7. CASE ~full
  <2>1. /\ DOMAIN buffers' = DOMAIN Started
        /\ buffers'[cur].ids = Started[cur].ids \cup {id}
        /\ buffers'[cur].len = Started[cur].len + size
        /\ \A b \in DOMAIN Started : b # cur => buffers'[b] = Started[b]
    BY <1>1, <1>4, <1>7
  <2>2. [ids |-> Started[cur].ids \cup {id}, len |-> Started[cur].len + size] \in Buffer
    BY <1>3, <1>4 DEF Buffer
  <2>3. buffers' \in Seq(Buffer)
    BY <1>1, <1>4, <1>7, <2>2
  <2>4. TypeOK'
    BY <1>1, <2>3 DEF TypeOK
  <2>5. \A b \in DOMAIN Started : Started[b].ids # {} \/ b = cur
    BY <1>4 DEF Started, RequestsBounded
  <2>6. MapKeepsLast'
    BY <1>1 DEF MapKeepsLast
  <2>7. KeysOnly'
    <3>1. \A b \in DOMAIN Started : Started[b].ids \subseteq {i \in Id : resultsMap[i] # 0}
      BY <1>5 DEF KeysOnly, Started
    <3> QED BY <3>1, <1>1, <1>2, <2>1, <1>4 DEF KeysOnly
  <2>8. SentIsWritten'
    BY <1>1, <2>1, <1>4 DEF SentIsWritten
  <2>9. DocumentsInOneRequest'
    <3>1. \A b, c \in DOMAIN Started : b # c => Started[b].ids \cap Started[c].ids = {}
      BY <1>4, <1>5 DEF DocumentsInOneRequest, Started
    <3>2. \A b \in DOMAIN Started : Started[b].ids \cap toPut = {}
      BY <1>5 DEF DocumentsInOneRequest, Started
    <3>3. \A b, c \in DOMAIN buffers' : b # c => buffers'[b].ids \cap buffers'[c].ids = {}
      BY <1>1, <1>4, <2>1, <3>1, <3>2
    <3>4. \A b \in DOMAIN buffers' : buffers'[b].ids \cap toPut' = {}
      BY <1>1, <1>4, <2>1, <3>2
    <3>5. \A i \in Id : resultsMap'[i] # 0 =>
            i \in toPut' \/ \E b \in DOMAIN buffers' : i \in buffers'[b].ids
      BY <1>1, <1>4, <1>5, <2>1 DEF DocumentsInOneRequest
    <3> QED BY <3>3, <3>4, <3>5 DEF DocumentsInOneRequest
  <2>10. RequestsBounded'
    <3>1. buffers'[cur].len <= Threshold + 1 \/ buffers'[cur].ids = {id}
      <4>1. CASE Started[cur].len = 0
        <5>1. Started[cur].ids = {}
          BY <1>4, <4>1 DEF Started, RequestsBounded
        <5> QED BY <5>1, <2>1
      <4>2. CASE Started[cur].len # 0
        <5>1. Started[cur].len \in Nat /\ Threshold \in Nat
          BY <1>4, LengthsAssumption DEF Buffer
        <5> QED BY <1>3, <1>7, <2>1, <4>2, <5>1 DEF ANewElementIsNeeded, Written
      <4> QED BY <4>1, <4>2
    <3>2. buffers'[cur].len > 0 /\ buffers'[cur].ids # {}
      BY <1>3, <1>4, <2>1 DEF Buffer
    <3>3. \A b \in DOMAIN Started : b # cur =>
            b \in DOMAIN buffers /\ Started[b] = buffers[b]
      BY <1>5, <2>5
    <3> QED BY <2>1, <3>1, <3>2, <3>3 DEF RequestsBounded
  <2> QED BY <2>4, <2>6, <2>7, <2>8, <2>9, <2>10
<1> QED BY <1>6, <1>7

(* The steps that neither read a hit nor fill a buffer.                    *)
LEMMA OthersKeep ==
  ASSUME BulkInvariant, Extracted \/ Prepared \/ Send \/ SendFails \/ Handled \/ UNCHANGED vars
  PROVE  BulkInvariant'
<1> USE DEF BulkInvariant
<1>1. CASE Extracted
  <2>1. MapKeepsLast'
    BY <1>1 DEF Extracted, MapKeepsLast, TypeOK
  <2> QED BY <1>1, <2>1 DEF Extracted, TypeOK, KeysOnly, SentIsWritten, DocumentsInOneRequest,
                 RequestsBounded
<1>2. CASE Prepared
  <2>1. TypeOK'
    BY <1>2 DEF Prepared, TypeOK
  <2>2. MapKeepsLast' /\ KeysOnly' /\ SentIsWritten'
    BY <1>2 DEF Prepared, MapKeepsLast, KeysOnly, SentIsWritten
  <2>3. DocumentsInOneRequest' /\ RequestsBounded'
    BY <1>2 DEF Prepared, DocumentsInOneRequest, RequestsBounded
  <2> QED BY <2>1, <2>2, <2>3
<1>3. CASE Send \/ SendFails
  <2> PICK ids \in SUBSET Id :
        /\ ids \subseteq buffers[next].ids /\ Execute(ids)
        /\ pc = "send" /\ pc' \in {"send", "failed"} /\ next \in DOMAIN buffers
        /\ next' = next \/ (next' = next + 1 /\ ids = buffers[next].ids)
        /\ UNCHANGED <<hits, pos, resultsMap, toPut, buffers>>
    <3>1. pc = "send" /\ next \in DOMAIN buffers /\ buffers[next].ids \subseteq Id
      BY <1>3, BuffersTyped DEF Send, SendFails, TypeOK
    <3>2. CASE Send
      BY <3>1, <3>2 DEF Send
    <3>3. CASE SendFails
      <4> PICK ids \in SUBSET buffers[next].ids : Execute(ids)
        BY <3>3 DEF SendFails
      <4>1. pc' = "failed" /\ UNCHANGED <<hits, pos, resultsMap, toPut, buffers, next>>
        BY <3>3 DEF SendFails
      <4>2. ids \in SUBSET Id /\ ids \subseteq buffers[next].ids
        BY <3>1
      <4> QED BY <3>1, <4>1, <4>2
    <3> QED BY <1>3, <3>2, <3>3
  <2>1. \A id \in Id : written'[id] = IF id \in ids THEN resultsMap[id] ELSE written[id]
    BY DEF Execute
  <2>2. TypeOK'
    BY DEF TypeOK, Execute
  <2>3. SentIsWritten'
    <3> SUFFICES ASSUME NEW b \in DOMAIN buffers, b < next', NEW id \in buffers[b].ids
                 PROVE  written'[id] = resultsMap[id]
      BY DEF SentIsWritten
    <3>1. id \in Id
      BY BuffersTyped
    <3>2. b < next \/ (b = next /\ ids = buffers[next].ids)
      BY BuffersTyped DEF TypeOK
    <3> QED BY <2>1, <3>1, <3>2 DEF SentIsWritten
  <2>4. MapKeepsLast' /\ KeysOnly' /\ DocumentsInOneRequest' /\ RequestsBounded'
    BY DEF MapKeepsLast, KeysOnly, DocumentsInOneRequest, RequestsBounded
  <2> QED BY <2>2, <2>3, <2>4
<1>4. CASE Handled
  <2>1. TypeOK'
    BY <1>4 DEF Handled, TypeOK
  <2>2. MapKeepsLast' /\ KeysOnly' /\ SentIsWritten'
    BY <1>4 DEF Handled, MapKeepsLast, KeysOnly, SentIsWritten
  <2>3. DocumentsInOneRequest' /\ RequestsBounded'
    BY <1>4 DEF Handled, DocumentsInOneRequest, RequestsBounded
  <2> QED BY <2>1, <2>2, <2>3
<1>5. CASE UNCHANGED vars
  <2>1. TypeOK' /\ MapKeepsLast'
    BY <1>5 DEF vars, TypeOK, MapKeepsLast
  <2>2. KeysOnly' /\ SentIsWritten' /\ DocumentsInOneRequest' /\ RequestsBounded'
    BY <1>5 DEF vars, KeysOnly, SentIsWritten, DocumentsInOneRequest, RequestsBounded
  <2> QED BY <2>1, <2>2
<1> QED BY <1>1, <1>2, <1>3, <1>4, <1>5

THEOREM BulkInvariantHolds == Spec => []BulkInvariant
<1>1. BulkInvariant /\ [Next]_vars => BulkInvariant'
  BY ExtractKeeps, PutDataKeeps, OthersKeep DEF Next
<1> QED BY <1>1, InitInvariant, PTL DEF Spec

(* However the lengths fall, the buffers of a page partition its documents.*)
THEOREM RequestsPartitionPage == Spec => []DocumentsInOneRequest
BY BulkInvariantHolds, PTL DEF BulkInvariant

(* No request is empty, and only one with a single document exceeds the    *)
(* threshold by more than a newline.                                       *)
THEOREM RequestsAreBounded == Spec => []RequestsBounded
BY BulkInvariantHolds, PTL DEF BulkInvariant

(* A handler that returns nil has written the page.                        *)
THEOREM HandledPageIsWritten == Spec => []PageIsWritten
<1>1. BulkInvariant => PageIsWritten
  <2> SUFFICES ASSUME BulkInvariant, pc = "done", NEW p \in DOMAIN hits,
                      \A q \in DOMAIN hits : q > p => hits[q].id # hits[p].id
               PROVE  written[hits[p].id] = p
    BY DEF PageIsWritten
  <2>1. DOMAIN hits = 1..(pos - 1) /\ hits[p].id \in Id
    BY HitsTyped DEF BulkInvariant, TypeOK, MapKeepsLast
  <2>2. resultsMap[hits[p].id] = p /\ p # 0
    BY <2>1 DEF BulkInvariant, MapKeepsLast, TypeOK
  <2>3. PICK b \in DOMAIN buffers : hits[p].id \in buffers[b].ids
    BY <2>1, <2>2 DEF BulkInvariant, DocumentsInOneRequest, SentIsWritten
  <2>4. b < next
    BY DEF BulkInvariant, SentIsWritten, TypeOK
  <2> QED BY <2>2, <2>3, <2>4 DEF BulkInvariant, SentIsWritten
<1> QED BY <1>1, BulkInvariantHolds, PTL
=============================================================================
