---------------------------- MODULE BulkRequests ----------------------------
(***************************************************************************)
(* One page of a scroll becomes bulk requests: prepareDataForIndexing and  *)
(* the loop over its buffers in the handlers of process/reindexer.go, with *)
(* bufferSlice of process/buffer.go.                                       *)
(*                                                                         *)
(* A hit is its id and the length of its source; a buffer is the set of    *)
(* ids it holds and its length in bytes.                                   *)
(***************************************************************************)
EXTENDS Integers, Sequences, FiniteSets

CONSTANTS
  Id,          \* document ids
  MetaLen,     \* [Id -> length of the line that names the document]
  SourceLens,  \* lengths a source may have
  Threshold,   \* bulkSizeThreshold
  MaxHits      \* bound on the hits of the page, 9000 in the code

ASSUME LengthsAssumption ==
  /\ MetaLen \in [Id -> Nat \ {0}]
  /\ SourceLens \subseteq Nat
  /\ Threshold \in Nat
  /\ MaxHits \in Nat

Hit == [id : Id, len : SourceLens]
Buffer == [ids : SUBSET Id, len : Nat]

VARIABLES
  hits,        \* the hits of the page
  pos,         \* the next hit of extractSourceFromEsResponse
  resultsMap,  \* [Id -> the hit the map holds], 0: none
  toPut,       \* keys of resultsMap that the range loop has not reached
  buffers,     \* buffSlice; its last one is the current one
  next,        \* number of the next buffer to be sent
  written,     \* [Id -> the hit the destination holds], 0: none
  pc           \* "extract", "put", "send", "done" or "failed"

vars == <<hits, pos, resultsMap, toPut, buffers, next, written, pc>>

Init ==
  /\ hits \in UNION {[1..n -> Hit] : n \in 0..MaxHits}
  /\ pos = 1 /\ resultsMap = [id \in Id |-> 0]
  /\ toPut = {} /\ buffers = <<>> /\ next = 1
  /\ written = [id \in Id |-> 0]
  /\ pc = "extract"

(* extractSourceFromEsResponse fills a map in the order of the hits: of    *)
(* two hits with one id, of two indices behind the alias, the last stays.  *)
Extract ==
  /\ pc = "extract" /\ pos <= Len(hits)
  /\ resultsMap' = [resultsMap EXCEPT ![hits[pos].id] = pos]
  /\ pos' = pos + 1
  /\ UNCHANGED <<hits, toPut, buffers, next, written, pc>>

Extracted ==
  /\ pc = "extract" /\ pos > Len(hits)
  /\ toPut' = {id \in Id : resultsMap[id] # 0}
  /\ pc' = "put"
  /\ UNCHANGED <<hits, pos, resultsMap, buffers, next, written>>

(* Mutant: the source does not count.                                      *)
MetaNeedsElement(current, meta, data) == current + meta > Threshold /\ current # 0

(* aNewElementIsNeeded, by the length of the current buffer.               *)
ANewElementIsNeeded(current, meta, data) ==
  current + meta + data > Threshold /\ current # 0

(* What PutData writes: a source gets a newline, which was not counted.    *)
Written(meta, data) == meta + data + IF data > 0 THEN 1 ELSE 0

(* The buffers when PutData begins to write: there is at least one.        *)
Started == IF buffers = <<>> THEN <<[ids |-> {}, len |-> 0]>> ELSE buffers

(* Mutant: the full buffer is started anew instead of a further one.       *)
ResetBuffer(id) ==
  LET data == hits[resultsMap[id]].len
      cur == Len(Started)
      room == ~ANewElementIsNeeded(Started[cur].len, MetaLen[id], data)
  IN /\ pc = "put" /\ id \in toPut
     /\ toPut' = toPut \ {id}
     /\ buffers' = [Started EXCEPT ![cur] =
          [ids |-> (IF room THEN @.ids ELSE {}) \cup {id},
           len |-> (IF room THEN @.len ELSE 0) + Written(MetaLen[id], data)]]
     /\ UNCHANGED <<hits, pos, resultsMap, next, written, pc>>

(* PutData for one element of the map, whose order is random.              *)
PutData(id) ==
  LET data == hits[resultsMap[id]].len
      size == Written(MetaLen[id], data)
      cur == Len(Started)
  IN /\ pc = "put" /\ id \in toPut
     /\ toPut' = toPut \ {id}
     /\ buffers' =
          IF ANewElementIsNeeded(Started[cur].len, MetaLen[id], data)
            THEN Append(Started, [ids |-> {id}, len |-> size])
            ELSE [Started EXCEPT ![cur] = [ids |-> @.ids \cup {id}, len |-> @.len + size]]
     /\ UNCHANGED <<hits, pos, resultsMap, next, written, pc>>

(* prepareDataForIndexing returns the buffers.                             *)
Prepared ==
  /\ pc = "put" /\ toPut = {}
  /\ pc' = "send"
  /\ UNCHANGED <<hits, pos, resultsMap, toPut, buffers, next, written>>

Execute(ids) == written' = [id \in Id |-> IF id \in ids THEN resultsMap[id] ELSE written[id]]

(* DoBulkRequest for the next buffer, answered without errors.             *)
Send ==
  /\ pc = "send" /\ next <= Len(buffers)
  /\ Execute(buffers[next].ids)
  /\ next' = next + 1
  /\ UNCHANGED <<hits, pos, resultsMap, toPut, buffers, pc>>

(* The request fails, or some of its operations do, or its answer is lost: *)
(* the handler returns the error, and no further buffer is sent.           *)
SendFails ==
  /\ pc = "send" /\ next <= Len(buffers)
  /\ \E ids \in SUBSET buffers[next].ids : Execute(ids)
  /\ pc' = "failed"
  /\ UNCHANGED <<hits, pos, resultsMap, toPut, buffers, next>>

(* Mutant: the loop over the buffers stops before the last one.            *)
HandledEarly ==
  /\ pc = "send" /\ next >= Len(buffers)
  /\ pc' = "done"
  /\ UNCHANGED <<hits, pos, resultsMap, toPut, buffers, next, written>>

(* The handler returns nil.                                                *)
Handled ==
  /\ pc = "send" /\ next > Len(buffers)
  /\ pc' = "done"
  /\ UNCHANGED <<hits, pos, resultsMap, toPut, buffers, next, written>>

Next ==
  \/ Extract \/ Extracted \/ (\E id \in Id : PutData(id)) \/ Prepared \/ Send \/ SendFails \/ Handled

Spec == Init /\ [][Next]_vars

-----------------------------------------------------------------------------
TypeOK ==
  /\ hits \in Seq(Hit) /\ pos \in 1..(Len(hits) + 1)
  /\ resultsMap \in [Id -> 0..Len(hits)]
  /\ toPut \in SUBSET Id
  /\ buffers \in Seq(Buffer) /\ next \in Nat \ {0}
  /\ written \in [Id -> Nat]
  /\ pc \in {"extract", "put", "send", "done", "failed"}

(* The splitting neither loses a document nor puts one into two requests:  *)
(* each id of the map is yet to be put, or is in exactly one buffer.       *)
DocumentsInOneRequest ==
  /\ pc # "extract" => \A id \in Id : resultsMap[id] # 0 =>
       id \in toPut \/ \E b \in DOMAIN buffers : id \in buffers[b].ids
  /\ \A b \in DOMAIN buffers : buffers[b].ids \cap toPut = {}
  /\ \A b, c \in DOMAIN buffers : b # c => buffers[b].ids \cap buffers[c].ids = {}

(* A handler that returns nil has every document of the page written, in   *)
(* the version of its last hit, however many requests the page took.       *)
PageIsWritten ==
  pc = "done" => \A p \in DOMAIN hits :
    (\A q \in DOMAIN hits : q > p => hits[q].id # hits[p].id) => written[hits[p].id] = p

(* No request is empty, which Elasticsearch would refuse, and one of two   *)
(* documents or more exceeds the threshold by no more than the newline     *)
(* that aNewElementIsNeeded did not count.                                 *)
RequestsBounded ==
  \A b \in DOMAIN buffers :
    /\ buffers[b].ids # {} /\ buffers[b].len > 0
    /\ buffers[b].len <= Threshold + 1 \/ \E id \in Id : buffers[b].ids = {id}

(* A statement of the repository that the code does not keep: buffer.go    *)
(* calls the threshold "the maximum size of one bulk request".  Read as a  *)
(* limit on the requests of two documents or more, which could have been   *)
(* split.                                                                  *)
RequestsWithinThreshold ==
  \A b \in DOMAIN buffers :
    buffers[b].len <= Threshold \/ \E id \in Id : buffers[b].ids = {id}
=============================================================================
