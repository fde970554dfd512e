----------------------------- MODULE TokenBulks -----------------------------
(***************************************************************************)
(* tokensRemover/metaDataRemover/tokenSorting.go: the tokens of a shard    *)
(* become intervals of nonces, and the intervals are packed into bulks of  *)
(* tokensToDeletePerTransaction nonces, one transaction per bulk.          *)
(*                                                                         *)
(* A token is written <ID>-<nonce>; a nonce may be written in several      *)
(* forms ("0a" and "a"), and a token may be malformed. IDs are numbers in  *)
(* the order of the strings. Nonces stay below 2^63.                       *)
(***************************************************************************)
EXTENDS Integers, Sequences, FiniteSets

CONSTANTS
  TokenID, Form,
  TokenLists, \* the lists of tokens that may be given
  BulkSizes   \* what may be configured

Written == [id : TokenID, nonce : Nat, form : Form, valid : BOOLEAN]

ASSUME BulksAssumption ==
  /\ TokenID \subseteq Nat
  /\ TokenLists \subseteq SUBSET Written
  /\ BulkSizes \subseteq Nat \ {0}

Interval == [id : TokenID, start : Nat, end : Nat]
Length(i) == i.end - i.start + 1

VARIABLES
  tokens, bulkSize,  \* the input
  rest,      \* tokens that getIntervals did not reach
  walk,      \* the interval it walks along: {} or one [id, start, num, last]
  pending,   \* intervals, whole, that are in no bulk
  cur,       \* {}, or what is left of the interval that was split last
  placed,    \* the parts of the bulks, in the order they were placed
  bulk,      \* the number of the current bulk
  inBulk,    \* numNoncesInBulk
  pc

given == <<tokens, bulkSize>>
packing == <<placed, bulk, inBulk>>
bulksVars == <<given, rest, walk, pending, cur, packing, pc>>

BulksInit ==
  /\ tokens \in TokenLists /\ bulkSize \in BulkSizes
  /\ rest = tokens /\ walk = {} /\ pending = {} /\ cur = {}
  /\ placed = <<>> /\ bulk = 1 /\ inBulk = 0 /\ pc = "parse"

(* sortTokensIDByNonce: one malformed token refuses the list.              *)
Parse ==
  /\ pc = "parse"
  /\ pc' = IF \A w \in tokens : w.valid THEN "group" ELSE "refused"
  /\ UNCHANGED <<given, rest, walk, pending, cur, packing>>

(* getIntervals goes through the nonces of an ID in ascending order.       *)
Smallest(w) == \A v \in rest : v.id = w.id => w.nonce <= v.nonce

BeginInterval(w) ==
  /\ pc = "group" /\ walk = {} /\ w \in rest /\ Smallest(w)
  /\ walk' = {[id |-> w.id, start |-> w.nonce, num |-> 0, last |-> w.nonce]}
  /\ rest' = rest \ {w}
  /\ UNCHANGED <<given, pending, cur, packing, pc>>

(* The next nonce is consecutive, or the same one in another form.         *)
Consecutive(i, w) == w.id = i.id /\ w.nonce - i.last <= 1

Walk(i, w) ==
  /\ pc = "group" /\ i \in walk /\ w \in rest /\ Smallest(w) /\ Consecutive(i, w)
  /\ walk' = {[id |-> i.id, start |-> i.start, num |-> i.num + 1, last |-> w.nonce]}
  /\ rest' = rest \ {w}
  /\ UNCHANGED <<given, pending, cur, packing, pc>>

(* Mutant: idx stays on the last nonce of an interval that a gap ended, so *)
(* that the next interval begins with the same nonce, for ever.            *)
EndIntervalStays(i) ==
  /\ pc = "group" /\ i \in walk
  /\ \A w \in rest : Smallest(w) => ~Consecutive(i, w)
  /\ pending' = pending \cup {[id |-> i.id, start |-> i.start, end |-> i.start + i.num]}
  /\ walk' = {}
  /\ rest' = IF \E v \in rest : v.id = i.id
               THEN rest \cup {w \in tokens : w.id = i.id /\ w.nonce = i.last}
               ELSE rest
  /\ UNCHANGED <<given, cur, packing, pc>>

EndInterval(i) ==
  /\ pc = "group" /\ i \in walk
  /\ \A w \in rest : Smallest(w) => ~Consecutive(i, w)
  /\ pending' = pending \cup {[id |-> i.id, start |-> i.start, end |-> i.start + i.num]}
  /\ walk' = {}
  /\ UNCHANGED <<given, rest, cur, packing, pc>>

Grouped ==
  /\ pc = "group" /\ rest = {} /\ walk = {}
  /\ pc' = IF pending = {} THEN "done" ELSE "pack"
  /\ UNCHANGED <<given, rest, walk, pending, cur, packing>>

-----------------------------------------------------------------------------
(* sortTokenIntervalsByMaxConsecutiveNonces: long intervals come first,    *)
(* those of one length by their ID, those of one ID by their start.        *)
Before(i, j) ==
  \/ Length(i) > Length(j)
  \/ Length(i) = Length(j) /\ i.id < j.id
  \/ Length(i) = Length(j) /\ i.id = j.id /\ i.start <= j.start

(* The interval at index: what a split inserted comes next.                *)
AtIndex(i) ==
  \/ i \in cur
  \/ cur = {} /\ i \in pending /\ \A j \in pending : Before(i, j)

Taken(i) == pending' = IF cur = {} THEN pending \ {i} ELSE pending

AvailableSlots == bulkSize - inBulk

(* The interval, or its first part, is placed in the current bulk, which   *)
(* is closed when it is full or when nothing is left.                      *)
Place(part, nothingLeft) ==
  /\ placed' = Append(placed, [id |-> part.id, start |-> part.start, end |-> part.end,
                               bulk |-> bulk])
  /\ LET num == inBulk + Length(part) IN
     IF num = bulkSize \/ nothingLeft
       THEN bulk' = bulk + 1 /\ inBulk' = 0
       ELSE bulk' = bulk /\ inBulk' = num
  /\ pc' = IF nothingLeft THEN "done" ELSE "pack"
  /\ UNCHANGED <<given, rest, walk>>

PlaceWhole(i) ==
  /\ pc = "pack" /\ AtIndex(i) /\ AvailableSlots >= Length(i)
  /\ Taken(i) /\ cur' = {}
  /\ Place(i, pending' = {})

(* Mutant: the second part starts one nonce too late.                      *)
SplitSkips(i) ==
  /\ pc = "pack" /\ AtIndex(i) /\ AvailableSlots < Length(i)
  /\ Taken(i)
  /\ cur' = {[i EXCEPT !.start = @ + AvailableSlots + 1]}
  /\ Place([i EXCEPT !.end = i.start + AvailableSlots - 1], FALSE)

(* Mutant: the second part starts with the last nonce of the first one.    *)
SplitOverlaps(i) ==
  /\ pc = "pack" /\ AtIndex(i) /\ AvailableSlots < Length(i)
  /\ Taken(i)
  /\ cur' = {[i EXCEPT !.start = @ + AvailableSlots - 1]}
  /\ Place([i EXCEPT !.end = i.start + AvailableSlots - 1], FALSE)

(* Mutant: an interval that does not fit is placed all the same.           *)
NoSplit(i) ==
  /\ pc = "pack" /\ AtIndex(i) /\ AvailableSlots < Length(i)
  /\ Taken(i) /\ cur' = {}
  /\ Place(i, pending' = {})

Split(i) ==
  /\ pc = "pack" /\ AtIndex(i) /\ AvailableSlots < Length(i)
  /\ Taken(i)
  /\ cur' = {[i EXCEPT !.start = @ + AvailableSlots]}
  /\ Place([i EXCEPT !.end = i.start + AvailableSlots - 1], FALSE)

Intervals == pending \cup cur

BulksNext ==
  \/ Parse \/ Grouped
  \/ \E w \in rest : BeginInterval(w) \/ \E i \in walk : Walk(i, w)
  \/ \E i \in walk : EndInterval(i)
  \/ \E i \in Intervals : PlaceWhole(i) \/ Split(i)

(* The function runs alone, so that it takes each step it can.             *)
BulksSpec == BulksInit /\ [][BulksNext]_bulksVars /\ WF_bulksVars(BulksNext)

-----------------------------------------------------------------------------
BulksTypeOK ==
  /\ tokens \in TokenLists /\ bulkSize \in BulkSizes /\ rest \in SUBSET tokens
  /\ walk \in SUBSET [id : TokenID, start : Nat, num : Nat, last : Nat]
  /\ pending \in SUBSET Interval /\ cur \in SUBSET Interval
  /\ placed \in Seq([id : TokenID, start : Nat, end : Nat, bulk : Nat \ {0}])
  /\ bulk \in Nat \ {0} /\ inBulk \in 0..(bulkSize - 1)
  /\ pc \in {"parse", "group", "pack", "done", "refused"}

Covers(i, id, n) == i.id = id /\ n \in i.start..i.end

(* No token of the list is forgotten, whatever forms it is written in and  *)
(* however the intervals are split over the bulks.                         *)
ListedAreDeleted ==
  pc = "done" => \A w \in tokens : \E p \in DOMAIN placed : Covers(placed[p], w.id, w.nonce)

(* If no nonce is written twice: only listed nonces are deleted, and each  *)
(* in one place of one bulk, at every moment.                              *)
WrittenOnce == \A v, w \in tokens : v.id = w.id /\ v.nonce = w.nonce => v = w
OnlyListedOnce ==
  WrittenOnce =>
    \A p \in DOMAIN placed : \A n \in placed[p].start..placed[p].end :
      /\ \E w \in tokens : w.id = placed[p].id /\ w.nonce = n
      /\ \A q \in DOMAIN placed : Covers(placed[q], placed[p].id, n) => q = p

(* The nonces of a bulk, told apart by the parts they are placed in.       *)
Slots(b) == UNION {{p} \X (placed[p].start..placed[p].end) :
                     p \in {q \in DOMAIN placed : placed[q].bulk = b}}

(* Every bulk that was closed has as many nonces as configured, but for    *)
(* the last one, which has at most as many and is not empty.               *)
BulksAreFull ==
  \A b \in 1..(bulk - 1) :
    /\ Cardinality(Slots(b)) = bulkSize \/ (pc = "done" /\ b = bulk - 1)
    /\ Cardinality(Slots(b)) \in 1..bulkSize

(* The grouping and the packing end: the index moves past every interval,  *)
(* although two loops share it in the one, and although a split makes the  *)
(* list longer in the other.                                               *)
PackingEnds == <>(pc \in {"done", "refused"})
=============================================================================
