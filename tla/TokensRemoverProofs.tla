------------------------- MODULE TokensRemoverProofs -------------------------
(* The bulks of TokenBulks partition the tokens, for any list of tokens    *)
(* and bulk size; the transactions of TxsSender are sent in their turn,    *)
(* and all but the last one have been executed, whatever fails, is lost    *)
(* or happens elsewhere.                                                   *)
EXTENDS TokenBulks, TxsSender, FiniteSetTheorems, TLAPS

(* An interval holds at least one nonce, one is walked along and one cut   *)
(* at a time, and each phase leaves nothing for the one before it.         *)
Phases ==
  /\ \A i \in pending \cup cur : i.start <= i.end
  /\ \A i, j \in walk : i = j
  /\ \A i, j \in cur : i = j
  /\ pc \in {"parse", "group"} => placed = <<>> /\ cur = {} /\ bulk = 1 /\ inBulk = 0
  /\ pc = "parse" => rest = tokens /\ walk = {} /\ pending = {}
  /\ pc \in {"pack", "done"} => rest = {} /\ walk = {}
  /\ pc = "done" => pending = {} /\ cur = {}

LEMMA InitPhases == BulksInit => BulksTypeOK /\ Phases
BY BulksAssumption DEF BulksInit, BulksTypeOK, Phases

(* A token of the list is a record of its fields.                          *)
LEMMA TokenType ==
  ASSUME BulksTypeOK
  PROVE  /\ \A w \in tokens : w.id \in TokenID /\ w.nonce \in Nat
         /\ bulkSize \in Nat \ {0} /\ rest \subseteq tokens
BY BulksAssumption DEF BulksTypeOK, Written

(* What is placed are records of their fields, too.                        *)
LEMMA PlacedType ==
  ASSUME BulksTypeOK
  PROVE  \A p \in DOMAIN placed : /\ placed[p].start \in Nat /\ placed[p].end \in Nat
                                  /\ placed[p].bulk \in Nat \ {0}
<1> DEFINE T == [id : TokenID, start : Nat, end : Nat, bulk : Nat \ {0}]
<1>1. placed \in Seq(T)
  BY DEF BulksTypeOK
<1>2. \A t \in T : t.start \in Nat /\ t.end \in Nat /\ t.bulk \in Nat \ {0}
  OBVIOUS
<1> HIDE DEF T
<1>3. \A p \in DOMAIN placed : placed[p] \in T
  BY <1>1
<1> QED BY <1>2, <1>3

(* What a placement changes, whichever part it places.                     *)
LEMMA PlaceType ==
  ASSUME BulksTypeOK, NEW part \in Interval, NEW nothingLeft \in BOOLEAN, Place(part, nothingLeft),
         Length(part) \in 1..AvailableSlots
  PROVE  /\ placed' \in Seq([id : TokenID, start : Nat, end : Nat, bulk : Nat \ {0}])
         /\ bulk' \in Nat \ {0} /\ inBulk' \in 0..(bulkSize - 1)
         /\ pc' \in {"pack", "done"} /\ (pc' = "done" <=> nothingLeft)
         /\ UNCHANGED <<tokens, bulkSize, rest, walk>>
<1>1. [id |-> part.id, start |-> part.start, end |-> part.end, bulk |-> bulk]
        \in [id : TokenID, start : Nat, end : Nat, bulk : Nat \ {0}]
  BY DEF BulksTypeOK, Interval
<1>2. placed' \in Seq([id : TokenID, start : Nat, end : Nat, bulk : Nat \ {0}])
  BY <1>1 DEF Place, BulksTypeOK
<1>3. inBulk + Length(part) \in 1..bulkSize
  BY TokenType DEF BulksTypeOK, AvailableSlots
<1>4. bulk' \in Nat \ {0} /\ inBulk' \in 0..(bulkSize - 1)
  BY <1>3, TokenType DEF Place, BulksTypeOK
<1> QED BY <1>2, <1>4 DEF Place, given

(* The part of a split, and what it leaves.                                *)
LEMMA SplitParts ==
  ASSUME BulksTypeOK, Phases, NEW i \in Intervals, AvailableSlots < Length(i)
  PROVE  LET first == [i EXCEPT !.end = i.start + AvailableSlots - 1]
             second == [i EXCEPT !.start = @ + AvailableSlots]
         IN  /\ first \in Interval /\ second \in Interval
             /\ Length(first) = AvailableSlots /\ AvailableSlots \in 1..bulkSize
             /\ first.id = i.id /\ first.start = i.start /\ first.end < second.start
             /\ second.id = i.id /\ second.end = i.end
             /\ first.end + 1 = second.start /\ second.start <= second.end
<1>1. i \in Interval /\ bulkSize \in Nat \ {0} /\ inBulk \in 0..(bulkSize - 1)
  BY TokenType DEF BulksTypeOK, Intervals
<1> QED BY <1>1 DEF Interval, AvailableSlots, Length

LEMMA NextPhases == BulksTypeOK /\ Phases /\ [BulksNext]_bulksVars => BulksTypeOK' /\ Phases'
<1> SUFFICES ASSUME BulksTypeOK, Phases, [BulksNext]_bulksVars PROVE BulksTypeOK' /\ Phases'
  OBVIOUS
<1> USE DEF Phases, packing, given
<1>1. CASE Parse \/ Grouped
  BY <1>1 DEF Parse, Grouped, BulksTypeOK
<1>2. ASSUME NEW w \in rest, BeginInterval(w) PROVE BulksTypeOK' /\ Phases'
  BY <1>2, TokenType DEF BeginInterval, BulksTypeOK
<1>3. ASSUME NEW w \in rest, NEW i \in walk, Walk(i, w) PROVE BulksTypeOK' /\ Phases'
  <2> DEFINE moved == [id |-> i.id, start |-> i.start, num |-> i.num + 1, last |-> w.nonce]
  <2>0. /\ i \in [id : TokenID, start : Nat, num : Nat, last : Nat]
        /\ w.nonce \in Nat /\ i.num + 1 \in Nat
    BY TokenType DEF BulksTypeOK
  <2>1. moved \in [id : TokenID, start : Nat, num : Nat, last : Nat]
    BY <2>0
  <2>2. walk' = {moved} /\ rest' \in SUBSET tokens /\ pc = "group"
        /\ UNCHANGED <<given, pending, cur, packing, pc>>
    BY <1>3, TokenType DEF Walk
  <2> HIDE DEF moved
  <2> QED BY <2>1, <2>2 DEF BulksTypeOK
<1>4. ASSUME NEW i \in walk, EndInterval(i) PROVE BulksTypeOK' /\ Phases'
  BY <1>4 DEF EndInterval, BulksTypeOK, Interval
<1>5. ASSUME NEW i \in Intervals, PlaceWhole(i) PROVE BulksTypeOK' /\ Phases'
  <2>1. i \in Interval /\ Length(i) \in 1..AvailableSlots
    BY <1>5 DEF PlaceWhole, BulksTypeOK, Intervals, Interval, Length, AvailableSlots
  <2>2. Place(i, pending' = {}) /\ Taken(i) /\ cur' = {}
    BY <1>5 DEF PlaceWhole
  <2>3. /\ placed' \in Seq([id : TokenID, start : Nat, end : Nat, bulk : Nat \ {0}])
        /\ bulk' \in Nat \ {0} /\ inBulk' \in 0..(bulkSize - 1)
        /\ pc' \in {"pack", "done"} /\ (pc' = "done" <=> pending' = {})
        /\ UNCHANGED <<tokens, bulkSize, rest, walk>>
    BY <2>1, <2>2, PlaceType
  <2>4. pc = "pack"
    BY <1>5 DEF PlaceWhole
  <2> QED BY <2>2, <2>3, <2>4 DEF BulksTypeOK, Taken, AtIndex
<1>6. ASSUME NEW i \in Intervals, Split(i) PROVE BulksTypeOK' /\ Phases'
  <2> DEFINE first == [i EXCEPT !.end = i.start + AvailableSlots - 1]
             second == [i EXCEPT !.start = @ + AvailableSlots]
  <2>1. /\ pc = "pack" /\ AtIndex(i) /\ AvailableSlots < Length(i)
        /\ Taken(i) /\ cur' = {second} /\ Place(first, FALSE)
    BY <1>6 DEF Split
  <2>2. /\ first \in Interval /\ second \in Interval
        /\ Length(first) \in 1..AvailableSlots /\ second.start <= second.end
    BY <2>1, SplitParts
  <2>3. /\ placed' \in Seq([id : TokenID, start : Nat, end : Nat, bulk : Nat \ {0}])
        /\ bulk' \in Nat \ {0} /\ inBulk' \in 0..(bulkSize - 1)
        /\ pc' = "pack" /\ UNCHANGED <<tokens, bulkSize, rest, walk>>
    BY <2>1, <2>2, PlaceType
  <2> QED BY <2>1, <2>2, <2>3 DEF BulksTypeOK, Taken
<1>7. CASE UNCHANGED bulksVars
  BY <1>7 DEF bulksVars, BulksTypeOK
<1> QED BY <1>1, <1>2, <1>3, <1>4, <1>5, <1>6, <1>7 DEF BulksNext, Intervals

(* The type invariant of the packing.                                      *)
THEOREM BulksTyped == BulksSpec => []BulksTypeOK
BY InitPhases, NextPhases, PTL DEF BulksSpec

-----------------------------------------------------------------------------
(* The nonces that an interval covers while it is walked along.            *)
Walked(i) == i.start..(i.start + i.num)

(* Where a token of the list is.                                           *)
Found(w) ==
  \/ w \in rest
  \/ \E i \in walk : i.id = w.id /\ w.nonce \in Walked(i)
  \/ \E i \in Intervals : Covers(i, w.id, w.nonce)
  \/ \E p \in DOMAIN placed : Covers(placed[p], w.id, w.nonce)

(* The walk goes upwards.                                                  *)
Ascending ==
  \A i \in walk :
    /\ i.start <= i.last /\ i.last <= i.start + i.num
    /\ \A w \in rest : w.id = i.id => i.last <= w.nonce

ListedInvariant == Ascending /\ \A w \in tokens : Found(w)

(* What is placed stays, and a placement appends its part.                 *)
LEMMA PlacedParts ==
  ASSUME BulksTypeOK, NEW part \in Interval, NEW nothingLeft, Place(part, nothingLeft)
  PROVE  /\ DOMAIN placed' = DOMAIN placed \cup {Len(placed) + 1}
         /\ DOMAIN placed = 1..Len(placed) /\ Len(placed) \in Nat
         /\ \A p \in DOMAIN placed : placed'[p] = placed[p]
         /\ placed'[Len(placed) + 1].id = part.id
         /\ placed'[Len(placed) + 1].start = part.start
         /\ placed'[Len(placed) + 1].end = part.end
         /\ placed'[Len(placed) + 1].bulk = bulk
<1> DEFINE T == [id : TokenID, start : Nat, end : Nat, bulk : Nat \ {0}]
           new == [id |-> part.id, start |-> part.start, end |-> part.end, bulk |-> bulk]
<1>1. placed \in Seq(T) /\ new \in T
  BY DEF BulksTypeOK, Interval
<1>2. placed' = Append(placed, new)
  BY DEF Place
<1>3. /\ new.id = part.id /\ new.start = part.start
      /\ new.end = part.end /\ new.bulk = bulk
  OBVIOUS
<1> HIDE DEF T, new
<1> QED BY <1>1, <1>2, <1>3

LEMMA NextListed ==
  BulksTypeOK /\ Phases /\ ListedInvariant /\ [BulksNext]_bulksVars => ListedInvariant'
<1> SUFFICES ASSUME BulksTypeOK, Phases, ListedInvariant, [BulksNext]_bulksVars PROVE ListedInvariant'
  OBVIOUS
<1> USE DEF ListedInvariant, Ascending, Found, Intervals, Covers, packing, given
<1>1. CASE Parse \/ Grouped
  BY <1>1 DEF Parse, Grouped
<1>2. ASSUME NEW w \in rest, BeginInterval(w) PROVE ListedInvariant'
  BY <1>2, TokenType DEF BeginInterval, Smallest, Walked
<1>3. ASSUME NEW w \in rest, NEW i \in walk, Walk(i, w) PROVE ListedInvariant'
  <2> DEFINE moved == [id |-> i.id, start |-> i.start, num |-> i.num + 1, last |-> w.nonce]
  <2>1. /\ i.start \in Nat /\ i.num \in Nat /\ i.last \in Nat /\ w.nonce \in Nat
        /\ i.last <= w.nonce /\ w.nonce <= i.last + 1 /\ w.id = i.id
    BY <1>3, TokenType DEF Walk, Consecutive, BulksTypeOK
  <2>2. /\ moved.id = i.id /\ moved.start = i.start /\ moved.num = i.num + 1
        /\ moved.last = w.nonce
    BY DEF BulksTypeOK
  <2>3. walk' = {moved} /\ rest' = rest \ {w} /\ walk = {i}
        /\ UNCHANGED <<tokens, pending, cur, placed>>
    BY <1>3 DEF Walk, Phases
  <2> HIDE DEF moved
  <2>4. \A v \in rest' : v.id = moved.id => moved.last <= v.nonce
    BY <1>3, <2>1, <2>2, <2>3 DEF Walk, Smallest
  <2>6. moved.start <= moved.last /\ moved.last <= moved.start + moved.num
    BY <2>1, <2>2
  <2>5. Walked(i) \subseteq Walked(moved) /\ w.nonce \in Walked(moved)
    BY <2>1, <2>2 DEF Walked
  <2> QED BY <2>1, <2>2, <2>3, <2>4, <2>5, <2>6
<1>4. ASSUME NEW i \in walk, EndInterval(i) PROVE ListedInvariant'
  <2> DEFINE ended == [id |-> i.id, start |-> i.start, end |-> i.start + i.num]
  <2>1. /\ walk = {i} /\ walk' = {} /\ pending' = pending \cup {ended}
        /\ UNCHANGED <<tokens, rest, cur, placed>>
    BY <1>4 DEF EndInterval, Phases
  <2>2. \A n : n \in Walked(i) => n \in ended.start..ended.end
    BY DEF Walked
  <2> QED BY <2>1, <2>2
<1>5. ASSUME NEW i \in Intervals, PlaceWhole(i) PROVE ListedInvariant'
  <2>1. /\ Place(i, pending' = {}) /\ rest = {} /\ walk = {}
        /\ Intervals \ {i} \subseteq Intervals' /\ UNCHANGED <<tokens, rest, walk>>
    BY <1>5 DEF PlaceWhole, Taken, AtIndex, Place, Phases
  <2>2. /\ DOMAIN placed' = DOMAIN placed \cup {Len(placed) + 1}
        /\ \A p \in DOMAIN placed : placed'[p] = placed[p]
        /\ placed'[Len(placed) + 1].id = i.id /\ placed'[Len(placed) + 1].start = i.start
        /\ placed'[Len(placed) + 1].end = i.end
    BY <2>1, PlacedParts DEF BulksTypeOK
  <2> QED BY <2>1, <2>2
<1>6. ASSUME NEW i \in Intervals, Split(i) PROVE ListedInvariant'
  <2> DEFINE first == [i EXCEPT !.end = i.start + AvailableSlots - 1]
             second == [i EXCEPT !.start = @ + AvailableSlots]
  <2>1. /\ AvailableSlots < Length(i) /\ Place(first, FALSE) /\ rest = {} /\ walk = {}
        /\ cur' = {second} /\ Intervals \ {i} \subseteq Intervals'
        /\ UNCHANGED <<tokens, rest, walk>>
    BY <1>6 DEF Split, Taken, AtIndex, Place, Phases
  <2>2. /\ first \in Interval /\ second \in Interval /\ i \in Interval
        /\ first.id = i.id /\ first.start = i.start /\ second.id = i.id
        /\ second.end = i.end /\ first.end + 1 = second.start
    BY <2>1, SplitParts DEF BulksTypeOK
  <2>3. /\ DOMAIN placed' = DOMAIN placed \cup {Len(placed) + 1}
        /\ \A p \in DOMAIN placed : placed'[p] = placed[p]
        /\ placed'[Len(placed) + 1].id = first.id
        /\ placed'[Len(placed) + 1].start = first.start
        /\ placed'[Len(placed) + 1].end = first.end
    BY <2>1, <2>2, PlacedParts
  <2> HIDE DEF first, second
  <2>4. \A n \in i.start..i.end : n \in first.start..first.end \/ n \in second.start..second.end
    BY <2>2 DEF Interval
  <2> QED BY <2>1, <2>2, <2>3, <2>4
<1>7. CASE UNCHANGED bulksVars
  BY <1>7 DEF bulksVars
<1> QED BY <1>1, <1>2, <1>3, <1>4, <1>5, <1>6, <1>7 DEF BulksNext, Intervals

(* No token of the list is forgotten by the bulks.                         *)
THEOREM ListedTokensAreDeleted == BulksSpec => []ListedAreDeleted
<1>1. BulksInit => ListedInvariant
  BY DEF BulksInit, ListedInvariant, Ascending, Found
<1>2. Phases /\ ListedInvariant => ListedAreDeleted
  BY DEF Phases, ListedInvariant, Found, Intervals, ListedAreDeleted
<1> QED BY <1>1, <1>2, InitPhases, NextPhases, NextListed, PTL DEF BulksSpec

-----------------------------------------------------------------------------
Apart(i, j) == i.id = j.id => i.end < j.start \/ j.end < i.start
Listed(i) == \A n \in i.start..i.end : \E w \in tokens : w.id = i.id /\ w.nonce = n

(* If no nonce is written twice, the walk covers exactly what it passed,   *)
(* what is behind it is below what is before it, and no two parts meet.    *)
Passed ==
  /\ \A i \in walk : /\ i.last = i.start + i.num
                     /\ \A w \in rest : w.id = i.id => i.last < w.nonce
                     /\ \A n \in Walked(i) : \E w \in tokens : w.id = i.id /\ w.nonce = n
  /\ \A i \in pending : /\ \A w \in rest : w.id = i.id => i.end < w.nonce
                        /\ \A j \in walk : i.id = j.id => i.end < j.start

PartsApart ==
  /\ \A i \in Intervals : Listed(i) /\ \A p \in DOMAIN placed : Apart(i, placed[p])
  /\ \A i, j \in pending : i = j \/ Apart(i, j)
  /\ \A i \in cur, j \in pending : Apart(i, j)
  /\ \A p \in DOMAIN placed : Listed(placed[p])
  /\ \A p, q \in DOMAIN placed : p = q \/ Apart(placed[p], placed[q])

OnceInvariant == WrittenOnce => Passed /\ PartsApart

(* A part that lies within an interval is placed, and what is left of the  *)
(* interval, if anything, comes after that part.                           *)
LEMMA PlaceApart ==
  ASSUME BulksTypeOK, Phases, PartsApart, NEW i \in Intervals, AtIndex(i), Taken(i),
         NEW part \in Interval, NEW nothingLeft, Place(part, nothingLeft),
         part.id = i.id, i.start <= part.start, part.start <= part.end, part.end <= i.end,
         \A k \in cur' : /\ k \in Interval /\ k.id = i.id
                         /\ part.end < k.start /\ k.start <= k.end /\ k.end <= i.end
  PROVE  PartsApart'
<1> DEFINE new == Len(placed) + 1
<1>1. /\ DOMAIN placed' = DOMAIN placed \cup {new}
      /\ \A p \in DOMAIN placed : placed'[p] = placed[p]
      /\ placed'[new].id = part.id /\ placed'[new].start = part.start
      /\ placed'[new].end = part.end
  BY PlacedParts
<1>2. i \in Interval /\ pending \in SUBSET Interval /\ cur \in SUBSET Interval
      /\ pending' \in SUBSET pending /\ UNCHANGED tokens
  BY DEF BulksTypeOK, Intervals, Taken, Place, given
<1>3. \A p \in DOMAIN placed : placed[p].start \in Nat /\ placed[p].end \in Nat
  BY PlacedType
<1>4. \A j \in pending' : j \in Interval /\ Apart(i, j)
  BY <1>2 DEF PartsApart, Taken, AtIndex, Phases, Apart, Interval
<1>5. Listed(i) /\ \A p \in DOMAIN placed : Apart(i, placed[p])
  BY DEF PartsApart
<1>6. \A j \in pending' : Apart(j, placed'[new])
  BY <1>1, <1>2, <1>4 DEF Apart, Interval
<1>7. \A k \in cur' : Apart(k, placed'[new]) /\ \A j \in pending' : Apart(k, j)
  BY <1>1, <1>2, <1>4 DEF Apart, Interval
<1>8. \A p \in DOMAIN placed : /\ Apart(placed'[new], placed'[p])
                               /\ Apart(placed'[p], placed'[new])
                               /\ \A k \in cur' : Apart(k, placed'[p])
  BY <1>1, <1>2, <1>3, <1>5 DEF Apart, Interval
<1>9. Listed(placed'[new]) /\ \A k \in cur' : Listed(k)
  BY <1>1, <1>2, <1>5 DEF Listed, Interval
<1> HIDE DEF new
<1>10. \A p \in DOMAIN placed : Listed(placed'[p])
  BY <1>1 DEF PartsApart
<1>11. \A j \in pending' : Listed(j) /\ \A p \in DOMAIN placed : Apart(j, placed'[p])
  BY <1>1, <1>2 DEF PartsApart, Intervals
<1>12. \A p, q \in DOMAIN placed : p = q \/ Apart(placed'[p], placed'[q])
  BY <1>1 DEF PartsApart
<1>13. \A j, k \in pending' : j = k \/ Apart(j, k)
  BY <1>2 DEF PartsApart
<1>14. \A k \in Intervals' : Listed(k) /\ \A p \in DOMAIN placed' : Apart(k, placed'[p])
  BY <1>1, <1>6, <1>7, <1>8, <1>9, <1>11 DEF Intervals
<1>15. \A p \in DOMAIN placed' : Listed(placed'[p])
  BY <1>1, <1>9, <1>10
<1>16. \A p, q \in DOMAIN placed' : p = q \/ Apart(placed'[p], placed'[q])
  BY <1>1, <1>8, <1>12
<1> QED BY <1>2, <1>7, <1>13, <1>14, <1>15, <1>16 DEF PartsApart, Listed

LEMMA NextOnce == BulksTypeOK /\ Phases /\ OnceInvariant /\ [BulksNext]_bulksVars => OnceInvariant'
<1> SUFFICES ASSUME BulksTypeOK, Phases, OnceInvariant, [BulksNext]_bulksVars, WrittenOnce'
             PROVE  Passed' /\ PartsApart'
  BY DEF OnceInvariant
<1>0. UNCHANGED given /\ WrittenOnce /\ Passed /\ PartsApart
  <2>1. UNCHANGED given
    BY DEF BulksNext, bulksVars, Parse, Grouped, BeginInterval, Walk, EndInterval, PlaceWhole, Split,
           Place
  <2> QED BY <2>1 DEF WrittenOnce, OnceInvariant, given
<1> USE <1>0 DEF packing, given
<1>1. CASE Parse \/ Grouped
  BY <1>1 DEF Parse, Grouped, Passed, PartsApart, Intervals, Listed
<1>2. ASSUME NEW w \in rest, BeginInterval(w) PROVE Passed' /\ PartsApart'
  <2> DEFINE begun == [id |-> w.id, start |-> w.nonce, num |-> 0, last |-> w.nonce]
  <2>1. /\ walk' = {begun} /\ rest' = rest \ {w} /\ Smallest(w)
        /\ UNCHANGED <<tokens, pending, cur, placed>>
    BY <1>2 DEF BeginInterval
  <2>2. \A v \in rest' : v.id = w.id => w.nonce < v.nonce
    BY <2>1, TokenType DEF Smallest, WrittenOnce
  <2>3. w \in tokens /\ w.nonce \in Nat /\ Walked(begun) = {w.nonce}
    BY TokenType DEF Walked
  <2>4. PartsApart'
    BY <2>1 DEF PartsApart, Intervals, Listed
  <2> QED BY <2>1, <2>2, <2>3, <2>4 DEF Passed
<1>3. ASSUME NEW w \in rest, NEW i \in walk, Walk(i, w) PROVE Passed' /\ PartsApart'
  <2> DEFINE moved == [id |-> i.id, start |-> i.start, num |-> i.num + 1, last |-> w.nonce]
  <2>1. /\ walk' = {moved} /\ rest' = rest \ {w} /\ Smallest(w) /\ walk = {i}
        /\ w.id = i.id /\ w.nonce - i.last <= 1 /\ UNCHANGED <<tokens, pending, cur, placed>>
    BY <1>3 DEF Walk, Consecutive, Phases
  <2>2. /\ i.start \in Nat /\ i.num \in Nat /\ i.last \in Nat /\ w.nonce \in Nat
        /\ w \in tokens /\ i.last < w.nonce /\ i.last = i.start + i.num
    BY <2>1, TokenType DEF BulksTypeOK, Passed
  <2>3. \A v \in rest' : v.id = w.id => w.nonce < v.nonce
    BY <2>1, TokenType DEF Smallest, WrittenOnce
  <2>4. w.nonce = i.start + i.num + 1 /\ Walked(moved) = Walked(i) \cup {w.nonce}
    BY <2>1, <2>2 DEF Walked
  <2>5. \A n \in Walked(moved) : \E v \in tokens : v.id = moved.id /\ v.nonce = n
    BY <2>1, <2>2, <2>4 DEF Passed
  <2>6. PartsApart'
    BY <2>1 DEF PartsApart, Intervals, Listed
  <2> QED BY <2>1, <2>2, <2>3, <2>4, <2>5, <2>6 DEF Passed
<1>4. ASSUME NEW i \in walk, EndInterval(i) PROVE Passed' /\ PartsApart'
  <2> DEFINE ended == [id |-> i.id, start |-> i.start, end |-> i.start + i.num]
  <2>1. /\ pc = "group" /\ walk' = {} /\ pending' = pending \cup {ended}
        /\ UNCHANGED <<tokens, rest, cur, placed>>
    BY <1>4 DEF EndInterval
  <2>2. placed = <<>> /\ cur = {}
    BY <2>1 DEF Phases
  <2>3. /\ \A v \in rest : v.id = ended.id => ended.end < v.nonce
        /\ \A j \in pending : Apart(j, ended) /\ Apart(ended, j)
    BY DEF Passed, Apart
  <2>4. \A n \in ended.start..ended.end : \E v \in tokens : v.id = ended.id /\ v.nonce = n
    BY DEF Passed, Walked
  <2> HIDE DEF ended
  <2>5. Passed'
    BY <2>1, <2>3 DEF Passed
  <2> QED BY <2>1, <2>2, <2>3, <2>4, <2>5 DEF PartsApart, Intervals, Listed
<1>5. ASSUME NEW i \in Intervals, PlaceWhole(i) PROVE Passed' /\ PartsApart'
  <2>1. /\ AtIndex(i) /\ Taken(i) /\ cur' = {} /\ Place(i, pending' = {})
        /\ pc = "pack" /\ i \in Interval /\ i.start <= i.end
    BY <1>5 DEF PlaceWhole, BulksTypeOK, Intervals, Phases
  <2>2. i.start <= i.start /\ i.end <= i.end
    BY <2>1 DEF Interval
  <2>3. PartsApart'
    BY <2>1, <2>2, PlaceApart
  <2> QED BY <2>1, <2>3 DEF Passed, Phases, Place
<1>6. ASSUME NEW i \in Intervals, Split(i) PROVE Passed' /\ PartsApart'
  <2> DEFINE first == [i EXCEPT !.end = i.start + AvailableSlots - 1]
             second == [i EXCEPT !.start = @ + AvailableSlots]
  <2>1. /\ AtIndex(i) /\ Taken(i) /\ AvailableSlots < Length(i)
        /\ cur' = {second} /\ Place(first, FALSE) /\ pc = "pack"
    BY <1>6 DEF Split
  <2>2. /\ first \in Interval /\ second \in Interval /\ first.id = i.id /\ second.id = i.id
        /\ first.start = i.start /\ first.end < second.start /\ second.start <= second.end
        /\ second.end = i.end /\ Length(first) \in 1..bulkSize
    BY <2>1, SplitParts
  <2>3. first.start <= first.end /\ first.end <= i.end /\ i.start <= first.start
        /\ second.end <= i.end
    BY <2>2, TokenType DEF Interval, Length
  <2> HIDE DEF first, second
  <2>4. PartsApart'
    BY <2>1, <2>2, <2>3, PlaceApart
  <2> QED BY <2>1, <2>4 DEF Passed, Phases, Place
<1>7. CASE UNCHANGED bulksVars
  BY <1>7 DEF bulksVars, Passed, PartsApart, Intervals, Listed
<1> QED BY <1>1, <1>2, <1>3, <1>4, <1>5, <1>6, <1>7 DEF BulksNext, Intervals

(* A nonce that is written once is deleted by one transaction, and no      *)
(* transaction deletes a nonce that is not in the list.                    *)
THEOREM ListedTokensAreDeletedOnce == BulksSpec => []OnlyListedOnce
<1>1. BulksInit => OnceInvariant
  BY DEF BulksInit, OnceInvariant, Passed, PartsApart, Intervals
<1>2. BulksTypeOK /\ OnceInvariant => OnlyListedOnce
  <2> SUFFICES ASSUME BulksTypeOK, WrittenOnce, PartsApart, NEW p \in DOMAIN placed,
                      NEW n \in placed[p].start..placed[p].end
               PROVE  /\ \E w \in tokens : w.id = placed[p].id /\ w.nonce = n
                      /\ \A q \in DOMAIN placed : Covers(placed[q], placed[p].id, n) => q = p
    BY DEF OnlyListedOnce, OnceInvariant
  <2>1. \A q \in DOMAIN placed : placed[q].start \in Nat /\ placed[q].end \in Nat
    BY PlacedType
  <2> QED BY <2>1 DEF PartsApart, Listed, Apart, Covers
<1> QED BY <1>1, <1>2, InitPhases, NextPhases, NextOnce, PTL DEF BulksSpec
-----------------------------------------------------------------------------
(* The nonces placed in a bulk, when s is what has been placed.            *)
SlotsOf(s, b) == UNION {{p} \X (s[p].start..s[p].end) : p \in {q \in DOMAIN s : s[q].bulk = b}}

(* The count of the current bulk is what is placed in it, and the bulks    *)
(* before it are full, but for the last one of all.                        *)
SlotsInvariant ==
  /\ \A p \in DOMAIN placed : placed[p].bulk <= bulk
  /\ IsFiniteSet(SlotsOf(placed, bulk)) /\ Cardinality(SlotsOf(placed, bulk)) = inBulk
  /\ \A b \in 1..(bulk - 1) :
       /\ Cardinality(SlotsOf(placed, b)) = bulkSize \/ (pc = "done" /\ b = bulk - 1)
       /\ Cardinality(SlotsOf(placed, b)) \in 1..bulkSize

(* A placement adds as many slots as its part has nonces, to one bulk.     *)
LEMMA PlacedSlots ==
  ASSUME BulksTypeOK, SlotsInvariant, NEW part \in Interval, NEW nothingLeft,
         Place(part, nothingLeft), part.start <= part.end
  PROVE  /\ \A b : b # bulk => SlotsOf(placed', b) = SlotsOf(placed, b)
         /\ IsFiniteSet(SlotsOf(placed', bulk))
         /\ Cardinality(SlotsOf(placed', bulk)) = inBulk + Length(part)
<1> DEFINE new == Len(placed) + 1
           added == {new} \X (part.start..part.end)
<1>1. /\ DOMAIN placed' = DOMAIN placed \cup {new} /\ DOMAIN placed = 1..Len(placed)
      /\ Len(placed) \in Nat /\ \A p \in DOMAIN placed : placed'[p] = placed[p]
      /\ placed'[new].start = part.start
      /\ placed'[new].end = part.end /\ placed'[new].bulk = bulk
  BY PlacedParts
<1>2. new \notin DOMAIN placed
  BY <1>1
<1>3. IsFiniteSet(added) /\ Cardinality(added) = Length(part)
  <2>1. part.start \in Int /\ part.end \in Int /\ ~(part.start > part.end)
    BY DEF Interval
  <2>5. /\ IsFiniteSet(part.start..part.end)
        /\ Cardinality(part.start..part.end) =
             IF part.start > part.end THEN 0 ELSE part.end - part.start + 1
    BY <2>1, FS_Interval, Zenon
  <2>2. /\ IsFiniteSet(part.start..part.end)
        /\ Cardinality(part.start..part.end) = part.end - part.start + 1
    BY <2>1, <2>5
  <2>3. IsFiniteSet({new}) /\ Cardinality({new}) = 1
    BY FS_Singleton
  <2>4. IsFiniteSet(added) /\ Cardinality(added) = 1 * (part.end - part.start + 1)
    BY <2>2, <2>3, FS_Product
  <2> QED BY <2>1, <2>4 DEF Length
<1> HIDE DEF new
<1>4. SlotsOf(placed', bulk) = SlotsOf(placed, bulk) \cup added
  BY <1>1, <1>2 DEF SlotsOf
<1>5. SlotsOf(placed, bulk) \cap added = {}
  BY <1>2 DEF SlotsOf
<1>6. \A b : b # bulk => SlotsOf(placed', b) = SlotsOf(placed, b)
  BY <1>1, <1>2 DEF SlotsOf
<1> HIDE DEF added
<1>7. /\ IsFiniteSet(SlotsOf(placed', bulk))
      /\ Cardinality(SlotsOf(placed', bulk)) = inBulk + Length(part) - Cardinality({})
  BY <1>3, <1>4, <1>5, FS_Union DEF SlotsInvariant
<1>8. inBulk \in Int /\ Length(part) \in Int
  BY TokenType DEF BulksTypeOK, Length, Interval
<1>9. Cardinality({}) = 0
  BY FS_EmptySet
<1> QED BY <1>6, <1>7, <1>8, <1>9

LEMMA PlaceFills ==
  ASSUME BulksTypeOK, SlotsInvariant, pc = "pack", NEW part \in Interval, NEW nothingLeft \in BOOLEAN,
         Place(part, nothingLeft), Length(part) \in 1..AvailableSlots
  PROVE  SlotsInvariant'
<1>1. /\ bulkSize \in Nat \ {0} /\ bulk \in Nat \ {0} /\ inBulk \in 0..(bulkSize - 1)
      /\ Length(part) \in 1..(bulkSize - inBulk) /\ part.start <= part.end
      /\ UNCHANGED bulkSize
  BY TokenType DEF BulksTypeOK, AvailableSlots, Length, Interval, Place, given
<1>2. /\ \A b : b # bulk => SlotsOf(placed', b) = SlotsOf(placed, b)
      /\ IsFiniteSet(SlotsOf(placed', bulk))
      /\ Cardinality(SlotsOf(placed', bulk)) = inBulk + Length(part)
  BY <1>1, PlacedSlots
<1>3. \A p \in DOMAIN placed' : placed'[p].bulk <= bulk
  BY <1>1, PlacedParts, PlacedType DEF SlotsInvariant
<1>7. \A p \in DOMAIN placed' : placed'[p].bulk \in Nat
  BY <1>1, PlacedParts, PlacedType
<1>4. \A b \in 1..(bulk - 1) : Cardinality(SlotsOf(placed', b)) = bulkSize
  BY <1>1, <1>2 DEF SlotsInvariant
<1>5. CASE inBulk + Length(part) = bulkSize \/ nothingLeft
  <2>1. bulk' = bulk + 1 /\ inBulk' = 0 /\ (pc' = "done" <=> nothingLeft)
    BY <1>5 DEF Place
  <2>2. \A p \in DOMAIN placed' : placed'[p].bulk # bulk + 1
    BY <1>1, <1>3, <1>7
  <2>3. SlotsOf(placed', bulk + 1) = {}
    BY <2>2 DEF SlotsOf
  <2>4. \A p \in DOMAIN placed' : placed'[p].bulk <= bulk'
    BY <1>1, <1>3, <1>7, <2>1
  <2>5. bulk' - 1 = bulk /\ \A b \in 1..bulk : b = bulk \/ b \in 1..(bulk - 1)
    BY <1>1, <2>1
  <2>6. IsFiniteSet(SlotsOf(placed', bulk')) /\ Cardinality(SlotsOf(placed', bulk')) = inBulk'
    BY <2>1, <2>3, FS_EmptySet
  <2>7. Cardinality(SlotsOf(placed', bulk)) \in 1..bulkSize
    BY <1>1, <1>2
  <2>8. ASSUME NEW b \in 1..(bulk' - 1)
        PROVE  /\ Cardinality(SlotsOf(placed', b)) = bulkSize' \/ (pc' = "done" /\ b = bulk' - 1)
               /\ Cardinality(SlotsOf(placed', b)) \in 1..bulkSize'
    <3>1. CASE b = bulk
      BY <1>1, <1>2, <1>5, <2>1, <2>5, <2>7, <3>1
    <3>2. CASE b \in 1..(bulk - 1)
      BY <1>1, <1>4, <3>2
    <3> QED BY <2>5, <3>1, <3>2
  <2> QED BY <2>4, <2>6, <2>8 DEF SlotsInvariant
<1>6. CASE ~(inBulk + Length(part) = bulkSize \/ nothingLeft)
  <2>1. bulk' = bulk /\ inBulk' = inBulk + Length(part)
    BY <1>6 DEF Place
  <2> QED BY <1>1, <1>2, <1>3, <1>4, <2>1 DEF SlotsInvariant
<1> QED BY <1>5, <1>6

LEMMA NextSlots == BulksTypeOK /\ Phases /\ SlotsInvariant /\ [BulksNext]_bulksVars => SlotsInvariant'
<1> SUFFICES ASSUME BulksTypeOK, Phases, SlotsInvariant, [BulksNext]_bulksVars PROVE SlotsInvariant'
  OBVIOUS
<1> USE DEF packing, given
<1>1. ASSUME UNCHANGED <<placed, bulk, inBulk, bulkSize>>, pc = "done" => pc' = "done"
      PROVE  SlotsInvariant'
  BY <1>1 DEF SlotsInvariant
<1>2. CASE Parse \/ Grouped
  BY <1>1, <1>2 DEF Parse, Grouped
<1>3. ASSUME NEW w \in rest, BeginInterval(w) \/ \E i \in walk : Walk(i, w)
      PROVE  SlotsInvariant'
  BY <1>1, <1>3 DEF BeginInterval, Walk
<1>4. ASSUME NEW i \in walk, EndInterval(i) PROVE SlotsInvariant'
  BY <1>1, <1>4 DEF EndInterval
<1>5. ASSUME NEW i \in Intervals, PlaceWhole(i) PROVE SlotsInvariant'
  <2>1. i \in Interval /\ Length(i) \in 1..AvailableSlots
    BY <1>5 DEF PlaceWhole, BulksTypeOK, Intervals, Interval, Length, AvailableSlots, Phases
  <2>2. Place(i, pending' = {}) /\ pc = "pack"
    BY <1>5 DEF PlaceWhole
  <2> QED BY <2>1, <2>2, PlaceFills
<1>6. ASSUME NEW i \in Intervals, Split(i) PROVE SlotsInvariant'
  <2> DEFINE first == [i EXCEPT !.end = i.start + AvailableSlots - 1]
             second == [i EXCEPT !.start = @ + AvailableSlots]
  <2>1. AvailableSlots < Length(i) /\ Place(first, FALSE) /\ pc = "pack"
    BY <1>6 DEF Split
  <2>3. /\ first \in Interval /\ second \in Interval
        /\ Length(first) = AvailableSlots /\ AvailableSlots \in 1..bulkSize
    BY <2>1, SplitParts
  <2>2. first \in Interval /\ Length(first) \in 1..AvailableSlots
    BY <2>3, TokenType
  <2> HIDE DEF first
  <2> QED BY <2>1, <2>2, PlaceFills
<1>7. CASE UNCHANGED bulksVars
  BY <1>1, <1>7 DEF bulksVars
<1> QED BY <1>2, <1>3, <1>4, <1>5, <1>6, <1>7 DEF BulksNext

(* Every transaction but the last one deletes as many nonces as configured *)
(* and the last one deletes some.                                          *)
THEOREM ClosedBulksAreFull == BulksSpec => []BulksAreFull
<1>1. BulksInit => SlotsInvariant
  <2> SUFFICES ASSUME BulksInit PROVE SlotsInvariant
    OBVIOUS
  <2>1. SlotsOf(placed, bulk) = {} /\ bulk = 1 /\ inBulk = 0 /\ DOMAIN placed = {}
    BY DEF BulksInit, SlotsOf
  <2> QED BY <2>1, FS_EmptySet DEF SlotsInvariant
<1>2. SlotsInvariant => BulksAreFull
  <2>1. \A b : Slots(b) = SlotsOf(placed, b)
    BY DEF Slots, SlotsOf
  <2> QED BY <2>1 DEF SlotsInvariant, BulksAreFull
<1> QED BY <1>1, <1>2, InitPhases, NextPhases, NextSlots, PTL DEF BulksSpec

-----------------------------------------------------------------------------
(* The phases of a list of tokens follow each other; in the first one the  *)
(* tokens not yet reached become fewer or the walk ends, in the second one *)
(* the intervals become fewer or what is left of one becomes shorter.      *)
Fewer(S, T) == S \subseteq T /\ S # T

Uncut == UNION {i.start..i.end : i \in cur}

Advances ==
  \/ pc = "parse" /\ pc' \in {"group", "refused"}
  \/ pc = "group" /\ pc' \in {"pack", "done"}
  \/ /\ pc = "group" /\ pc' = "group"
     /\ Fewer(rest', rest) \/ (rest' = rest /\ walk # {} /\ walk' = {})
  \/ /\ pc = "pack" /\ pc' \in {"pack", "done"}
     /\ Fewer(pending', pending) \/ (pending' = pending /\ Fewer(Uncut', Uncut))

(* Every step of the grouping and of the packing comes nearer to the end,  *)
(* so that a split, which makes the list of intervals longer, does not     *)
(* keep the loop from ending: with a positive bulk size it takes at least  *)
(* one nonce away.                                                         *)
THEOREM EveryStepAdvances == BulksSpec => [][Advances]_bulksVars
<1>1. BulksTypeOK /\ Phases /\ [BulksNext]_bulksVars => [Advances]_bulksVars
  <2> SUFFICES ASSUME BulksTypeOK, Phases, BulksNext PROVE Advances
    OBVIOUS
  <2>1. CASE Parse \/ Grouped
    BY <2>1 DEF Parse, Grouped, Advances
  <2>2. CASE \E w \in rest : BeginInterval(w) \/ \E i \in walk : Walk(i, w)
    BY <2>2 DEF BeginInterval, Walk, Advances, Fewer
  <2>3. CASE \E i \in walk : EndInterval(i)
    BY <2>3 DEF EndInterval, Advances
  <2>4. ASSUME NEW i \in Intervals, AtIndex(i), cur = {}, Taken(i) PROVE Fewer(pending', pending)
    BY <2>4 DEF AtIndex, Taken, Fewer
  <2>5. ASSUME NEW i \in Intervals, AtIndex(i), cur # {}, Taken(i)
        PROVE  pending' = pending /\ cur = {i} /\ Uncut = i.start..i.end /\ i.start \in Uncut
    <3>1. i \in cur /\ cur = {i} /\ pending' = pending
      BY <2>5 DEF AtIndex, Taken, Phases
    <3>2. i.start \in Nat /\ i.end \in Nat /\ i.start <= i.end
      BY <3>1 DEF BulksTypeOK, Phases, Interval
    <3> QED BY <3>1, <3>2 DEF Uncut
  <2>6. ASSUME NEW i \in Intervals, PlaceWhole(i) PROVE Advances
    <3>1. AtIndex(i) /\ Taken(i) /\ cur' = {} /\ pc = "pack" /\ pc' \in {"pack", "done"}
      BY <2>6 DEF PlaceWhole, Place
    <3>2. Uncut' = {}
      BY <3>1 DEF Uncut
    <3> QED BY <2>4, <2>5, <3>1, <3>2 DEF Advances, Fewer
  <2>7. ASSUME NEW i \in Intervals, Split(i) PROVE Advances
    <3> DEFINE second == [i EXCEPT !.start = @ + AvailableSlots]
    <3>1. AtIndex(i) /\ Taken(i) /\ cur' = {second} /\ pc = "pack" /\ pc' = "pack"
          /\ AvailableSlots < Length(i)
      BY <2>7 DEF Split, Place
    <3>2. /\ second.start = i.start + AvailableSlots /\ second.end = i.end
          /\ AvailableSlots \in Nat \ {0} /\ i.start \in Nat /\ i.end \in Nat
      <4>1. i \in Interval
        BY DEF BulksTypeOK, Intervals
      <4>2. AvailableSlots \in 1..bulkSize /\ bulkSize \in Nat
        BY <3>1, TokenType, SplitParts
      <4>3. i = [id |-> i.id, start |-> i.start, end |-> i.end]
            /\ i.start \in Nat /\ i.end \in Nat
        BY <4>1 DEF Interval
      <4> QED BY <4>2, <4>3
    <3>3. Uncut' = (i.start + AvailableSlots)..i.end
      BY <3>1, <3>2 DEF Uncut
    <3>4. ASSUME cur # {} PROVE Fewer(Uncut', Uncut)
      BY <2>5, <3>1, <3>2, <3>3, <3>4 DEF Fewer
    <3> QED BY <2>4, <2>5, <3>1, <3>4 DEF Advances
  <2> QED BY <2>1, <2>2, <2>3, <2>6, <2>7 DEF BulksNext
<1> QED BY <1>1, InitPhases, NextPhases, PTL DEF BulksSpec

-----------------------------------------------------------------------------
(* A non-empty set of numbers up to n has a greatest one.                  *)
LEMMA HasMaximum ==
  ASSUME NEW n \in Nat, NEW K \in SUBSET (1..n), K # {}
  PROVE  \E k \in K : \A m \in K : m <= k
<1> DEFINE Above(k) == {m \in K : k < m}
           T == {Above(k) : k \in K}
           F == FiniteSubsetsOf(K)
<1>1. IsFiniteSet(K)
  BY FS_Interval, FS_Subset, 1 \in Int, n \in Int, Zenon
<1>2. \A k \in K : Above(k) \in F
  <2> TAKE k \in K
  <2>1. Above(k) \in SUBSET K
    OBVIOUS
  <2> HIDE DEF Above
  <2>2. IsFiniteSet(Above(k))
    BY <1>1, <2>1, FS_Subset, Zenon
  <2> QED BY <2>1, <2>2 DEF FiniteSubsetsOf
<1>3. T \subseteq F /\ T # {}
  BY <1>2, Zenon
<1>4. \A k, m \in K : k < m => <<Above(m), Above(k)>> \in StrictSubsetOrdering(K)
  <2> TAKE k, m \in K
  <2> HAVE k < m
  <2>0. \A x \in K : x \in Int
    OBVIOUS
  <2>1. Above(m) \subseteq Above(k)
    <3> SUFFICES ASSUME NEW x \in K, m < x PROVE k < x
      OBVIOUS
    <3> QED BY <2>0
  <2>2. m \in Above(k) /\ m \notin Above(m)
    BY <2>0
  <2>3. Above(m) \in SUBSET K /\ Above(k) \in SUBSET K
    OBVIOUS
  <2> HIDE DEF Above
  <2> QED BY <2>1, <2>2, <2>3 DEF StrictSubsetOrdering
<1>5. IsWellFoundedOn(StrictSubsetOrdering(K), F)
  BY FS_StrictSubsetOrderingWellFounded, Zenon
<1>6. \A k \in K : Above(k) \in T
  OBVIOUS
<1>7. \A x \in T : \E k \in K : x = Above(k)
  OBVIOUS
<1> HIDE DEF T, F, Above
<1>8. PICK x \in T : \A y \in T : <<y, x>> \notin StrictSubsetOrdering(K)
  BY <1>3, <1>5, WFMin, Zenon
<1>9. PICK k \in K : x = Above(k)
  BY <1>7
<1>10. \A m \in K : ~(k < m)
  BY <1>4, <1>6, <1>8, <1>9
<1> QED BY <1>10

Executed == [shard : Shard \cup {Bad}, run : Nat, from : Account, nonce : Nat]

-----------------------------------------------------------------------------
(* The pem that counts is one of the directory's.                          *)
LEMMA PemMapType ==
  ASSUME NEW dir \in PemDirs, ~PemsRefused(dir), NEW s \in DOMAIN PemMap(dir)
  PROVE  s \in Shard /\ PemMap(dir)[s] \in Account
<1> DEFINE K == {k \in DOMAIN dir : dir[k].shard = s}
<1> DEFINE P == [shard : Shard \cup {Bad}, account : Account \cup {Bad}]
<1>0. dir \in Seq(P)
  <2>1. PemDirs \subseteq Seq(P)
    BY SenderAssumption, Zenon
  <2> QED BY <2>1, Zenon
<1>1. /\ Len(dir) \in Nat /\ DOMAIN dir = 1..Len(dir)
      /\ \A k \in DOMAIN dir : dir[k] \in P
  <2> HIDE DEF P
  <2> QED BY <1>0
<1>2. \A k \in DOMAIN dir : dir[k].shard \in Shard \cup {Bad} /\ dir[k].account \in Account \cup {Bad}
  BY <1>1
<1>3. \A k \in DOMAIN dir : dir[k].shard \in Shard /\ dir[k].account \in Account
  BY <1>2 DEF PemsRefused
<1>4. K \in SUBSET (1..Len(dir)) /\ K # {} /\ s \in Shard
  BY <1>1, <1>3 DEF PemMap
<1>5. \E k \in K : \A m \in K : m <= k
  <2> HIDE DEF K
  <2> QED BY <1>1, <1>4, HasMaximum
<1>6. \E k \in DOMAIN dir : dir[k].shard = s /\ \A m \in DOMAIN dir : dir[m].shard = s => m <= k
  BY <1>5
<1>7. (CHOOSE k \in DOMAIN dir :
         dir[k].shard = s /\ \A m \in DOMAIN dir : dir[m].shard = s => m <= k) \in DOMAIN dir
  BY <1>6
<1> QED BY <1>3, <1>4, <1>7 DEF PemMap

LEMMA InitTypeOK == Init => TypeOK
BY SenderAssumption DEF Init, TypeOK, Sending

(* A transaction that a sender sends.                                      *)
LEMMA TxType ==
  ASSUME NEW f \in Transactions, NEW i \in Nat
  PROVE  Tx(f, i) \in Executed /\ Tx(f, i).nonce = f.base + i /\ Tx(f, i).from = f.from
         /\ f.from \in Account /\ f.base \in Nat /\ f.num \in Nat
         /\ f.shard \in Shard /\ f.run \in Nat
BY DEF Transactions, Tx, Executed

LEMMA NonceType ==
  ASSUME TypeOK, NEW a \in Account
  PROVE  Nonce(a) \in Nat
BY DEF TypeOK, Nonce

LEMMA ExecutedType ==
  ASSUME TypeOK
  PROVE  executed \in [Account -> Seq(Executed)]
BY DEF TypeOK, Executed

LEMMA SenderTypes ==
  ASSUME TypeOK
  PROVE  /\ start \in [Shard -> Nat] /\ idx \in [Shard -> Nat] /\ polls \in [Shard -> Nat]
         /\ spc \in [Shard -> {"off", "wait", "send", "done", "failed"}]
         /\ txs \in [Shard -> Transactions \cup {NoFile}]
         /\ file \in [Shard -> Transactions \cup {NoFile}] /\ sends \in Nat
         /\ \A s \in Shard : Sending(s) => txs[s] # NoFile
BY DEF TypeOK

LEMMA CreatorTypeOK ==
  ASSUME TypeOK, Creator
  PROVE  TypeOK'
<1> USE DEF sender, network
<1>1. CASE \E in \in Inputs, dir \in PemDirs : StartCreator(in, dir)
  <2>1. PICK in \in Inputs, dir \in PemDirs : StartCreator(in, dir)
    BY <1>1
  <2>2. \A s \in DOMAIN in : s \in Shard /\ in[s] \in Nat
    BY SenderAssumption
  <2>3. \A s \in DOMAIN pems' : s \in Shard /\ pems'[s] \in Account
    <3>1. CASE PemsRefused(dir)
      BY <2>1, <3>1 DEF StartCreator
    <3>2. CASE ~PemsRefused(dir)
      BY <2>1, <3>2, PemMapType DEF StartCreator
    <3> QED BY <3>1, <3>2
  <2>4. run' \in Nat /\ unsaved' \in SUBSET Shard /\ cpc' \in {"off", "create", "ok", "failed"}
        /\ input' = in /\ todo' \in SUBSET DOMAIN in
    BY <2>1 DEF StartCreator, TypeOK
  <2>5. UNCHANGED <<file, txs, start, idx, polls, spc, pool, executed, sends, foreign>>
    BY <2>1 DEF StartCreator
  <2> QED BY <2>2, <2>3, <2>4, <2>5 DEF TypeOK, Sending
<1>2. CASE CreatorFails \/ Created
  BY <1>2 DEF CreatorFails, Created, TypeOK, Sending
<1>3. CASE \E s \in todo : MissingPem(s)
  BY <1>3 DEF MissingPem, TypeOK, Sending
<1>4. ASSUME NEW s \in todo, NEW n \in 0..(IF s \in DOMAIN pems THEN Nonce(pems[s]) ELSE 0),
             CreateTxs(s, n)
      PROVE  TypeOK'
  <2>1. s \in Shard /\ pems[s] \in Account /\ input[s] \in Nat /\ n \in Nat /\ run \in Nat
    BY <1>4, NonceType DEF CreateTxs, TypeOK
  <2>2. [shard |-> s, run |-> run, from |-> pems[s], base |-> n, num |-> input[s]] \in Transactions
    BY <2>1 DEF Transactions
  <2>3. file' \in [Shard -> Transactions \cup {NoFile}] /\ unsaved' \in SUBSET Shard
    BY <1>4, <2>1, <2>2 DEF CreateTxs, TypeOK
  <2>4. UNCHANGED <<input, pems, run, cpc, txs, start, idx, polls, spc, pool, executed, sends,
                    foreign>> /\ todo' \in SUBSET DOMAIN input
    BY <1>4 DEF CreateTxs, TypeOK
  <2> QED BY <2>3, <2>4 DEF TypeOK, Sending
<1> QED BY <1>1, <1>2, <1>3, <1>4 DEF Creator

LEMMA SenderTypeOK ==
  ASSUME TypeOK, NEW s \in Shard,
         \/ Step(s) \/ Stop(s)
         \/ \E i \in 0..(IF file[s] = NoFile THEN 0 ELSE file[s].num) : StartSender(s, i)
  PROVE  TypeOK'
<1> USE DEF creator, network
<1>1. ASSUME NEW i \in 0..(IF file[s] = NoFile THEN 0 ELSE file[s].num), StartSender(s, i)
      PROVE  TypeOK'
  <2>1. i \in Nat
    <3>1. CASE file[s] = NoFile
      BY <3>1
    <3>2. CASE file[s] # NoFile
      <4>1. file[s].num \in Nat
        BY <3>2 DEF TypeOK, Transactions
      <4> QED BY <3>2, <4>1
    <3> QED BY <3>1, <3>2
  <2>0. txs' \in [Shard -> Transactions \cup {NoFile}] /\ sends' \in Nat
    BY <1>1, SenderTypes DEF StartSender, TypeOK
  <2>2. /\ start' \in [Shard -> Nat] /\ idx' \in [Shard -> Nat] /\ polls' \in [Shard -> Nat]
        /\ spc' \in [Shard -> {"off", "wait", "send", "done", "failed"}]
    BY <1>1, <2>1, SenderTypes DEF StartSender
  <2>3. \A r \in Shard : Sending(r)' => txs'[r] # NoFile
    BY <1>1, <2>0, <2>2, SenderTypes DEF StartSender, Sending
  <2>4. UNCHANGED <<input, pems, todo, run, unsaved, cpc, file, pool, executed, foreign>>
    BY <1>1 DEF StartSender
  <2> QED BY <2>0, <2>2, <2>3, <2>4 DEF TypeOK
<1>2. CASE SeeNonce(s) \/ Retry(s) \/ GiveUp(s) \/ Stop(s)
  <2>1. UNCHANGED <<input, pems, todo, run, unsaved, cpc, file, pool, executed, txs, start, idx,
                    sends, foreign>>
    BY <1>2 DEF SeeNonce, Retry, GiveUp, Stop
  <2>2. polls' \in [Shard -> Nat] /\ spc' \in [Shard -> {"off", "wait", "send", "done", "failed"}]
    BY <1>2, SenderTypes DEF SeeNonce, Retry, GiveUp, Stop
  <2>3. \A r \in Shard : Sending(r)' => Sending(r)
    BY <1>2, SenderTypes DEF SeeNonce, Retry, GiveUp, Stop, Sending
  <2> QED BY <2>1, <2>2, <2>3 DEF TypeOK
<1>3. CASE Send(s) \/ SendFails(s)
  <2>1. txs[s] \in Transactions /\ idx[s] \in Nat
    BY <1>3 DEF Send, SendFails, TypeOK, Sending
  <2>2. pool' \subseteq Executed
    <3>1. Tx(txs[s], idx[s]) \in Executed
      BY <2>1, TxType
    <3>2. pool' \subseteq pool \cup {Tx(txs[s], idx[s])}
      BY <1>3 DEF Send, SendFails, Accepted
    <3> QED BY <3>1, <3>2 DEF TypeOK, Executed
  <2>3. UNCHANGED <<input, pems, todo, run, unsaved, cpc, file, executed, txs, start, sends, foreign>>
    BY <1>3 DEF Send, SendFails, Accepted
  <2>4. /\ idx' \in [Shard -> Nat] /\ polls' \in [Shard -> Nat]
        /\ spc' \in [Shard -> {"off", "wait", "send", "done", "failed"}]
    BY <1>3, SenderTypes DEF Send, SendFails
  <2>5. \A r \in Shard : Sending(r)' => Sending(r)
    BY <1>3, SenderTypes DEF Send, SendFails, Sending
  <2> QED BY <2>2, <2>3, <2>4, <2>5 DEF TypeOK, Executed
<1> QED BY <1>1, <1>2, <1>3 DEF Step

LEMMA NetworkTypeOK ==
  ASSUME TypeOK, Network
  PROVE  TypeOK'
<1> USE DEF creator, sender
<1>1. ASSUME NEW t \in pool, Execute(t) PROVE TypeOK'
  <2>1. executed' \in [Account -> Seq(Executed)] /\ pool' \subseteq Executed
    <3>1. t \in Executed /\ pool \subseteq Executed /\ t.from \in Account
      BY DEF TypeOK, Executed
    <3>2. Append(executed[t.from], t) \in Seq(Executed)
      BY <3>1, ExecutedType
    <3>3. executed' = [executed EXCEPT ![t.from] = Append(executed[t.from], t)] /\ pool' = pool \ {t}
      BY <1>1 DEF Execute
    <3> QED BY <3>1, <3>2, <3>3, ExecutedType
  <2> QED BY <1>1, <2>1 DEF Execute, TypeOK, Sending, Executed
<1>2. ASSUME NEW t \in pool, Drop(t) PROVE TypeOK'
  BY <1>2 DEF Drop, TypeOK, Sending
<1>3. ASSUME NEW a \in Account, ExecuteForeign(a) PROVE TypeOK'
  <2>1. Foreign(a, Nonce(a)) \in Executed
    BY NonceType DEF Foreign, Executed
  <2>2. executed' \in [Account -> Seq(Executed)]
    BY <1>3, <2>1, ExecutedType DEF ExecuteForeign
  <2>3. foreign' \in Nat
    BY <1>3 DEF ExecuteForeign, TypeOK
  <2> QED BY <1>3, <2>2, <2>3 DEF ExecuteForeign, TypeOK, Sending, Executed
<1> QED BY <1>1, <1>2, <1>3 DEF Network

LEMMA NextTypeOK == TypeOK /\ [Next]_vars => TypeOK'
<1> SUFFICES ASSUME TypeOK, [Next]_vars PROVE TypeOK'
  OBVIOUS
<1>1. CASE UNCHANGED vars
  BY <1>1 DEF vars, creator, sender, network, TypeOK, Sending
<1> QED BY <1>1, CreatorTypeOK, SenderTypeOK, NetworkTypeOK DEF Next

(* The variables keep their types, for all files, networks and bounds.     *)
THEOREM TypeCorrect == Spec => []TypeOK
BY InitTypeOK, NextTypeOK, PTL DEF Spec

-----------------------------------------------------------------------------
(* A nonce that was awaited has been seen, and the nonces of an account    *)
(* only grow: whatever a sender has sent, but for the last transaction,    *)
(* lies below the nonce of its account.                                    *)
InTurn ==
  \A s \in Shard : txs[s] # NoFile =>
    /\ idx[s] > start[s] => Expected(s) - 1 <= Nonce(txs[s].from)
    /\ spc[s] = "send" => Expected(s) <= Nonce(txs[s].from)

(* An account executes its transactions in the order of their nonces.      *)
NoncesArePositions ==
  \A a \in Account : \A p \in 1..Nonce(a) :
    executed[a][p].from = a /\ executed[a][p].nonce = p - 1

SenderInvariant == SentInTurn /\ InTurn /\ NoncesArePositions

LEMMA SenderFileType ==
  ASSUME TypeOK, NEW s \in Shard, txs[s] # NoFile
  PROVE  /\ txs[s] \in Transactions /\ txs[s].from \in Account /\ txs[s].base \in Nat
         /\ idx[s] \in Nat /\ start[s] \in Nat /\ Expected(s) \in Nat
         /\ Nonce(txs[s].from) \in Nat
<1>1. txs[s] \in Transactions /\ idx[s] \in Nat /\ start[s] \in Nat
  BY SenderTypes
<1>2. txs[s].from \in Account /\ txs[s].base \in Nat
  BY <1>1, TxType
<1> QED BY <1>1, <1>2, NonceType DEF Expected

LEMMA PoolType ==
  ASSUME TypeOK, NEW t \in pool
  PROVE  t \in Executed /\ t.from \in Account /\ t.nonce \in Nat /\ Nonce(t.from) \in Nat
<1>1. t \in Executed
  BY DEF TypeOK, Executed
<1>2. t.from \in Account /\ t.nonce \in Nat
  BY <1>1 DEF Executed
<1> QED BY <1>1, <1>2, NonceType

(* Nothing changes where a step only touches the files.                    *)
LEMMA UntouchedSenders ==
  ASSUME SenderInvariant, UNCHANGED <<sender, network>>
  PROVE  SenderInvariant'
BY DEF SenderInvariant, SentInTurn, InTurn, NoncesArePositions, Nonce, Expected, sender, network

LEMMA SenderStepInvariant ==
  ASSUME TypeOK, SenderInvariant, NEW s \in Shard,
         \/ Step(s) \/ Stop(s)
         \/ \E i \in 0..(IF file[s] = NoFile THEN 0 ELSE file[s].num) : StartSender(s, i)
  PROVE  SenderInvariant'
<1>0. UNCHANGED executed
  BY DEF Step, Stop, StartSender, SeeNonce, Retry, GiveUp, Send, SendFails, Accepted, network
<1>1. NoncesArePositions' /\ \A a \in Account : Nonce(a)' = Nonce(a)
  BY <1>0 DEF SenderInvariant, NoncesArePositions, Nonce
<1>2. \A r \in Shard \ {s} : /\ txs'[r] = txs[r] /\ idx'[r] = idx[r] /\ start'[r] = start[r]
                              /\ spc'[r] = spc[r]
  BY SenderTypes
  DEF Step, Stop, StartSender, SeeNonce, Retry, GiveUp, Send, SendFails
<1>3. SUFFICES /\ SentInTurn'
               /\ txs'[s] # NoFile =>
                    /\ idx'[s] > start'[s] => (txs'[s].base + idx'[s]) - 1 <= Nonce(txs'[s].from)
                    /\ spc'[s] = "send" => txs'[s].base + idx'[s] <= Nonce(txs'[s].from)
  BY <1>0, <1>1, <1>2 DEF SenderInvariant, InTurn, Expected, Nonce
<1>4. CASE \E i \in 0..(IF file[s] = NoFile THEN 0 ELSE file[s].num) : StartSender(s, i)
  <2>1. PICK i \in 0..(IF file[s] = NoFile THEN 0 ELSE file[s].num) : StartSender(s, i)
    BY <1>4
  <2>2. idx'[s] = i /\ start'[s] = i /\ spc'[s] # "send" /\ UNCHANGED <<pool, executed>>
    BY <2>1, SenderTypes DEF StartSender, network
  <2> QED BY <2>2 DEF SenderInvariant, SentInTurn, Nonce
<1>5. CASE SeeNonce(s)
  <2>1. Sending(s) /\ UNCHANGED <<txs, start, idx, pool, executed>>
    BY <1>5 DEF SeeNonce, Sending, network
  <2>2. txs[s] # NoFile
    BY <2>1, SenderTypes
  <2>3. Expected(s) <= Nonce(txs[s].from)
    BY <1>5, <2>2, SenderFileType DEF SeeNonce
  <2> QED BY <2>1, <2>2, <2>3 DEF SenderInvariant, SentInTurn, InTurn, Nonce, Expected
<1>6. CASE Retry(s) \/ GiveUp(s) \/ Stop(s)
  <2>1. spc'[s] # "send" \/ spc'[s] = spc[s]
    BY <1>6, SenderTypes DEF Retry, GiveUp, Stop
  <2>2. UNCHANGED <<txs, start, idx, pool, executed>>
    BY <1>6 DEF Retry, GiveUp, Stop, network
  <2> QED BY <2>1, <2>2 DEF SenderInvariant, SentInTurn, InTurn, Nonce, Expected
<1>7. CASE Send(s) \/ SendFails(s)
  <2>1. Sending(s) /\ spc[s] = "send" /\ UNCHANGED <<txs, start>>
    BY <1>7 DEF Send, SendFails, Sending
  <2>2. txs[s] # NoFile
    BY <2>1, SenderTypes
  <2>3. Expected(s) <= Nonce(txs[s].from)
    BY <2>1, <2>2 DEF SenderInvariant, InTurn
  <2>4. pool' \subseteq pool \cup {Tx(txs[s], idx[s])}
    BY <1>7 DEF Send, SendFails, Accepted, network
  <2>5. Tx(txs[s], idx[s]).nonce = Expected(s) /\ Tx(txs[s], idx[s]).from = txs[s].from
    BY DEF Tx, Expected
  <2>6. SentInTurn'
    BY <1>0, <2>3, <2>4, <2>5 DEF SenderInvariant, SentInTurn, Nonce
  <2>7. idx'[s] \in {idx[s], idx[s] + 1} /\ spc'[s] # "send"
    BY <1>7, SenderTypes DEF Send, SendFails
  <2> QED BY <2>1, <2>2, <2>3, <2>6, <2>7, SenderFileType DEF Expected
<1> QED BY <1>4, <1>5, <1>6, <1>7 DEF Step

LEMMA NetworkInvariant ==
  ASSUME TypeOK, SenderInvariant, Network
  PROVE  SenderInvariant'
<1>1. UNCHANGED <<txs, start, idx, spc>>
  BY DEF Network, Execute, Drop, ExecuteForeign, sender
<1>2. \A a \in Account : Nonce(a) \in Nat /\ Nonce(a)' \in Nat /\ Nonce(a) <= Nonce(a)'
  <2> TAKE a \in Account
  <2>1. CASE executed' = executed
    BY <2>1, NonceType DEF Nonce
  <2>2. ASSUME NEW b \in Account, NEW t, executed' = [executed EXCEPT ![b] = Append(@, t)]
        PROVE  Nonce(a) \in Nat /\ Nonce(a)' \in Nat /\ Nonce(a) <= Nonce(a)'
    <3>1. Len(executed'[a]) \in {Len(executed[a]), Len(executed[a]) + 1}
      BY <2>2, ExecutedType
    <3> QED BY <3>1, NonceType DEF Nonce
  <2> QED BY <2>1, <2>2, PoolType DEF Network, Execute, Drop, ExecuteForeign
<1>3. InTurn'
  <2>1. ASSUME NEW s \in Shard, txs[s] # NoFile
        PROVE  /\ idx[s] > start[s] => Expected(s) - 1 <= Nonce(txs[s].from)'
               /\ spc[s] = "send" => Expected(s) <= Nonce(txs[s].from)'
    <3>1. txs[s].from \in Account /\ Expected(s) \in Nat
      BY <2>1, SenderFileType
    <3>2. Nonce(txs[s].from) \in Nat /\ Nonce(txs[s].from)' \in Nat
          /\ Nonce(txs[s].from) <= Nonce(txs[s].from)'
      BY <1>1, <1>2, <3>1 DEF Nonce
    <3> QED BY <2>1, <3>1, <3>2 DEF SenderInvariant, InTurn
  <2> QED BY <1>1, <2>1 DEF InTurn, Expected, Nonce
<1>4. SentInTurn'
  <2>1. ASSUME NEW t \in pool' PROVE t \in pool
    BY <2>1 DEF Network, Execute, Drop, ExecuteForeign
  <2>2. ASSUME NEW t \in pool' PROVE t.nonce <= Nonce(t.from)'
    <3>1. t.nonce <= Nonce(t.from) /\ t.nonce \in Nat /\ t.from \in Account
      BY <2>1, <2>2, PoolType DEF SenderInvariant, SentInTurn
    <3>2. Nonce(t.from) \in Nat /\ Nonce(t.from)' \in Nat /\ Nonce(t.from) <= Nonce(t.from)'
      BY <1>2, <3>1 DEF Nonce
    <3> QED BY <3>1, <3>2
  <2> QED BY <2>2 DEF SentInTurn
<1>5. NoncesArePositions'
  <2>1. ASSUME NEW b \in Account, NEW t \in Executed, t.from = b, t.nonce = Nonce(b),
               executed' = [executed EXCEPT ![b] = Append(@, t)]
        PROVE  NoncesArePositions'
    <3> SUFFICES ASSUME NEW a \in Account, NEW p \in 1..Nonce(a)'
                 PROVE  executed'[a][p].from = a /\ executed'[a][p].nonce = p - 1
      BY DEF NoncesArePositions
    <3>1. CASE a # b
      BY <2>1, <3>1, ExecutedType DEF SenderInvariant, NoncesArePositions, Nonce
    <3>2. CASE a = b /\ p = Len(executed[b]) + 1
      <4>1. executed'[a][p] = t
        BY <2>1, <3>2, ExecutedType
      <4> QED BY <2>1, <3>2, <4>1, NonceType DEF Nonce
    <3>3. CASE a = b /\ p # Len(executed[b]) + 1
      <4>1. p \in 1..Len(executed[b]) /\ executed'[a][p] = executed[a][p]
        BY <2>1, <3>3, ExecutedType DEF Nonce
      <4> QED BY <3>3, <4>1 DEF SenderInvariant, NoncesArePositions, Nonce
    <3> QED BY <3>1, <3>2, <3>3
  <2>2. CASE executed' = executed
    BY <2>2 DEF SenderInvariant, NoncesArePositions, Nonce
  <2>3. ASSUME NEW t \in pool, Execute(t) PROVE NoncesArePositions'
    BY <2>1, <2>3, PoolType DEF Execute
  <2>4. ASSUME NEW a \in Account, ExecuteForeign(a) PROVE NoncesArePositions'
    <3>1. Foreign(a, Nonce(a)) \in Executed
      BY NonceType DEF Foreign, Executed
    <3>2. Foreign(a, Nonce(a)).from = a /\ Foreign(a, Nonce(a)).nonce = Nonce(a)
      BY DEF Foreign
    <3> QED BY <2>1, <2>4, <3>1, <3>2 DEF ExecuteForeign
  <2> QED BY <2>2, <2>3, <2>4 DEF Network, Drop
<1> QED BY <1>3, <1>4, <1>5 DEF SenderInvariant

LEMMA InitSenderInvariant == Init => SenderInvariant
BY DEF Init, SenderInvariant, SentInTurn, InTurn, NoncesArePositions, Nonce

LEMMA NextSenderInvariant == TypeOK /\ SenderInvariant /\ [Next]_vars => SenderInvariant'
<1> SUFFICES ASSUME TypeOK, SenderInvariant, [Next]_vars PROVE SenderInvariant'
  OBVIOUS
<1>1. CASE UNCHANGED vars
  BY <1>1, UntouchedSenders DEF vars
<1>2. CASE Creator
  <2>1. UNCHANGED <<sender, network>>
    BY <1>2 DEF Creator, StartCreator, CreatorFails, MissingPem, CreateTxs, Created
  <2> QED BY <2>1, UntouchedSenders
<1> QED BY <1>1, <1>2, SenderStepInvariant, NetworkInvariant DEF Next

(* The awaited nonces and the pool agree, for all constants.               *)
THEOREM SenderInvariantHolds == Spec => []SenderInvariant
BY TypeCorrect, InitSenderInvariant, NextSenderInvariant, PTL DEF Spec

(* No transaction is in the pool before its turn.                          *)
THEOREM TransactionsSentInTurn == Spec => []SentInTurn
<1>1. SenderInvariant => SentInTurn
  BY DEF SenderInvariant
<1> QED BY SenderInvariantHolds, <1>1, PTL

LEMMA SentExecuted == TypeOK /\ SenderInvariant => SentAreExecuted
<1> SUFFICES ASSUME TypeOK, SenderInvariant,
                    NEW s \in Shard, txs[s] # NoFile, Undisturbed(txs[s]),
                    NEW i \in start[s]..(idx[s] - 2)
             PROVE  \E p \in 1..Nonce(txs[s].from) : executed[txs[s].from][p] = Tx(txs[s], i)
  BY DEF SentAreExecuted
<1> DEFINE f == txs[s]
           p == f.base + i + 1
<1>1. f \in Transactions /\ f.from \in Account /\ f.base \in Nat /\ idx[s] \in Nat
      /\ start[s] \in Nat /\ Nonce(f.from) \in Nat
  BY SenderFileType
<1>2. Expected(s) - 1 <= Nonce(f.from)
  BY <1>1 DEF SenderInvariant, InTurn
<1>3. i \in Nat /\ p \in (f.base + 1)..Nonce(f.from) /\ p \in 1..Nonce(f.from)
  BY <1>1, <1>2 DEF Expected
<1> HIDE DEF f
<1>4. /\ executed[f.from][p].from = f.from /\ executed[f.from][p].nonce = p - 1
      /\ executed[f.from][p].shard = f.shard /\ executed[f.from][p].run = f.run
  BY <1>1, <1>3 DEF SenderInvariant, NoncesArePositions, Undisturbed, f
<1>5. executed[f.from][p] \in Executed
  BY <1>1, <1>3, ExecutedType DEF Nonce
<1>6. executed[f.from][p] = Tx(f, i)
  BY <1>1, <1>3, <1>4, <1>5 DEF Executed, Tx
<1> QED BY <1>3, <1>6 DEF f

(* With the account to itself, a sender loses at most its last transaction.*)
THEOREM SentTransactionsAreExecuted == Spec => []SentAreExecuted
BY TypeCorrect, SenderInvariantHolds, SentExecuted, PTL

-----------------------------------------------------------------------------
(* The shards that metaDataRemover has gone through have their files.      *)
CreatorInvariant ==
  /\ cpc = "ok" => todo = {}
  /\ cpc \in {"create", "ok"} => \A s \in DOMAIN input \ (unsaved \cup todo) :
       /\ s \in DOMAIN pems
       /\ file[s] # NoFile
       /\ file[s].run = run /\ file[s].from = pems[s] /\ file[s].num = input[s]

LEMMA NextCreatorInvariant == TypeOK /\ CreatorInvariant /\ [Next]_vars => CreatorInvariant'
<1> SUFFICES ASSUME TypeOK, CreatorInvariant, [Next]_vars PROVE CreatorInvariant'
  OBVIOUS
<1>1. CASE UNCHANGED <<creator, file>>
  BY <1>1 DEF CreatorInvariant, creator
<1>2. CASE \E in \in Inputs, dir \in PemDirs : StartCreator(in, dir)
  BY <1>2 DEF StartCreator, CreatorInvariant
<1>3. CASE CreatorFails \/ (\E s \in todo : MissingPem(s)) \/ Created
  BY <1>3 DEF CreatorFails, MissingPem, Created, CreatorInvariant
<1>4. ASSUME NEW s \in todo, NEW n \in 0..(IF s \in DOMAIN pems THEN Nonce(pems[s]) ELSE 0),
             CreateTxs(s, n)
      PROVE  CreatorInvariant'
  <2> DEFINE new == [shard |-> s, run |-> run, from |-> pems[s], base |-> n, num |-> input[s]]
  <2>1. /\ cpc' = "create" /\ todo' = todo \ {s} /\ UNCHANGED <<input, pems, run>>
        /\ s \in DOMAIN pems
    BY <1>4 DEF CreateTxs
  <2>2. s \in Shard /\ pems[s] \in Account /\ input[s] \in Nat /\ n \in Nat /\ run \in Nat
    BY <1>4, NonceType DEF CreateTxs, TypeOK
  <2>3. new \in Transactions /\ new # NoFile
        /\ new.run = run /\ new.from = pems[s] /\ new.num = input[s]
    BY <2>2, SenderAssumption DEF Transactions
  <2> HIDE DEF new
  <2>4. \A r \in Shard \ {s} : file'[r] = file[r]
    BY <1>4, SenderTypes DEF CreateTxs
  <2>5. unsaved \subseteq unsaved' /\ (s \in unsaved' \/ file'[s] = new)
    BY <1>4, <2>2, SenderTypes DEF CreateTxs, new
  <2>6. DOMAIN input \subseteq Shard
    BY DEF TypeOK
  <2> QED BY <1>4, <2>1, <2>3, <2>4, <2>5, <2>6 DEF CreatorInvariant, CreateTxs
<1>5. CASE Creator
  BY <1>2, <1>3, <1>4, <1>5 DEF Creator
<1>6. CASE Network \/ \E s \in Shard : Step(s) \/ Stop(s)
             \/ \E i \in 0..(IF file[s] = NoFile THEN 0 ELSE file[s].num) : StartSender(s, i)
  <2>1. UNCHANGED <<creator, file>>
    BY <1>6 DEF Network, Execute, Drop, ExecuteForeign, Step, Stop, StartSender, SeeNonce, Retry,
       GiveUp, Send, SendFails
  <2> QED BY <1>1, <2>1
<1> QED BY <1>1, <1>5, <1>6 DEF Next, vars

(* A run of metaDataRemover that succeeds has made the file of each shard. *)
THEOREM FilesCreatedOnSuccess == Spec => []CreatedOnSuccess
<1>1. Init => CreatorInvariant
  BY DEF Init, CreatorInvariant
<1>2. CreatorInvariant => CreatedOnSuccess
  BY DEF CreatorInvariant, CreatedOnSuccess
<1> QED BY TypeCorrect, <1>1, <1>2, NextCreatorInvariant, PTL DEF Spec
=============================================================================
