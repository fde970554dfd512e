------------------------- MODULE ZeroBalanceProofs -------------------------
(* However the tokens move, the files overlap and the requests fail: what  *)
(* zeroBalanceSystemAccountChecker exports is held by nobody it knows of.  *)
EXTENDS ZeroBalance, FiniteSetTheorems, SequenceTheorems, TLAPS

(* A non-empty set of numbers up to n has a greatest one.                  *)
LEMMA HasMaximum ==
  ASSUME NEW n \in Nat, NEW K \in SUBSET (1..n), K # {}
  PROVE  \E k \in K : \A m \in K : m <= k
<1> DEFINE Above(k) == {m \in K : k < m}
           T == {Above(k) : k \in K}
           F == FiniteSubsetsOf(K)
<1>1. IsFiniteSet(K)
  BY FS_Interval, FS_Subset, 1 \in Int, n \in Int, Zenon
<1>2. \A k \in K : Above(k) \in F
  <2> TAKE k \in K
  <2>1. Above(k) \in SUBSET K
    OBVIOUS
  <2> HIDE DEF Above
  <2>2. IsFiniteSet(Above(k))
    BY <1>1, <2>1, FS_Subset, Zenon
  <2> QED BY <2>1, <2>2 DEF FiniteSubsetsOf
<1>3. T \subseteq F /\ T # {}
  BY <1>2, Zenon
<1>4. \A k, m \in K : k < m => <<Above(m), Above(k)>> \in StrictSubsetOrdering(K)
  <2> TAKE k, m \in K
  <2> HAVE k < m
  <2>0. \A x \in K : x \in Int
    OBVIOUS
  <2>1. Above(m) \subseteq Above(k)
    <3> SUFFICES ASSUME NEW x \in K, m < x PROVE k < x
      OBVIOUS
    <3> QED BY <2>0
  <2>2. m \in Above(k) /\ m \notin Above(m)
    BY <2>0
  <2>3. Above(m) \in SUBSET K /\ Above(k) \in SUBSET K
    OBVIOUS
  <2> HIDE DEF Above
  <2> QED BY <2>1, <2>2, <2>3 DEF StrictSubsetOrdering
<1>5. IsWellFoundedOn(StrictSubsetOrdering(K), F)
  BY FS_StrictSubsetOrderingWellFounded, Zenon
<1>6. \A k \in K : Above(k) \in T
  OBVIOUS
<1>7. \A x \in T : \E k \in K : x = Above(k)
  OBVIOUS
<1> HIDE DEF T, F, Above
<1>8. PICK x \in T : \A y \in T : <<y, x>> \notin StrictSubsetOrdering(K)
  BY <1>3, <1>5, WFMin, Zenon
<1>9. PICK k \in K : x = Above(k)
  BY <1>7
<1>10. \A m \in K : ~(k < m)
  BY <1>4, <1>6, <1>8, <1>9
<1> QED BY <1>10

-----------------------------------------------------------------------------
File == [shard : Shard, tokens : AddressTokensMap]

LEMMA MapType ==
  ASSUME NEW m, DOMAIN m \subseteq Address, m = [a \in DOMAIN m |-> m[a]],
         \A a \in DOMAIN m : m[a] \subseteq Token
  PROVE  m \in AddressTokensMap
BY DEF AddressTokensMap

LEMMA MapElements ==
  ASSUME NEW m \in AddressTokensMap
  PROVE  DOMAIN m \subseteq Address /\ \A a \in DOMAIN m : m[a] \subseteq Token
BY DEF AddressTokensMap

LEMMA FilesType ==
  ASSUME TypeOK
  PROVE  /\ Len(files) \in Nat /\ DOMAIN files = 1..Len(files)
         /\ \A k \in DOMAIN files : files[k].shard \in Shard /\ files[k].tokens \in AddressTokensMap
<1>1. files \in Seq(File)
  BY DEF TypeOK, File
<1>2. Len(files) \in Nat /\ DOMAIN files = 1..Len(files) /\ \A k \in DOMAIN files : files[k] \in File
  BY <1>1
<1> QED BY <1>2 DEF File

LEMMA ContentType ==
  ASSUME TypeOK, NEW k \in DOMAIN files
  PROVE  /\ Content(k) \in AddressTokensMap
         /\ DOMAIN Content(k) = DOMAIN files[k].tokens
         /\ \A a \in DOMAIN Content(k) : Content(k)[a] = files[k].tokens[a] \cap HasNonce
<1>1. files[k].tokens \in AddressTokensMap
  BY FilesType
<1>2. /\ DOMAIN files[k].tokens \subseteq Address
      /\ \A a \in DOMAIN files[k].tokens : files[k].tokens[a] \subseteq Token
  BY <1>1, MapElements
<1>3. /\ DOMAIN Content(k) = DOMAIN files[k].tokens
      /\ Content(k) = [a \in DOMAIN Content(k) |-> Content(k)[a]]
      /\ \A a \in DOMAIN Content(k) : Content(k)[a] = files[k].tokens[a] \cap HasNonce
  BY DEF Content
<1> QED BY <1>2, <1>3, MapType

LEMMA MergedType ==
  ASSUME TypeOK
  PROVE  Merged \in AddressTokensMap
<1>1. Merged = [a \in DOMAIN Merged |-> Merged[a]]
      /\ DOMAIN Merged = UNION {DOMAIN Content(k) : k \in DOMAIN files}
      /\ \A a \in DOMAIN Merged : Merged[a] = UNION {GetTokens(Content(k), a) : k \in DOMAIN files}
  BY DEF Merged
<1>2. \A k \in DOMAIN files : /\ DOMAIN Content(k) \subseteq Address
                              /\ \A a \in DOMAIN Content(k) : Content(k)[a] \subseteq Token
  BY ContentType, MapElements
<1>3. \A k \in DOMAIN files : \A a : GetTokens(Content(k), a) \subseteq Token
  BY <1>2 DEF GetTokens, HasAddress
<1> QED BY <1>1, <1>2, <1>3, MapType

(* Of the files of a shard there is a last one.                            *)
LEMMA LastFileExists ==
  ASSUME TypeOK, NEW s \in {files[k].shard : k \in DOMAIN files}
  PROVE  /\ LastFile(s) \in DOMAIN files /\ files[LastFile(s)].shard = s
         /\ s \in Shard
<1> DEFINE K == {k \in DOMAIN files : files[k].shard = s}
<1>1. Len(files) \in Nat /\ K \in SUBSET (1..Len(files)) /\ K # {} /\ s \in Shard
  BY FilesType
<1>2. \E k \in K : \A m \in K : m <= k
  <2> HIDE DEF K
  <2> QED BY <1>1, HasMaximum
<1>3. \E k \in DOMAIN files :
         files[k].shard = s /\ \A m \in DOMAIN files : files[m].shard = s => m <= k
  BY <1>2
<1> QED BY <1>1, <1>3 DEF LastFile

LEMMA ShardMapType ==
  ASSUME TypeOK
  PROVE  /\ DOMAIN ShardMap \subseteq Shard
         /\ \A s \in DOMAIN ShardMap :
              /\ ShardMap[s] \in AddressTokensMap
              /\ LastFile(s) \in DOMAIN files /\ files[LastFile(s)].shard = s
              /\ ShardMap[s] = Content(LastFile(s))
BY LastFileExists, ContentType DEF ShardMap

LEMMA SnapshotType ==
  ASSUME TypeOK, NEW s \in Shard
  PROVE  Snapshot(s) \in AddressTokensMap
<1> DEFINE tokens(x) == IF x = System THEN meta[s]
                        ELSE {y \in Token : x \in holders[y] /\ ShardOf[x] = s}
<1>1. /\ Snapshot(s) = [x \in DOMAIN Snapshot(s) |-> Snapshot(s)[x]]
      /\ DOMAIN Snapshot(s) = {y \in Address : tokens(y) # {}}
      /\ \A x \in DOMAIN Snapshot(s) : Snapshot(s)[x] = tokens(x)
  BY DEF Snapshot
<1>2. meta[s] \subseteq Token
  BY DEF TypeOK
<1>3. \A x : tokens(x) \subseteq Token
  BY <1>2
<1> HIDE DEF tokens
<1> QED BY <1>1, <1>3, MapType

LEMMA GetTokensType ==
  ASSUME NEW m \in AddressTokensMap, NEW a
  PROVE  GetTokens(m, a) \subseteq Token
BY MapElements DEF GetTokens, HasAddress

LEMMA GlobalExtraType ==
  ASSUME TypeOK
  PROVE  GlobalExtra \subseteq Token
<1>1. global \in AddressTokensMap
  BY DEF TypeOK
<1> QED BY <1>1, GetTokensType DEF GlobalExtra

-----------------------------------------------------------------------------
(* The state of the cross-check: what a new token or a new bulk finds.     *)
CheckOrder ==
  /\ pc \in {"export", "extra"} =>
       /\ taken = {} /\ requests = {} /\ token = {} /\ stillExist = {} /\ known = {}
       /\ counter = 0
  /\ pc \in {"collect", "search"} => token = {}
  /\ pc = "check" => \A t \in token : hits[t] # {}

LEMMA InitTypeOK == Init => TypeOK /\ CheckOrder
<1> SUFFICES ASSUME Init PROVE TypeOK /\ CheckOrder
  OBVIOUS
<1>1. holders \in [Token -> SUBSET Account] /\ meta \in [Shard -> SUBSET Token]
  BY ZeroBalanceAssumption DEF Init, World
<1>2. <<>> \in AddressTokensMap
  <2>1. <<>> \in [{} -> SUBSET Token]
    OBVIOUS
  <2> QED BY <2>1 DEF AddressTokensMap
<1>3. MaxRetrials \in Nat
  BY ZeroBalanceAssumption
<1> QED BY <1>1, <1>2, <1>3 DEF Init, TypeOK, CheckOrder, Ended

LEMMA NetworkTypeOK ==
  ASSUME TypeOK, CheckOrder, Network
  PROVE  TypeOK' /\ CheckOrder'
<1>1. ASSUME NEW t \in Token, NEW a \in Account, Arrive(t, a)
      PROVE  TypeOK' /\ CheckOrder'
  <2>1. holders' \in [Token -> SUBSET Account] /\ meta' \in [Shard -> SUBSET Token]
        /\ transit' \subseteq Token /\ moved' \subseteq Token /\ moves' \in Nat
    BY <1>1, ZeroBalanceAssumption DEF Arrive, TypeOK
  <2>2. UNCHANGED <<files, inputs, perShard, check, output, pc>>
    BY <1>1 DEF Arrive
  <2> QED BY <2>1, <2>2 DEF TypeOK, CheckOrder, inputs, check
<1>2. ASSUME NEW t \in Token, NEW a \in Account, NEW all \in BOOLEAN, Depart(t, a, all)
      PROVE  TypeOK' /\ CheckOrder'
  <2>1. holders' \in [Token -> SUBSET Account] /\ meta' \in [Shard -> SUBSET Token]
        /\ transit' \subseteq Token /\ moved' \subseteq Token /\ moves' \in Nat
    BY <1>2 DEF Depart, TypeOK
  <2>2. UNCHANGED <<files, inputs, perShard, check, output, pc>>
    BY <1>2 DEF Depart
  <2> QED BY <2>1, <2>2 DEF TypeOK, CheckOrder, inputs, check
<1>3. ASSUME NEW s \in Shard, Export(s)
      PROVE  TypeOK' /\ CheckOrder'
  <2>1. [shard |-> s, tokens |-> Snapshot(s)] \in File
    BY SnapshotType DEF File
  <2> DEFINE file == [shard |-> s, tokens |-> Snapshot(s)]
  <2>4. files \in Seq(File) /\ file \in File
    BY <2>1 DEF TypeOK, File
  <2>5. files' = Append(files, file) \/ files' = <<file>> \o files
    BY <1>3 DEF Export
  <2> HIDE DEF file
  <2>6. <<file>> \in Seq(File)
    BY <2>4
  <2>7. Append(files, file) \in Seq(File) /\ <<file>> \o files \in Seq(File)
    BY <2>4, <2>6, AppendProperties, ConcatProperties, Zenon
  <2>2. files' \in Seq(File)
    BY <2>5, <2>7
  <2>3. UNCHANGED <<world, inputs, perShard, check, output, pc>>
    BY <1>3 DEF Export
  <2> QED BY <2>2, <2>3 DEF TypeOK, CheckOrder, world, inputs, check, File
<1> QED BY <1>1, <1>2, <1>3 DEF Network

LEMMA ReadTypeOK ==
  ASSUME TypeOK, CheckOrder,
         \/ ReadFails \/ Read \/ NoSystemAccount \/ SanityCheckFails \/ SearchFails
         \/ CouldNotGetBalance \/ SaveFails \/ Save
  PROVE  TypeOK' /\ CheckOrder'
<1> USE DEF world, inputs, check
<1>1. CASE Read
  <2>1. /\ global' \in AddressTokensMap /\ DOMAIN shardMap' \subseteq Shard
        /\ \A s \in DOMAIN shardMap' : shardMap'[s] \in AddressTokensMap
    BY <1>1, MergedType, ShardMapType DEF Read
  <2>2. pc = "export" /\ pc' = "extra" /\ UNCHANGED <<world, files, extra, perShard, check, output>>
    BY <1>1 DEF Read
  <2> QED BY <2>1, <2>2 DEF TypeOK, CheckOrder
<1>2. CASE ReadFails \/ NoSystemAccount \/ SearchFails \/ CouldNotGetBalance \/ SaveFails
  BY <1>2 DEF ReadFails, NoSystemAccount, SearchFails, CouldNotGetBalance, SaveFails, Fail,
     TypeOK, CheckOrder, Ended
<1>3. CASE SanityCheckFails
  BY <1>3 DEF SanityCheckFails, TypeOK, CheckOrder, Ended
<1>4. CASE Save
  BY <1>4 DEF Save, TypeOK, CheckOrder, Ended
<1> QED BY <1>1, <1>2, <1>3, <1>4

LEMMA ExtraTypeOK ==
  ASSUME TypeOK, CheckOrder, NEW crossCheck \in BOOLEAN, GetExtraTokens(crossCheck)
  PROVE  TypeOK' /\ CheckOrder'
<1>1. extra' \subseteq Token
  BY GlobalExtraType DEF GetExtraTokens
<1>2. /\ DOMAIN perShard' \subseteq Shard
      /\ \A s \in DOMAIN perShard' : perShard'[s] \subseteq Token
  BY GlobalExtraType DEF GetExtraTokens, ShardExtra, TypeOK
<1>3. /\ pc = "extra" /\ pc' \in {"collect", "save"}
      /\ UNCHANGED <<world, files, shardMap, global, check, output>>
  BY DEF GetExtraTokens
<1> QED BY <1>1, <1>2, <1>3 DEF TypeOK, CheckOrder, Ended, world, check

LEMMA BulkTypeOK ==
  ASSUME TypeOK, CheckOrder,
         \/ \E t \in extra : Collect(t)
         \/ \E found \in [requests -> Pages] : Search(found)
         \/ BulkChecked \/ CountTokens \/ Remove
  PROVE  TypeOK' /\ CheckOrder'
<1> USE DEF world, inputs, check
<1>1. CASE \E t \in extra : Collect(t)
  BY <1>1 DEF Collect, TypeOK, CheckOrder, Ended
<1>2. ASSUME NEW found \in [requests -> Pages], Search(found)
      PROVE  TypeOK' /\ CheckOrder'
  <2>1. hits' \in [requests -> SUBSET Account] /\ requests' = requests
    BY <1>2 DEF Search, Pages
  <2>2. pc = "search" /\ token = {} /\ token' = {} /\ pc' = "check"
    BY <1>2 DEF Search, CheckOrder
  <2>3. known' \subseteq taken' /\ moved' \subseteq Token
    BY <1>2 DEF Search, TypeOK
  <2>4. UNCHANGED <<holders, transit, meta, moves, files, inputs, perShard, taken, counter,
                    retrials, stillExist, output>>
    BY <1>2 DEF Search
  <2> QED BY <2>1, <2>2, <2>3, <2>4 DEF TypeOK, CheckOrder, Ended
<1>3. CASE BulkChecked
  <2>1. pc = "check" /\ pc' = "collect" /\ token' = token /\ requests' = {}
        /\ \A t \in requests : hits[t] = {}
    BY <1>3 DEF BulkChecked
  <2>2. token = {}
    BY <2>1 DEF TypeOK, CheckOrder
  <2>3. Cardinality(requests) \in Nat
    <3>1. IsFiniteSet(requests)
      BY ZeroBalanceAssumption, FS_Subset DEF TypeOK
    <3> QED BY <3>1, FS_CardinalityType
  <2>4. counter' \in Nat
    BY <1>3, <2>3 DEF BulkChecked, TypeOK
  <2>5. UNCHANGED <<world, files, inputs, perShard, taken, retrials, stillExist, known, output>>
    BY <1>3 DEF BulkChecked
  <2> QED BY <2>1, <2>2, <2>4, <2>5 DEF TypeOK, CheckOrder, Ended
<1>4. CASE CountTokens
  BY <1>4 DEF CountTokens, TypeOK, CheckOrder, Ended
<1>5. CASE Remove
  BY <1>5 DEF Remove, TypeOK, CheckOrder, Ended
<1> QED BY <1>1, <1>2, <1>3, <1>4, <1>5

LEMMA BalanceTypeOK ==
  ASSUME TypeOK, CheckOrder,
         \/ Retry
         \/ \E t \in extra : NextToken(t)
              \/ \E a \in Account : ZeroBalance(t, a) \/ StillExists(t, a)
  PROVE  TypeOK' /\ CheckOrder'
<1> USE DEF world, inputs, check
<1>0. MaxRetrials \in Nat
  BY ZeroBalanceAssumption
<1>1. CASE Retry
  <2>1. retrials' \in 0..MaxRetrials
    BY <1>0, <1>1 DEF Retry, TypeOK
  <2> QED BY <1>1, <2>1 DEF Retry, TypeOK, CheckOrder, Ended
<1>2. CASE \E t \in extra : NextToken(t)
  BY <1>0, <1>2 DEF NextToken, TypeOK, CheckOrder, Ended
<1>3. ASSUME NEW t \in extra, NEW a \in Account, ZeroBalance(t, a)
      PROVE  TypeOK' /\ CheckOrder'
  <2>1. /\ pc = "check" /\ t \in token /\ a \in hits[t] /\ t \in requests
        /\ hits \in [requests -> SUBSET Account]
    BY <1>3 DEF ZeroBalance, TypeOK
  <2>2. hits' \in [requests -> SUBSET Account] /\ token' \subseteq token
        /\ hits' = [hits EXCEPT ![t] = hits[t] \ {a}] /\ retrials' \in 0..MaxRetrials
    BY <1>0, <1>3, <2>1 DEF ZeroBalance
  <2>3. \A r \in token' : hits'[r] # {}
    <3>1. CASE hits[t] = {a}
      BY <1>3, <3>1 DEF ZeroBalance
    <3>2. CASE hits[t] # {a}
      BY <1>3, <2>1, <2>2, <3>2 DEF ZeroBalance, CheckOrder, TypeOK
    <3> QED BY <3>1, <3>2
  <2>4. UNCHANGED <<world, files, inputs, perShard, taken, requests, counter, stillExist,
                    known, output, pc>>
    BY <1>3 DEF ZeroBalance
  <2> QED BY <2>1, <2>2, <2>3, <2>4 DEF TypeOK, CheckOrder
<1>4. ASSUME NEW t \in extra, NEW a \in Account, StillExists(t, a)
      PROVE  TypeOK' /\ CheckOrder'
  <2>1. /\ pc = "check" /\ t \in token /\ t \in requests
        /\ hits \in [requests -> SUBSET Account] /\ t \in Token
    BY <1>4 DEF StillExists, TypeOK
  <2>2. hits' \in [requests -> SUBSET Account] /\ token' = {} /\ stillExist' \subseteq Token
    BY <1>4, <2>1 DEF StillExists, TypeOK
  <2>3. UNCHANGED <<world, files, inputs, perShard, taken, requests, counter, retrials,
                    known, output, pc>>
    BY <1>4 DEF StillExists
  <2> QED BY <2>1, <2>2, <2>3 DEF TypeOK, CheckOrder
<1> QED BY <1>1, <1>2, <1>3, <1>4

LEMMA NextTypeOK == TypeOK /\ CheckOrder /\ [Next]_vars => TypeOK' /\ CheckOrder'
<1> SUFFICES ASSUME TypeOK, CheckOrder, [Next]_vars PROVE TypeOK' /\ CheckOrder'
  OBVIOUS
<1>1. CASE UNCHANGED vars
  BY <1>1 DEF vars, world, inputs, check, TypeOK, CheckOrder
<1> QED BY <1>1, NetworkTypeOK, ReadTypeOK, ExtraTypeOK, BulkTypeOK, BalanceTypeOK DEF Next, Tool

LEMMA TypedInOrder == Spec => [](TypeOK /\ CheckOrder)
BY InitTypeOK, NextTypeOK, PTL DEF Spec

(* The variables keep their types, for all tokens, files and bounds.       *)
THEOREM TypeCorrect == Spec => []TypeOK
BY TypedInOrder, PTL

-----------------------------------------------------------------------------
(* Each token that was gone through was asked for or waits in the bulk,    *)
(* which is never left at the end of the loop.                             *)
TokensCounted ==
  /\ pc \in {"export", "extra"} => taken = {} /\ requests = {} /\ counter = 0
  /\ pc \in {"collect", "search", "check"} =>
       counter + Cardinality(requests) = Cardinality(taken)
  /\ pc = "collect" => requests = {} \/ taken # extra
  /\ AllTokensAsked

LEMMA TokensFinite ==
  ASSUME TypeOK
  PROVE  /\ IsFiniteSet(extra) /\ IsFiniteSet(taken) /\ IsFiniteSet(requests)
         /\ Cardinality(extra) \in Nat /\ Cardinality(taken) \in Nat /\ Cardinality(requests) \in Nat
<1>1. extra \in SUBSET Token /\ taken \in SUBSET Token /\ requests \in SUBSET Token
  BY DEF TypeOK
<1>2. IsFiniteSet(extra) /\ IsFiniteSet(taken) /\ IsFiniteSet(requests)
  BY <1>1, ZeroBalanceAssumption, FS_Subset
<1> QED BY <1>2, FS_CardinalityType

LEMMA CollectCounts ==
  ASSUME TypeOK, TokensCounted, NEW t \in extra, Collect(t)
  PROVE  TokensCounted'
<1>1. t \notin taken /\ t \notin requests /\ taken' = taken \cup {t} /\ requests' = requests \cup {t}
      /\ pc = "collect" /\ UNCHANGED <<counter, extra>>
  BY DEF Collect, TypeOK, inputs
<1>2. Cardinality(taken') = Cardinality(taken) + 1 /\ Cardinality(requests') = Cardinality(requests) + 1
  BY <1>1, TokensFinite, FS_AddElement
<1>3. pc' = "search" \/ (pc' = "collect" /\ taken' # extra)
  BY DEF Collect
<1> QED BY <1>1, <1>2, <1>3, TokensFinite DEF TokensCounted, AllTokensAsked, TypeOK

LEMMA BulkCounts ==
  ASSUME TypeOK, TokensCounted, BulkChecked \/ CountTokens
  PROVE  TokensCounted'
<1>1. CASE BulkChecked
  <2>1. counter' = counter + Cardinality(requests) /\ requests' = {} /\ UNCHANGED <<taken, extra>>
        /\ pc = "check" /\ pc' = "collect"
    BY <1>1 DEF BulkChecked, inputs
  <2>2. Cardinality(requests') = 0
    BY <2>1, FS_EmptySet
  <2> QED BY <2>1, <2>2, TokensFinite DEF TokensCounted, AllTokensAsked, TypeOK
<1>2. CASE CountTokens
  <2>1. pc = "collect" /\ taken = extra /\ UNCHANGED <<taken, extra, requests, counter>>
        /\ pc' = IF counter = Cardinality(extra) THEN "remove" ELSE "miscounted"
    BY <1>2 DEF CountTokens, inputs, check
  <2>2. requests = {} /\ Cardinality(requests) = 0
    BY <2>1, FS_EmptySet DEF TokensCounted
  <2>3. counter = Cardinality(extra)
    BY <2>1, <2>2, TokensFinite DEF TokensCounted, TypeOK
  <2> QED BY <2>1, <2>3 DEF TokensCounted, AllTokensAsked
<1> QED BY <1>1, <1>2

LEMMA NextTokensCounted == TypeOK /\ TokensCounted /\ [Next]_vars => TokensCounted'
<1> SUFFICES ASSUME TypeOK, TokensCounted, [Next]_vars PROVE TokensCounted'
  OBVIOUS
<1> USE DEF inputs, check
<1>1. CASE \/ UNCHANGED vars \/ Network
           \/ \E t \in extra : NextToken(t) \/ \E a \in Account : ZeroBalance(t, a) \/ StillExists(t, a)
           \/ Retry
  <2>1. UNCHANGED <<taken, requests, counter, extra, pc>>
    BY <1>1 DEF vars, Network, Arrive, Depart, Export, NextToken, ZeroBalance, StillExists, Retry
  <2> QED BY <2>1 DEF TokensCounted, AllTokensAsked
<1>2. CASE \/ ReadFails \/ NoSystemAccount \/ SearchFails \/ CouldNotGetBalance \/ SaveFails
           \/ SanityCheckFails \/ Remove \/ Save
  <2>1. pc' \in {"failed", "insane", "save", "done"}
    BY <1>2 DEF ReadFails, NoSystemAccount, SearchFails, CouldNotGetBalance, SaveFails, Fail,
       SanityCheckFails, Remove, Save
  <2> QED BY <2>1 DEF TokensCounted, AllTokensAsked
<1>3. CASE Read \/ \E crossCheck \in BOOLEAN : GetExtraTokens(crossCheck)
  <2>1. UNCHANGED <<taken, requests, counter>> /\ pc \in {"export", "extra"}
        /\ pc' \in {"extra", "collect", "save"}
    BY <1>3 DEF Read, GetExtraTokens
  <2>2. taken = {} /\ requests = {} /\ counter = 0
    BY <2>1 DEF TokensCounted
  <2> QED BY <2>1, <2>2, FS_EmptySet DEF TokensCounted, AllTokensAsked
<1>4. CASE \E found \in [requests -> Pages] : Search(found)
  <2>1. UNCHANGED <<taken, requests, counter, extra>> /\ pc = "search" /\ pc' = "check"
    BY <1>4 DEF Search
  <2> QED BY <2>1 DEF TokensCounted, AllTokensAsked
<1> QED BY <1>1, <1>2, <1>3, <1>4, CollectCounts, BulkCounts DEF Next, Tool

(* Each token is asked for exactly once, for any bulk size.                *)
THEOREM EveryTokenAsked == Spec => []AllTokensAsked
<1>1. Init => TokensCounted
  BY DEF Init, TokensCounted, AllTokensAsked
<1>2. TokensCounted => AllTokensAsked
  BY DEF TokensCounted
<1> QED BY TypeCorrect, <1>1, <1>2, NextTokensCounted, PTL DEF Spec

-----------------------------------------------------------------------------
(* What the run has read stays what the files say, and what it exports is  *)
(* never more than the extra tokens of the shard.                          *)
Checking == {"collect", "search", "check", "miscounted", "remove", "save", "done"}

OutputOfFiles ==
  /\ pc \in Checking \cup {"extra", "insane"} => shardMap = ShardMap /\ global = Merged
  /\ pc \in Checking =>
       /\ DOMAIN perShard = DOMAIN shardMap
       /\ \A s \in DOMAIN perShard : perShard[s] \subseteq ShardExtra(s)
  /\ pc = "done" => output = perShard
  /\ pc = "insane" => HasAddress(global, System) /\ ~SanityCheck

LEMMA SameFiles ==
  ASSUME UNCHANGED <<files, shardMap, global>>
  PROVE  /\ (ShardMap)' = ShardMap /\ (Merged)' = Merged /\ (SanityCheck)' = SanityCheck
         /\ HasAddress(global, System)' = HasAddress(global, System)
         /\ \A s : ShardExtra(s)' = ShardExtra(s)
<1>1. \A k : Content(k)' = Content(k) /\ LastFile(k)' = LastFile(k)
  BY DEF Content, LastFile
<1>2. (ShardMap)' = ShardMap /\ (Merged)' = Merged
  BY <1>1 DEF ShardMap, Merged
<1>3. (GlobalExtra)' = GlobalExtra
  BY DEF GlobalExtra
<1>4. \A s : ShardExtra(s)' = ShardExtra(s)
  BY <1>3 DEF ShardExtra
<1>5. (SanityCheck)' = SanityCheck
  BY <1>3, <1>4 DEF SanityCheck
<1> QED BY <1>2, <1>4, <1>5

LEMMA SameOutput ==
  ASSUME OutputOfFiles, UNCHANGED <<files, shardMap, global, perShard, output>>,
         \/ pc' = pc \/ pc' = "failed"
         \/ pc \in Checking /\ pc' \in Checking \ {"done"}
  PROVE  OutputOfFiles'
<1>1. "failed" \notin Checking \cup {"extra", "insane"} /\ "insane" \notin Checking
      /\ "extra" \notin Checking /\ "done" \in Checking
  BY DEF Checking
<1> QED BY SameFiles, <1>1 DEF OutputOfFiles

LEMMA NextOutput == TypeOK /\ OutputOfFiles /\ [Next]_vars => OutputOfFiles'
<1> SUFFICES ASSUME TypeOK, OutputOfFiles, [Next]_vars PROVE OutputOfFiles'
  OBVIOUS
<1> USE DEF inputs
<1>1. CASE \/ UNCHANGED vars
           \/ \E t \in Token, a \in Account : Arrive(t, a) \/ \E all \in BOOLEAN : Depart(t, a, all)
  BY <1>1, SameOutput DEF vars, Arrive, Depart
<1>2. CASE \E s \in Shard : Export(s)
  BY <1>2 DEF Export, OutputOfFiles, Checking
<1>3. CASE ReadFails \/ NoSystemAccount \/ SearchFails \/ CouldNotGetBalance \/ SaveFails
  BY <1>3, SameOutput DEF ReadFails, NoSystemAccount, SearchFails, CouldNotGetBalance, SaveFails, Fail
<1>4. CASE \/ \E t \in extra : Collect(t) \/ NextToken(t)
                \/ \E a \in Account : ZeroBalance(t, a) \/ StillExists(t, a)
           \/ \E found \in [requests -> Pages] : Search(found)
           \/ Retry \/ BulkChecked \/ CountTokens
  <2>1. /\ UNCHANGED <<files, shardMap, global, perShard, output>>
        /\ pc \in {"collect", "search", "check"}
        /\ pc' \in {"collect", "search", "check", "remove", "miscounted"}
    BY <1>4 DEF Collect, NextToken, ZeroBalance, StillExists, Search, Retry, BulkChecked, CountTokens
  <2> QED BY <2>1, SameOutput DEF Checking
<1>5. CASE Read
  <2>1. pc' = "extra" /\ shardMap' = ShardMap /\ global' = Merged /\ files' = files
    BY <1>5 DEF Read
  <2>2. (ShardMap)' = ShardMap /\ (Merged)' = Merged
    <3>1. \A k : Content(k)' = Content(k) /\ LastFile(k)' = LastFile(k)
      BY <2>1 DEF Content, LastFile
    <3> QED BY <2>1, <3>1 DEF ShardMap, Merged
  <2> QED BY <2>1, <2>2 DEF OutputOfFiles, Checking
<1>6. CASE SanityCheckFails
  <2>1. /\ pc = "extra" /\ pc' = "insane" /\ UNCHANGED <<files, shardMap, global>>
        /\ HasAddress(global, System) /\ ~SanityCheck
    BY <1>6 DEF SanityCheckFails, SystemAccountMissing
  <2> QED BY <2>1, SameFiles DEF OutputOfFiles, Checking
<1>7. CASE \E crossCheck \in BOOLEAN : GetExtraTokens(crossCheck)
  <2>1. /\ pc = "extra" /\ pc' \in {"collect", "save"} /\ UNCHANGED <<files, shardMap, global>>
        /\ perShard' = [s \in DOMAIN shardMap |-> ShardExtra(s)]
    BY <1>7 DEF GetExtraTokens
  <2> QED BY <2>1, SameFiles DEF OutputOfFiles, Checking
<1>8. CASE Remove
  <2>1. /\ pc = "remove" /\ pc' = "save" /\ UNCHANGED <<files, shardMap, global>>
        /\ perShard' = [s \in DOMAIN perShard |-> perShard[s] \ stillExist]
    BY <1>8 DEF Remove
  <2> QED BY <2>1, SameFiles DEF OutputOfFiles, Checking
<1>9. CASE Save
  <2>1. /\ pc = "save" /\ pc' = "done" /\ UNCHANGED <<files, shardMap, global, perShard>>
        /\ output' = perShard
    BY <1>9 DEF Save
  <2> QED BY <2>1, SameFiles DEF OutputOfFiles, Checking
<1> QED BY <1>1, <1>2, <1>3, <1>4, <1>5, <1>6, <1>7, <1>8, <1>9 DEF Next, Network, Tool

THEOREM OutputFollowsFiles == Spec => []OutputOfFiles
<1>1. Init => OutputOfFiles
  BY DEF Init, OutputOfFiles, Checking
<1> QED BY TypeCorrect, <1>1, NextOutput, PTL DEF Spec

(* A token that any account of the files holds is not extra.               *)
LEMMA ExtraInNoFile ==
  ASSUME TypeOK, global = Merged, NEW t \in GlobalExtra, NEW k \in DOMAIN files,
         t \in HasNonce, NEW a \in DOMAIN files[k].tokens \ {System}
  PROVE  t \notin files[k].tokens[a]
<1> SUFFICES ASSUME t \in files[k].tokens[a] PROVE FALSE
  OBVIOUS
<1>1. a \in DOMAIN Content(k) /\ t \in Content(k)[a]
  BY ContentType
<1>2. t \in GetTokens(Content(k), a)
  BY <1>1 DEF GetTokens, HasAddress
<1>3. a \in DOMAIN Merged /\ t \in Merged[a]
  BY <1>1, <1>2 DEF Merged
<1>4. a \in DOMAIN Delete(global, System) /\ t \in Delete(global, System)[a]
  BY <1>3 DEF Delete
<1>5. t \in GetAllTokens(Delete(global, System))
  BY <1>4 DEF GetAllTokens
<1> QED BY <1>5 DEF GlobalExtra

LEMMA ShardExtraInFile ==
  ASSUME TypeOK, shardMap = ShardMap, NEW s \in DOMAIN shardMap, NEW t \in ShardExtra(s)
  PROVE  /\ t \in GlobalExtra /\ t \in HasNonce
         /\ \E m \in DOMAIN files : files[m].shard = s /\ t \in GetTokens(files[m].tokens, System)
<1>1. t \in GlobalExtra /\ t \in GetTokens(shardMap[s], System)
  BY DEF ShardExtra
<1>2. LastFile(s) \in DOMAIN files /\ files[LastFile(s)].shard = s /\ shardMap[s] = Content(LastFile(s))
  BY ShardMapType
<1>3. System \in DOMAIN Content(LastFile(s)) /\ t \in Content(LastFile(s))[System]
  BY <1>1, <1>2 DEF GetTokens, HasAddress
<1>4. t \in files[LastFile(s)].tokens[System] \cap HasNonce
      /\ System \in DOMAIN files[LastFile(s)].tokens
  BY <1>2, <1>3, ContentType
<1> QED BY <1>1, <1>2, <1>4 DEF GetTokens, HasAddress

LEMMA OutputHeldByNobody == TypeOK /\ OutputOfFiles => ExportedInNoAccount
<1> SUFFICES ASSUME TypeOK, OutputOfFiles, pc = "done",
                    NEW s \in DOMAIN output, NEW t \in output[s], NEW k \in DOMAIN files
             PROVE  /\ \A a \in DOMAIN files[k].tokens \ {System} : t \notin files[k].tokens[a]
                    /\ \E m \in DOMAIN files : files[m].shard = s
                                               /\ t \in GetTokens(files[m].tokens, System)
  BY DEF ExportedInNoAccount
<1>1. s \in DOMAIN shardMap /\ t \in ShardExtra(s) /\ shardMap = ShardMap /\ global = Merged
  BY DEF OutputOfFiles, Checking
<1>2. /\ t \in GlobalExtra /\ t \in HasNonce
      /\ \E m \in DOMAIN files : files[m].shard = s /\ t \in GetTokens(files[m].tokens, System)
  BY <1>1, ShardExtraInFile
<1> QED BY <1>1, <1>2, ExtraInNoFile

(* What is exported is in a system account and in no other account.        *)
THEOREM ExportedHeldByNobody == Spec => []ExportedInNoAccount
BY TypeCorrect, OutputFollowsFiles, OutputHeldByNobody, PTL

(* With one file for each shard the shards make up the whole.              *)
LEMMA OneFileIsSane ==
  ASSUME TypeOK, shardMap = ShardMap, global = Merged, HasAddress(global, System),
         \A k, m \in DOMAIN files : files[k].shard = files[m].shard => k = m
  PROVE  SanityCheck
<1>1. \A s \in DOMAIN shardMap : ShardExtra(s) \subseteq GlobalExtra
  BY DEF ShardExtra
<1>2. ASSUME NEW t \in GlobalExtra
      PROVE  \E s \in DOMAIN shardMap : t \in ShardExtra(s)
  <2>1. t \in Merged[System] /\ System \in DOMAIN Merged
    BY <1>2 DEF GlobalExtra, GetTokens, HasAddress
  <2>2. PICK k \in DOMAIN files : t \in GetTokens(Content(k), System)
    BY <2>1 DEF Merged
  <2>3. files[k].shard \in DOMAIN ShardMap
    BY DEF ShardMap
  <2>4. ShardMap[files[k].shard] = Content(k)
    BY <2>3, ShardMapType
  <2> QED BY <1>2, <2>2, <2>3, <2>4 DEF ShardExtra
<1> QED BY <1>1, <1>2 DEF SanityCheck

(* The sanity check can only meet two files of one shard.                  *)
THEOREM InsaneMeansDoubleFile == Spec => []SanityMeansDoubleFile
<1>1. TypeOK /\ OutputOfFiles => SanityMeansDoubleFile
  <2> SUFFICES ASSUME TypeOK, OutputOfFiles, pc = "insane"
               PROVE  \E k, m \in DOMAIN files : k # m /\ files[k].shard = files[m].shard
    BY DEF SanityMeansDoubleFile
  <2>1. shardMap = ShardMap /\ global = Merged /\ HasAddress(global, System) /\ ~SanityCheck
    BY DEF OutputOfFiles
  <2> QED BY <2>1, OneFileIsSane
<1> QED BY <1>1, TypeCorrect, OutputFollowsFiles, PTL

-----------------------------------------------------------------------------
(* Until its bulk is checked, a token that stays where it is has a holder  *)
(* among the hits that are left; afterwards it is known to exist.          *)
HolderAmongHits(t) == pc = "check" /\ t \in requests /\ \E a \in hits[t] : a \in holders[t]

CrossChecked ==
  /\ pc \in {"export", "extra"} => known = {}
  /\ pc \in {"collect", "search"} => known \cap requests = {}
  /\ pc \in {"collect", "search", "check", "remove"} =>
       \A t \in known \ moved : t \in stillExist \/ HolderAmongHits(t)
  /\ pc \in {"save", "done"} => \A s \in DOMAIN perShard : perShard[s] \cap (known \ moved) = {}
  /\ pc = "done" => output = perShard

LEMMA MovesCrossChecked ==
  ASSUME TypeOK, CrossChecked, NEW t \in Token, NEW a \in Account,
         Arrive(t, a) \/ \E all \in BOOLEAN : Depart(t, a, all)
  PROVE  CrossChecked'
<1>1. /\ moved' = moved \cup {t} /\ \A r \in Token \ {t} : holders'[r] = holders[r]
      /\ UNCHANGED <<perShard, requests, hits, stillExist, known, output, pc>>
  BY DEF Arrive, Depart, TypeOK, check
<1>2. known \subseteq Token
  BY DEF TypeOK
<1> QED BY <1>1, <1>2 DEF CrossChecked, HolderAmongHits

LEMMA BulkCrossChecked ==
  ASSUME TypeOK, CrossChecked,
         \/ \E t \in extra : Collect(t)
         \/ \E found \in [requests -> Pages] : Search(found)
         \/ BulkChecked \/ CountTokens
  PROVE  CrossChecked'
<1> USE DEF world, inputs, check
<1>1. ASSUME NEW t \in extra, Collect(t) PROVE CrossChecked'
  <2>1. /\ t \notin known /\ requests' = requests \cup {t} /\ pc = "collect"
        /\ pc' \in {"collect", "search"} /\ UNCHANGED <<known, moved, stillExist>>
    BY <1>1 DEF Collect, TypeOK
  <2> QED BY <2>1 DEF CrossChecked, HolderAmongHits
<1>2. ASSUME NEW found \in [requests -> Pages], Search(found) PROVE CrossChecked'
  <2>1. /\ pc = "search" /\ pc' = "check" /\ hits' = found /\ moved' = moved \ requests
        /\ known' = known \cup {t \in requests : found[t] \cap holders[t] # {}}
        /\ UNCHANGED <<holders, requests, stillExist>>
    BY <1>2 DEF Search
  <2>2. ASSUME NEW t \in known' \ moved' PROVE t \in stillExist' \/ HolderAmongHits(t)'
    <3>1. CASE t \in requests
      <4>1. t \notin known
        BY <2>1, <3>1 DEF CrossChecked
      <4>2. found[t] \cap holders[t] # {}
        BY <2>1, <2>2, <4>1
      <4> QED BY <2>1, <3>1, <4>2 DEF HolderAmongHits
    <3>2. CASE t \notin requests
      <4>1. t \in known \ moved
        BY <2>1, <2>2, <3>2
      <4> QED BY <2>1, <4>1 DEF CrossChecked, HolderAmongHits
    <3> QED BY <3>1, <3>2
  <2> QED BY <2>1, <2>2 DEF CrossChecked
<1>3. CASE BulkChecked
  <2>1. /\ pc = "check" /\ pc' = "collect" /\ requests' = {} /\ \A t \in requests : hits[t] = {}
        /\ UNCHANGED <<known, moved, stillExist>>
    BY <1>3 DEF BulkChecked
  <2>2. \A t \in known \ moved : t \in stillExist
    BY <2>1 DEF CrossChecked, HolderAmongHits
  <2> QED BY <2>1, <2>2 DEF CrossChecked
<1>4. CASE CountTokens
  <2>1. pc = "collect" /\ pc' \in {"remove", "miscounted"} /\ UNCHANGED <<known, moved, stillExist>>
    BY <1>4 DEF CountTokens
  <2> QED BY <2>1 DEF CrossChecked, HolderAmongHits
<1> QED BY <1>1, <1>2, <1>3, <1>4

LEMMA BalanceCrossChecked ==
  ASSUME TypeOK, CrossChecked, NEW t \in extra,
         NextToken(t) \/ \E a \in Account : ZeroBalance(t, a) \/ StillExists(t, a)
  PROVE  CrossChecked'
<1>1. /\ pc = "check" /\ UNCHANGED <<pc, known, moved, holders, requests>>
      /\ hits \in [requests -> SUBSET Account]
  BY DEF NextToken, ZeroBalance, StillExists, TypeOK, world
<1>2. CASE NextToken(t)
  BY <1>1, <1>2 DEF NextToken, CrossChecked, HolderAmongHits
<1>3. ASSUME NEW a \in Account, ZeroBalance(t, a) PROVE CrossChecked'
  <2>1. /\ a \notin holders[t] /\ stillExist' = stillExist
        /\ \A r \in requests : hits'[r] = IF r = t THEN hits[t] \ {a} ELSE hits[r]
    BY <1>1, <1>3 DEF ZeroBalance
  <2> QED BY <1>1, <2>1 DEF CrossChecked, HolderAmongHits
<1>4. ASSUME NEW a \in Account, StillExists(t, a) PROVE CrossChecked'
  <2>1. /\ stillExist' = stillExist \cup {t}
        /\ \A r \in requests : r # t => hits'[r] = hits[r]
    BY <1>1, <1>4 DEF StillExists
  <2> QED BY <1>1, <2>1 DEF CrossChecked, HolderAmongHits
<1> QED BY <1>2, <1>3, <1>4

LEMMA NextCrossChecked == TypeOK /\ CrossChecked /\ [Next]_vars => CrossChecked'
<1> SUFFICES ASSUME TypeOK, CrossChecked, [Next]_vars PROVE CrossChecked'
  OBVIOUS
<1> USE DEF world, inputs, check
<1>1. CASE UNCHANGED vars \/ (\E s \in Shard : Export(s)) \/ Retry
  <2>1. UNCHANGED <<pc, known, moved, holders, requests, hits, stillExist, perShard, output>>
    BY <1>1 DEF vars, Export, Retry
  <2> QED BY <2>1 DEF CrossChecked, HolderAmongHits
<1>2. CASE \/ ReadFails \/ NoSystemAccount \/ SearchFails \/ CouldNotGetBalance \/ SaveFails
           \/ SanityCheckFails
  <2>1. pc' \in {"failed", "insane"}
    BY <1>2 DEF ReadFails, NoSystemAccount, SearchFails, CouldNotGetBalance, SaveFails, Fail,
       SanityCheckFails
  <2> QED BY <2>1 DEF CrossChecked
<1>3. CASE Read \/ \E crossCheck \in BOOLEAN : GetExtraTokens(crossCheck)
  <2>1. known' = {} /\ pc' \in {"extra", "collect", "save"}
    BY <1>3 DEF Read, GetExtraTokens, CrossChecked
  <2> QED BY <2>1 DEF CrossChecked
<1>4. CASE Remove
  <2>1. /\ pc = "remove" /\ pc' = "save" /\ UNCHANGED <<known, moved, stillExist>>
        /\ perShard' = [s \in DOMAIN perShard |-> perShard[s] \ stillExist]
    BY <1>4 DEF Remove
  <2>2. \A t \in known \ moved : t \in stillExist
    BY <2>1 DEF CrossChecked, HolderAmongHits
  <2> QED BY <2>1, <2>2 DEF CrossChecked
<1>5. CASE Save
  BY <1>5 DEF Save, CrossChecked
<1> QED BY <1>1, <1>2, <1>3, <1>4, <1>5, MovesCrossChecked, BulkCrossChecked, BalanceCrossChecked
    DEF Next, Network, Tool

(* A token whose holder the indexer names, and that stays, is not exported.*)
THEOREM HeldNeverExported == Spec => []HeldTokensNotExported
<1>1. Init => CrossChecked
  BY DEF Init, CrossChecked
<1>2. CrossChecked => HeldTokensNotExported
  BY DEF CrossChecked, HeldTokensNotExported
<1> QED BY TypeCorrect, <1>1, <1>2, NextCrossChecked, PTL DEF Spec
=============================================================================
