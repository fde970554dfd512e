--------------------------- MODULE TokenIdChecker --------------------------
(***************************************************************************)
(* trieTools/updateTokenIdChecker: was the type that the metachain has for *)
(* a token set in the system accounts of all the shards? It goes through   *)
(* the data trie of the system contract on the metachain, and compares.    *)
(***************************************************************************)
EXTENDS TrieLeaves

CONSTANTS
  Meta,       \* the database of the metachain; the others are the shards
  RootOf,     \* [Db -> Node]: the root hashes given
  Esdts,      \* the leaves of the system contract's data trie
  Type,       \* token types, Fungible one of them
  Fungible,
  Declared,   \* [Esdts -> Type \cup {V1, Garbage}]
  V1,         \* data of the first version, which has no type
  Garbage,    \* data that does not parse
  NoByte,     \* a system account has nothing for a token
  Byte,       \* what it can have, NoByte or a byte, and
  TypeOfByte, \* convertToESDTTokenType: the type of some of the bytes
  Stored      \* [Db \ {Meta} -> [Esdts -> Byte]]

Shards == Db \ {Meta}

ASSUME CheckerAssumption ==
  /\ Meta \in Db /\ RootOf \in [Db -> Node] /\ Esdts \subseteq Node
  /\ Fungible \in Type /\ {V1, Garbage} \cap Type = {} /\ V1 # Garbage
  /\ Declared \in [Esdts -> Type \cup {V1, Garbage}]
  /\ NoByte \in Byte /\ DOMAIN TypeOfByte \subseteq Byte \ {NoByte}
  /\ \A b \in DOMAIN TypeOfByte : TypeOfByte[b] \in Type
  /\ Stored \in [Shards -> [Esdts -> Byte]]

VARIABLES
  filed,    \* tokensMap: [type |-> its tokens]; the type of V1 is V1
  ids,      \* pairs [token, shard] that are still to be compared
  reported, \* what checkUpdateTokenTypeCalled logged, each content once
  counted   \* shards the leaves of which were counted

idVars == <<filed, ids, reported, counted>>

IdInit ==
  /\ filed = [y \in Type \cup {V1} |-> {}]
  /\ ids = {} /\ reported = {} /\ counted = {}

IdStops(why) == pc' = why /\ UNCHANGED <<store, opened, main, data, idVars>>

-----------------------------------------------------------------------------
(* What the lines of the log say. Only the last one names the shard, and   *)
(* one of a value that is no type, like that of a type that was not set,   *)
(* names neither the token nor the shard.                                  *)
NoData(t) == [log |-> "canNotGetTokenData", token |-> t]
WrongLength(t) == [log |-> "tokenDataHasWrongLength", token |-> t]
NotConverted(y, b) == [log |-> "canNotConvertTokenType", type |-> y, value |-> b]
NotTheSame(t, s) ==
  [log |-> "tokenTypeIsNotTheSame", token |-> t, type |-> Declared[t],
   value |-> Stored[s][t], shard |-> s]

-----------------------------------------------------------------------------
(* LoadStateForAllShards: a database with all the epochs for each shard.   *)
LoadShard(d) ==
  /\ pc = "start" /\ opened[d] = {} /\ HasMaxDBValue(d)
  /\ opened' = PruningStorer(d)
  /\ UNCHANGED <<store, main, data, pc, idVars>>

Loaded == \A d \in Db : opened[d] # {}

(* A root hash that does not parse, an account that is not there, ...      *)
LoadFails == pc \in {"start", "system"} /\ IdStops("failed")

RootHashMissing ==
  /\ pc = "start" /\ \E d \in Db : opened[d] # {} /\ ~Readable(d, RootOf[d])
  /\ IdStops("missing")

(* getAllESDTsFromSystemEsdtAccount.                                       *)
StartEsdts ==
  /\ pc = "start" /\ Loaded /\ \A d \in Db : Readable(d, RootOf[d])
  /\ data' = GetAllLeaves(Meta, Esdts) /\ pc' = "esdts"
  /\ UNCHANGED <<store, opened, main, idVars>>

(* Data of the first version stops the parsing as the second one before    *)
(* the type, which is then filed as "".                                    *)
FileToken(t) ==
  /\ pc = "esdts" /\ t \in data.chan
  /\ data' = Received(data, t)
  /\ filed' = IF Declared[t] = Garbage THEN filed
              ELSE [filed EXCEPT ![Declared[t]] = @ \cup {t}]
  /\ UNCHANGED <<store, opened, main, pc, ids, reported, counted>>

(* The channel of errors is not read: what was filed is what is checked.   *)
EsdtsDone ==
  /\ pc = "esdts" /\ Drained(data)
  /\ pc' = "system"
  /\ UNCHANGED <<store, opened, main, data, idVars>>

(* getSystemAccountsForShards; a type that is none ("") is logged, once.   *)
StartCheck ==
  /\ pc = "system" /\ pc' = "compare"
  /\ ids' = [token : UNION {filed[y] : y \in Type \ {Fungible}}, shard : Shards]
  /\ reported' = {NotConverted(y, NoByte) : y \in {y \in {V1} : filed[y] # {}}}
  /\ UNCHANGED <<store, opened, main, data, filed, counted>>

(* checkTokenInAllShards: what it logs of a token and a shard.             *)
HasType(t, s) == Stored[s][t] \in DOMAIN TypeOfByte
Right(t, s) == HasType(t, s) /\ TypeOfByte[Stored[s][t]] = Declared[t]

Logged(t, s) ==
  CASE ~Readable(s, t) -> {NoData(t)}
    [] Readable(s, t) /\ Stored[s][t] = NoByte -> {WrongLength(t)}
    [] Readable(s, t) /\ Stored[s][t] # NoByte /\ ~HasType(t, s) ->
         {NotConverted(Declared[t], Stored[s][t])}
    [] Readable(s, t) /\ HasType(t, s) -> IF Right(t, s) THEN {} ELSE {NotTheSame(t, s)}

(* Mutant: the shards after one without a type are not looked at.          *)
CompareUntilError(t, s) ==
  /\ pc = "compare" /\ [token |-> t, shard |-> s] \in ids
  /\ reported' = reported \cup Logged(t, s)
  /\ ids' = IF Readable(s, t) /\ HasType(t, s)
              THEN ids \ {[token |-> t, shard |-> s]}
              ELSE {p \in ids : p.token # t}
  /\ UNCHANGED <<store, opened, main, data, pc, filed, counted>>

Compare(t, s) ==
  /\ pc = "compare" /\ [token |-> t, shard |-> s] \in ids
  /\ reported' = reported \cup Logged(t, s)
  /\ ids' = ids \ {[token |-> t, shard |-> s]}
  /\ UNCHANGED <<store, opened, main, data, pc, filed, counted>>

(* getNumTokensFromSystemAccount: counts that are logged, like the errors. *)
CountShard(s) ==
  /\ pc = "compare" /\ ids = {} /\ s \in Shards \ counted
  /\ counted' = counted \cup {s}
  /\ data' = GetAllLeaves(s, {t \in Esdts : Stored[s][t] # NoByte}) /\ pc' = "count"
  /\ UNCHANGED <<store, opened, main, filed, ids, reported>>

CountToken(t) ==
  /\ pc = "count" /\ t \in data.chan
  /\ data' = Received(data, t)
  /\ UNCHANGED <<store, opened, main, pc, idVars>>

ShardCounted ==
  /\ pc = "count" /\ Drained(data) /\ pc' = "compare"
  /\ UNCHANGED <<store, opened, main, data, idVars>>

AllCounted == pc = "compare" /\ ids = {} /\ counted = Shards /\ IdStops("done")

NoDirectories ==
  pc = "start" /\ (\E d \in Db : opened[d] = {} /\ ~HasMaxDBValue(d)) /\ IdStops("failed")

IdStep ==
  \/ \E d \in Db : LoadShard(d)
  \/ NoDirectories \/ LoadFails \/ RootHashMissing \/ StartEsdts
  \/ EsdtsDone \/ StartCheck \/ ShardCounted \/ AllCounted
  \/ \E t \in Esdts : FileToken(t) \/ CountToken(t) \/ \E s \in Shards : Compare(t, s)
  \/ \E s \in Shards : CountShard(s)

-----------------------------------------------------------------------------
Types == Type \cup {V1, Garbage}
TokenLines ==
  [log : {"canNotGetTokenData", "tokenDataHasWrongLength"}, token : Esdts]
TypeLines ==
  [log : {"canNotConvertTokenType"}, type : Types, value : Byte]
PairLines ==
  [log : {"tokenTypeIsNotTheSame"}, token : Esdts, type : Types, value : Byte, shard : Shards]
LogLines == TokenLines \cup TypeLines \cup PairLines

IdTypeOK ==
  /\ filed \in [Type \cup {V1} -> SUBSET Esdts]
  /\ ids \subseteq [token : Esdts, shard : Shards]
  /\ reported \subseteq LogLines
  /\ counted \subseteq Shards

(* Of the tokens that have a type on the metachain, and are not fungible,  *)
(* the lines say, and of no other ones:                                    *)
(*   - each shard in which a token has another type, with the token;       *)
(*   - each token that cannot be read, or has nothing, in some shard;      *)
(*   - each type that has a token with a value that is no type in some     *)
(*     shard: which token and which shard, the log does not say.           *)
Typed == {t \in Esdts : Declared[t] \in Type \ {Fungible}}
SaysAll(lines) ==
  /\ \A t \in Typed, s \in Shards :
       NotTheSame(t, s) \in lines <=> Readable(s, t) /\ HasType(t, s) /\ ~Right(t, s)
  /\ \A t \in Typed : NoData(t) \in lines <=> \E s \in Shards : ~Readable(s, t)
  /\ \A t \in Typed :
       WrongLength(t) \in lines <=> \E s \in Shards : Readable(s, t) /\ Stored[s][t] = NoByte
  /\ \A y \in Type \ {Fungible}, b \in Byte \ {NoByte} :
       NotConverted(y, b) \in lines <=>
         /\ b \notin DOMAIN TypeOfByte
         /\ \E t \in Typed, s \in Shards :
              Declared[t] = y /\ Readable(s, t) /\ Stored[s][t] = b
  /\ \A line \in lines : "token" \in DOMAIN line => line.token \in Typed

(* When the metachain's database can be read to its end and the tool ends  *)
(* well, its log says all that is wrong, and nothing else, whatever the    *)
(* databases of the shards lack. (The other tools load one database.)      *)
TypesAreCompared ==
  pc = "done" /\ Loaded /\ (\A n \in Esdts : Readable(Meta, n)) => SaysAll(reported)
=============================================================================
