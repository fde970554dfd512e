---------------------------- MODULE ReindexerMC ----------------------------
(* Finite values for the constants of Reindexer: one index without         *)
(* timestamp ("accounts", changing documents) and one with timestamps.     *)
EXTENDS Reindexer

CONSTANTS a1, t1, t2     \* documents

MCNoTimestamp == <<"", "accounts">>
MCWithTimestamp == <<"tokens", "">>
MCDoc == {a1, t1, t2}
MCIndexOf == [d \in MCDoc |-> IF d = a1 THEN "accounts" ELSE "tokens"]

MCSkipMappings == [overwrite : BOOLEAN, skipMappings : {TRUE}]
MCPlain == {[overwrite |-> FALSE, skipMappings |-> FALSE]}
MCSkipOnly == {[overwrite |-> FALSE, skipMappings |-> TRUE]}
MCCopyMappings == [overwrite : BOOLEAN, skipMappings : {FALSE}]

(* t1 lies on the boundary of two intervals, t2 in the last one.           *)
MCSource == {[d \in MCDoc |-> IF d = a1 THEN [ver |-> 2, ts |-> 1]
                              ELSE IF d = t1 THEN [ver |-> 2, ts |-> 2]
                              ELSE [ver |-> 1, ts |-> 3]]}
(* The same, with t2 indexed only while the tool runs.                     *)
MCSourceWithoutT2 == {[s EXCEPT ![t2] = [ver |-> 0, ts |-> 0]] : s \in MCSource}

Holding(kinds, docs) == [names |-> [i \in IndexSet |-> kinds],
                         docs |-> [d \in MCDoc |-> IF d \in docs THEN 1 ELSE 0]]
MCEmpty == {Holding({}, {})}
MCPrepared == {Holding({"suffixed", "alias"}, {})}
MCUsed == {Holding({"suffixed", "alias"}, {a1, t1}), Holding({"concrete"}, {a1, t1})}
MCAnyDestination == MCEmpty \cup MCPrepared \cup MCUsed \cup {Holding({"suffixed"}, {})}
=============================================================================
