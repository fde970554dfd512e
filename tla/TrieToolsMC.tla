---------------------------- MODULE TrieToolsMC ----------------------------
(* Two accounts and a node of code; a shard with tokens t, u and a         *)
(* metachain; complete databases, ones with a missing epoch, an extra      *)
(* directory, a flat one, and ones in which a node is lost.                *)
EXTENDS TrieTools, TLC

CONSTANTS s0, s1, meta, root, root2, a, b, code, t, u, v, k

MCDb == {s0, s1, meta}
MCNode == {root, root2, a, b, code, t, u, v, k}
Dirs(nums) == {[num |-> n, plain |-> TRUE] : n \in nums}
Everywhere(p) == [n \in MCNode |-> p]
Split == [n \in MCNode |-> IF n \in {a, t} THEN 1 ELSE 0]
World(ds, p) ==
  [dirs |-> [d \in MCDb |-> IF d = s0 THEN ds ELSE Dirs({0})],
   place |-> [d \in MCDb |-> IF d = s0 THEN p ELSE Everywhere(0)]]
MCDatabases ==
  {World(Dirs({0, 1}), Split), World(Dirs({1}), Split), World({}, Everywhere(Flat)),
   World(Dirs({0, 1}) \cup {[num |-> 1, plain |-> FALSE]}, Split)}
  \cup {World(Dirs({0, 1}), [Split EXCEPT ![n] = Lost]) : n \in {root, b, t, u}}
  \cup {[World(Dirs({0}), Everywhere(0)) EXCEPT !.place[meta][u] = Lost],
        [World(Dirs({0}), Everywhere(0)) EXCEPT !.dirs[s1] = {}]}

MCAccount == {a, b}
MCItem == {t, u, k}
MCMain == {a, b, code}
MCData == a :> {t, u, k} @@ b :> {u}
MCEsdt == {t, u}
MCTokenName == t :> "TKR-1" @@ u :> "TKR-2"

MCRootOf == [d \in MCDb |-> root]
MCEsdts == {t, u, v, k}
MCType == {"fungible", "nft", "sft"}
MCDeclared == t :> "nft" @@ u :> "sft" @@ v :> V1 @@ k :> "fungible"
MCByte == {NoByte, 0, 2, 5}
MCTypeOfByte == 2 :> "nft" @@ 5 :> "sft"
MCStored ==
  s0 :> (t :> 0 @@ u :> 5 @@ v :> NoByte @@ k :> NoByte)
  @@ s1 :> (t :> 5 @@ u :> 0 @@ v :> 2 @@ k :> NoByte)

MCRoot == {root, root2}
MCLeavesOf == root :> {a, b, code} @@ root2 :> {a}
MCZero == root :> {b} @@ root2 :> {}
MCProjected == a :> 0 @@ b :> 1
MCBlock ==
  {[nonce |-> 1, root |-> root, scheduled |-> TRUE],
   [nonce |-> 2, root |-> root, scheduled |-> FALSE],
   [nonce |-> 2, root |-> root2, scheduled |-> FALSE],
   [nonce |-> 3, root |-> root2, scheduled |-> FALSE]}
Option(c, z, s) == [contracts |-> c, zero |-> z, shard |-> s, format |-> "json"]
MCOptions == {Option(TRUE, TRUE, AnyShard), Option(FALSE, FALSE, AnyShard), Option(TRUE, TRUE, 1)}
=============================================================================
