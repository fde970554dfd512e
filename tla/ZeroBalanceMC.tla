--------------------------- MODULE ZeroBalanceMC ---------------------------
(* Two shards with one account each. The tokens t and, in the first world, *)
(* f, which is fungible, move; in the second one nobody holds the others.  *)
EXTENDS ZeroBalance, TLC

CONSTANTS a, b, t, u, v, f
MCToken == {t, u, v, f}
MCAccount == {a, b}
MCShard == {0, 1}
MCShardOf == a :> 0 @@ b :> 1
MCHasNonce == {t, u, v}
MCWorld(hf, m0, m1) ==
  [holders |-> (t :> {a} @@ u :> {} @@ v :> {} @@ f :> hf), meta |-> (0 :> m0 @@ 1 :> m1)]
MCWorlds == {MCWorld({a}, {t, f}, {}), MCWorld({}, {t, v, f}, {u})}
=============================================================================
