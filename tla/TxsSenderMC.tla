---------------------------- MODULE TxsSenderMC ----------------------------
(* Two shards, one or three transactions each; pems that fit, that are      *)
(* missing, doubled or unreadable, and one key given for both shards.      *)
EXTENDS TxsSender, TLC

CONSTANTS a, b
MCShard == {0, 1}
MCAccount == {a, b}
MCPem(s, x) == [shard |-> s, account |-> x]
MCPemDirs ==
  {<<MCPem(0, a), MCPem(1, b)>>, <<MCPem(0, a), MCPem(1, a)>>, <<MCPem(1, a)>>,
   <<MCPem(0, b), MCPem(0, a)>>, <<MCPem(0, a), MCPem(Bad, b)>>}
MCInputs == {0 :> 3, 0 :> 1 @@ 1 :> 1}
=============================================================================
