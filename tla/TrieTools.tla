----------------------------- MODULE TrieTools -----------------------------
(***************************************************************************)
(* The operator runs one of the trieTools on the databases. The goroutines *)
(* of the traversals go on beside the tool.                                *)
(***************************************************************************)
EXTENDS LeafTools, TokenIdChecker, BalancesExporter

vars == <<trieVars, leafVars, idVars, balVars>>

Tools == LeafTool \cup {"updateTokenIdChecker", "balancesExporter"}

(* Each tool is given its own flags only.                                  *)
Init ==
  /\ TrieInit /\ tool \in Tools /\ LeafInit /\ IdInit /\ BalInit
  /\ tool # "accountStorageExporter" => address = MainRoot
  /\ tool # "balancesExporter" => options = CHOOSE o \in Options : TRUE

Producers == (ProduceMain \/ ProduceData) /\ UNCHANGED <<leafVars, idVars, balVars>>

Tool ==
  \/ tool \in LeafTool /\ LeafStep /\ UNCHANGED <<idVars, balVars>>
  \/ tool = "updateTokenIdChecker" /\ IdStep /\ UNCHANGED <<leafVars, balVars>>
  \/ tool = "balancesExporter" /\ BalStep /\ UNCHANGED <<leafVars, idVars>>

Again ==
  /\ tool = "balancesExporter" /\ \E o \in Options : RunAgain(o)
  /\ UNCHANGED <<leafVars, idVars>>

Next == Producers \/ Tool \/ Again

(* The tool and the two goroutines are scheduled; none waits for anything  *)
(* but the channels.                                                       *)
Spec ==
  /\ Init /\ [][Next]_vars
  /\ WF_vars(ProduceMain /\ UNCHANGED <<leafVars, idVars, balVars>>)
  /\ WF_vars(ProduceData /\ UNCHANGED <<leafVars, idVars, balVars>>)
  /\ WF_vars(Tool)

-----------------------------------------------------------------------------
TypeOK == TrieTypeOK /\ tool \in Tools /\ LeafTypeOK /\ IdTypeOK /\ BalTypeOK

(* A tool ends, though a channel has room for a few leaves only, and a     *)
(* traversal goes on inside another.                                       *)
ToolEnds == (pc = "start") ~> (pc \in Ended)
=============================================================================
