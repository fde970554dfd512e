--------------------------- MODULE IndicesCreator ---------------------------
(***************************************************************************)
(* Runs of the indices-creator tool against one cluster: createIndies and  *)
(* createPoliciesIfEnabled of elasticreindexer/cmd/indices-creator, with   *)
(* the calls of elastic/elasticClient.go.                                  *)
(*                                                                         *)
(* Requests may fail, before or after the cluster executed them; the tool  *)
(* may die at any step; another client may write to a name at any time;    *)
(* the operator may delete indices between two runs.                       *)
(***************************************************************************)
EXTENDS Naturals

CONSTANTS
  Index,       \* index names
  Enabled,     \* config: enabled-indices
  WithPolicy,  \* config: indices-with-policy
  Policies,    \* config: policies.enable
  FoundNames,  \* what may exist under a name before the first run
  MaxFaults,   \* bound on the requests that fail
  MaxRuns      \* bound on the runs

(* What may exist under a name: the alias, the index <name>-000001, or a   *)
(* concrete index of that very name. The name is an alias or an index, and *)
(* the alias is one of <name>-000001.                                      *)
NameStates ==
  {{}, {"suffixed"}, {"concrete"}, {"suffixed", "concrete"}, {"alias", "suffixed"}}

ASSUME CreatorAssumption ==
  /\ FoundNames \subseteq NameStates
  /\ Enabled \subseteq Index /\ WithPolicy \subseteq Index
  /\ Policies \in BOOLEAN
  /\ MaxFaults \in Nat /\ MaxRuns \in Nat

VARIABLES
  templates,   \* names that have a composable index template
  legacy,      \* names that have a template of the legacy kind
  names,       \* [Index -> what exists under the name]
  writeIndex,  \* names whose alias has <name>-000001 as its write index
  policies,    \* names that have a lifecycle policy
  todo,        \* what the loop over the map of indices did not reach
  cur,         \* the index at hand
  policyErr,   \* whether createPoliciesIfEnabled returned an error
  quiet,       \* history: nothing failed, and nobody wrote, since the run began
  unmapped,    \* history: indices that a run created without any template
  faults, runs, pc

cluster == <<templates, legacy, names, writeIndex, policies>>
bounds == <<faults, quiet>>
vars == <<cluster, todo, cur, policyErr, unmapped, bounds, runs, pc>>

Init ==
  /\ templates \in SUBSET Index /\ legacy \in SUBSET Index
  /\ names \in [Index -> FoundNames]
  /\ writeIndex = {} /\ policies = {}
  /\ todo = {} /\ cur \in Index /\ policyErr = FALSE
  /\ unmapped = {}
  /\ faults = 0 /\ quiet = TRUE /\ runs = 0 /\ pc = "idle"

(* The tool reads the templates of the enabled indices and starts.         *)
Launch ==
  /\ pc = "idle" /\ runs < MaxRuns
  /\ todo' = Enabled /\ policyErr' = FALSE /\ quiet' = TRUE
  /\ runs' = runs + 1 /\ pc' = "next"
  /\ UNCHANGED <<cluster, cur, unmapped, faults>>

Answered(next) == pc' = next /\ UNCHANGED bounds

(* The request fails or its answer is lost.                                *)
Fails(next) == faults < MaxFaults /\ faults' = faults + 1 /\ quiet' = FALSE /\ pc' = next

(* An existence check: a failing request, and a status that is neither 200 *)
(* nor 404, are taken for "does not exist".                                *)
Check(step, exists, present, absent) ==
  /\ pc = step
  /\ IF exists THEN Answered(present) \/ Fails(absent) ELSE Answered(absent)
  /\ UNCHANGED <<cluster, todo, cur, policyErr, unmapped, runs>>

(* A request that changes the cluster where it is valid: it is answered,   *)
(* refused, or it fails before or after the cluster executed it.           *)
Request(valid, effect, unchanged, next, failed) ==
  \/ valid /\ effect /\ (Answered(next) \/ Fails(failed))
  \/ unchanged /\ ~valid /\ Answered(failed)
  \/ unchanged /\ Fails(failed)

-----------------------------------------------------------------------------
(* createIndies, whose map gives the indices out in random order.          *)
NextIndex(i) ==
  /\ pc = "next" /\ i \in todo
  /\ cur' = i /\ todo' = todo \ {i} /\ pc' = "template?"
  /\ UNCHANGED <<cluster, policyErr, unmapped, bounds, runs>>

(* DoesTemplateExist asks for templates of the legacy kind (_template).    *)
DoesTemplateExist == Check("template?", cur \in legacy, "index?", "template")

HasTemplate(i) == i \in legacy \cup templates

(* Mutant: an error of PutIndexTemplate is only logged.                    *)
TemplateErrorLogged ==
  /\ pc = "template"
  /\ \/ templates' = templates \cup {cur} /\ Answered("index?")
     \/ UNCHANGED templates /\ Fails("index?")
  /\ UNCHANGED <<legacy, names, writeIndex, policies, todo, cur, policyErr, unmapped, runs>>

(* PutIndexTemplate puts one of the composable kind (_index_template).     *)
PutIndexTemplate ==
  /\ pc = "template"
  /\ Request(TRUE, templates' = templates \cup {cur}, UNCHANGED templates, "index?", "failed")
  /\ UNCHANGED <<legacy, names, writeIndex, policies, todo, cur, policyErr, unmapped, runs>>

(* DoesIndexExist asks for the name, which an alias answers for.           *)
DoesIndexExist == Check("index?", names[cur] \cap {"alias", "concrete"} # {}, "alias?", "index")

CreateIndexWithMapping ==
  /\ pc = "index"
  /\ Request("suffixed" \notin names[cur],
       /\ names' = [names EXCEPT ![cur] = @ \cup {"suffixed"}]
       /\ unmapped' = IF HasTemplate(cur) THEN unmapped ELSE unmapped \cup {cur},
       UNCHANGED <<names, unmapped>>, "alias?", "failed")
  /\ UNCHANGED <<templates, legacy, writeIndex, policies, todo, cur, policyErr, runs>>

(* Mutant: the alias is put only when it is not taken for an index.        *)
IndexMeansAlias ==
  Check("alias?", names[cur] \cap {"alias", "concrete"} # {}, "next", "alias")

DoesAliasExist == Check("alias?", "alias" \in names[cur], "next", "alias")

(* An alias needs its index, and a name that is not an index.              *)
AliasIsValid == "suffixed" \in names[cur] /\ "concrete" \notin names[cur]
AddAlias == names' = [names EXCEPT ![cur] = @ \cup {"alias"}]

PutAlias ==
  /\ pc = "alias"
  /\ Request(AliasIsValid, AddAlias, UNCHANGED names, "next", "failed")
  /\ UNCHANGED <<templates, legacy, writeIndex, policies, todo, cur, policyErr, unmapped, runs>>

IndicesCreated ==
  /\ pc = "next" /\ todo = {}
  /\ IF Policies THEN todo' = WithPolicy /\ pc' = "nextPolicy" ELSE todo' = {} /\ pc' = "done"
  /\ UNCHANGED <<cluster, cur, policyErr, unmapped, bounds, runs>>

-----------------------------------------------------------------------------
(* createPoliciesIfEnabled; main logs its error and goes on.               *)
NextPolicy(i) ==
  /\ pc = "nextPolicy" /\ i \in todo
  /\ cur' = i /\ todo' = todo \ {i} /\ pc' = "write"
  /\ UNCHANGED <<cluster, policyErr, unmapped, bounds, runs>>

SetWriteIndexTrue ==
  /\ pc = "write"
  /\ Request(AliasIsValid, AddAlias /\ writeIndex' = writeIndex \cup {cur},
             UNCHANGED <<names, writeIndex>>, "policy", "done")
  /\ policyErr' = (pc' = "done")
  /\ UNCHANGED <<templates, legacy, policies, todo, cur, unmapped, runs>>

PutPolicy ==
  /\ pc = "policy"
  /\ Request(TRUE, policies' = policies \cup {cur}, UNCHANGED policies, "nextPolicy", "done")
  /\ policyErr' = (pc' = "done")
  /\ UNCHANGED <<templates, legacy, names, writeIndex, todo, cur, unmapped, runs>>

(* Mutant: the loop over the policies ends after its first index.          *)
PoliciesEarly ==
  /\ pc = "nextPolicy" /\ pc' = "done"
  /\ UNCHANGED <<cluster, todo, cur, policyErr, unmapped, bounds, runs>>

PoliciesCreated ==
  /\ pc = "nextPolicy" /\ todo = {} /\ pc' = "done"
  /\ UNCHANGED <<cluster, todo, cur, policyErr, unmapped, bounds, runs>>

-----------------------------------------------------------------------------
(* The process ends, or dies before.                                       *)
Exit ==
  /\ pc # "idle" /\ pc' = "idle"
  /\ UNCHANGED <<cluster, todo, cur, policyErr, unmapped, bounds, runs>>

(* A write to a name that does not exist creates a concrete index.         *)
AutoCreate(i) ==
  /\ names[i] \cap {"alias", "concrete"} = {}
  /\ names' = [names EXCEPT ![i] = @ \cup {"concrete"}] /\ quiet' = FALSE
  /\ UNCHANGED <<templates, legacy, writeIndex, policies, todo, cur, policyErr, unmapped,
                 faults, runs, pc>>

(* The operator deletes what is under a name, to begin anew.               *)
DeleteIndex(i) ==
  /\ pc = "idle"
  /\ names' = [names EXCEPT ![i] = {}] /\ writeIndex' = writeIndex \ {i}
  /\ UNCHANGED <<templates, legacy, policies, todo, cur, policyErr, unmapped, bounds, runs, pc>>

Next ==
  \/ Launch \/ DoesTemplateExist \/ PutIndexTemplate
  \/ DoesIndexExist \/ CreateIndexWithMapping \/ DoesAliasExist \/ PutAlias
  \/ IndicesCreated \/ SetWriteIndexTrue \/ PutPolicy \/ PoliciesCreated
  \/ \E i \in Index : NextIndex(i) \/ NextPolicy(i)
  \/ Exit \/ \E i \in Index : AutoCreate(i) \/ DeleteIndex(i)

Spec == Init /\ [][Next]_vars

-----------------------------------------------------------------------------
TypeOK ==
  /\ templates \in SUBSET Index /\ legacy \in SUBSET Index
  /\ names \in [Index -> NameStates]
  /\ writeIndex \in SUBSET Index /\ policies \in SUBSET Index
  /\ todo \in SUBSET Index /\ cur \in Index /\ policyErr \in BOOLEAN /\ quiet \in BOOLEAN
  /\ unmapped \in SUBSET Index
  /\ faults \in Nat /\ runs \in Nat
  /\ pc \in {"idle", "next", "template?", "template", "index?", "index", "alias?", "alias",
             "nextPolicy", "write", "policy", "done", "failed"}

(* STEP 2 of README.md finds the destination prepared: when the tool says  *)
(* that all indices were created, each enabled one has its template and is *)
(* an alias of <name>-000001, whatever checks failed, whoever wrote to the *)
(* name meanwhile, and whatever earlier runs left.                         *)
PreparedOnSuccess ==
  pc = "done" => \A i \in Enabled : names[i] = {"alias", "suffixed"} /\ HasTemplate(i)

(* Without an error of the policies, each index that should have a policy  *)
(* has it, and takes the writes to its alias.                              *)
PoliciesOnSuccess ==
  pc = "done" /\ Policies /\ ~policyErr => WithPolicy \subseteq policies \cap writeIndex

(* No run creates an index before its template is there: the mappings of   *)
(* an index cannot be added afterwards.                                    *)
CreatedUnderTemplate == unmapped = {}

(* README.md: the tool is run in order to create all the indices. A run    *)
(* that nothing disturbs fails only on an index in the alias's place.      *)
QuietRunSucceeds ==
  pc = "failed" /\ quiet => \E i \in Enabled : "concrete" \in names[i]
=============================================================================
