------------------------ MODULE IndicesCreatorProofs ------------------------
(* The preparation of any number of indices, over any number of runs.      *)
EXTENDS IndicesCreator, TLAPS

LEMMA InitTypeOK == Init => TypeOK
<1> SUFFICES ASSUME Init PROVE TypeOK
  OBVIOUS
<1>1. policyErr \in BOOLEAN /\ quiet \in BOOLEAN
  BY Zenon DEF Init
<1>2. names \in [Index -> NameStates]
  BY CreatorAssumption DEF Init
<1> QED BY <1>1, <1>2 DEF Init, TypeOK

(* What a step may do to the requests that failed.                         *)
LEMMA BoundsType ==
  ASSUME TypeOK, NEW next, Answered(next) \/ Fails(next)
  PROVE  faults' \in Nat /\ quiet' \in BOOLEAN /\ pc' = next
<1>1. faults' \in Nat /\ pc' = next
  BY DEF TypeOK, Answered, Fails, bounds
<1>2. quiet' \in BOOLEAN
  BY Zenon DEF TypeOK, Answered, Fails, bounds
<1> QED BY <1>1, <1>2

(* A check changes nothing; only what exists is found.                     *)
LEMMA CheckStep ==
  ASSUME TypeOK
  PROVE  /\ DoesTemplateExist =>
              /\ pc = "template?" /\ pc' \in {"index?", "template"}
              /\ pc' = "index?" => cur \in legacy
         /\ DoesIndexExist => pc = "index?" /\ pc' \in {"alias?", "index"}
         /\ DoesAliasExist =>
              /\ pc = "alias?" /\ pc' \in {"next", "alias"}
              /\ pc' = "next" => "alias" \in names[cur]
         /\ DoesTemplateExist \/ DoesIndexExist \/ DoesAliasExist =>
              /\ faults' \in Nat /\ quiet' \in BOOLEAN
              /\ UNCHANGED <<cluster, todo, cur, policyErr, unmapped, runs>>
<1>1. ASSUME DoesTemplateExist
      PROVE  /\ pc = "template?" /\ UNCHANGED <<cluster, todo, cur, policyErr, unmapped, runs>>
             /\ \/ cur \in legacy /\ Answered("index?")
                \/ Answered("template") \/ Fails("template")
  BY <1>1 DEF DoesTemplateExist, Check
<1>2. ASSUME DoesIndexExist
      PROVE  /\ pc = "index?" /\ UNCHANGED <<cluster, todo, cur, policyErr, unmapped, runs>>
             /\ Answered("alias?") \/ Answered("index") \/ Fails("index")
  BY <1>2 DEF DoesIndexExist, Check
<1>3. ASSUME DoesAliasExist
      PROVE  /\ pc = "alias?" /\ UNCHANGED <<cluster, todo, cur, policyErr, unmapped, runs>>
             /\ \/ "alias" \in names[cur] /\ Answered("next")
                \/ Answered("alias") \/ Fails("alias")
  BY <1>3 DEF DoesAliasExist, Check
<1>4. ASSUME DoesTemplateExist
      PROVE  faults' \in Nat /\ quiet' \in BOOLEAN
             /\ ((cur \in legacy /\ pc' = "index?") \/ pc' = "template")
  BY <1>1, <1>4, BoundsType
<1>5. ASSUME DoesIndexExist
      PROVE  faults' \in Nat /\ quiet' \in BOOLEAN /\ pc' \in {"alias?", "index"}
  BY <1>2, <1>5, BoundsType
<1>6. ASSUME DoesAliasExist
      PROVE  faults' \in Nat /\ quiet' \in BOOLEAN
             /\ (("alias" \in names[cur] /\ pc' = "next") \/ pc' = "alias")
  BY <1>3, <1>6, BoundsType
<1> QED BY <1>1, <1>2, <1>3, <1>4, <1>5, <1>6

(* Another client's write, and a new alias, leave a name in a legal state. *)
LEMMA NewNameState ==
  ASSUME NEW s \in NameStates
  PROVE  /\ s \cap {"alias", "concrete"} = {} => s \cup {"concrete"} \in NameStates
         /\ "suffixed" \notin s => s \cup {"suffixed"} \in NameStates
         /\ "suffixed" \in s /\ "concrete" \notin s => s \cup {"alias"} = {"alias", "suffixed"}
BY DEF NameStates

(* After a valid alias, the name is what the loop is to make of it.        *)
LEMMA AliasNames ==
  ASSUME TypeOK, AliasIsValid, AddAlias
  PROVE  /\ names' \in [Index -> NameStates]
         /\ names'[cur] = {"alias", "suffixed"}
         /\ \A i \in Index \ {cur} : names'[i] = names[i]
<1>1. names[cur] \in NameStates /\ "suffixed" \in names[cur] /\ "concrete" \notin names[cur]
  BY DEF TypeOK, AliasIsValid
<1>2. names[cur] \cup {"alias"} = {"alias", "suffixed"}
  BY <1>1, NewNameState
<1>3. names' = [names EXCEPT ![cur] = {"alias", "suffixed"}]
  BY <1>2 DEF AddAlias
<1>4. {"alias", "suffixed"} \in NameStates
  BY DEF NameStates
<1> QED BY <1>3, <1>4 DEF TypeOK

LEMMA ChecksTypeOK ==
  ASSUME TypeOK, DoesTemplateExist \/ DoesIndexExist \/ DoesAliasExist
  PROVE  TypeOK'
<1>1. /\ faults' \in Nat /\ quiet' \in BOOLEAN
      /\ pc' \in {"index?", "template", "alias?", "index", "next", "alias"}
      /\ UNCHANGED <<cluster, todo, cur, policyErr, unmapped, runs>>
  BY CheckStep
<1> QED BY <1>1 DEF TypeOK, cluster

LEMMA RequestsTypeOK ==
  ASSUME TypeOK, \/ PutIndexTemplate \/ CreateIndexWithMapping \/ PutAlias
                 \/ SetWriteIndexTrue \/ PutPolicy
  PROVE  TypeOK'
<1>1. CASE PutIndexTemplate
  <2>1. \/ Answered("index?") \/ Answered("failed") \/ Fails("failed")
    BY <1>1 DEF PutIndexTemplate, Request
  <2>2. faults' \in Nat /\ quiet' \in BOOLEAN /\ pc' \in {"index?", "failed"}
    BY <2>1, BoundsType
  <2>3. templates' = templates \/ templates' = templates \cup {cur}
    BY <1>1 DEF PutIndexTemplate, Request
  <2> QED BY <1>1, <2>2, <2>3 DEF PutIndexTemplate, TypeOK
<1>2. CASE CreateIndexWithMapping
  <2>1. \/ Answered("alias?") \/ Answered("failed") \/ Fails("failed")
    BY <1>2 DEF CreateIndexWithMapping, Request
  <2>2. faults' \in Nat /\ quiet' \in BOOLEAN /\ pc' \in {"alias?", "failed"}
    BY <2>1, BoundsType
  <2>3. /\ \/ names' = names
           \/ /\ "suffixed" \notin names[cur]
              /\ names' = [names EXCEPT ![cur] = @ \cup {"suffixed"}]
        /\ unmapped' = unmapped \/ unmapped' = unmapped \cup {cur}
    BY <1>2 DEF CreateIndexWithMapping, Request
  <2>4. "suffixed" \notin names[cur] => names[cur] \cup {"suffixed"} \in NameStates
    BY NewNameState DEF TypeOK
  <2>5. names' \in [Index -> NameStates]
    BY <2>3, <2>4 DEF TypeOK
  <2>6. unmapped' \in SUBSET Index
    BY <2>3 DEF TypeOK
  <2> QED BY <1>2, <2>2, <2>5, <2>6 DEF CreateIndexWithMapping, TypeOK
<1>3. CASE PutAlias
  <2>1. \/ Answered("next") \/ Answered("failed") \/ Fails("failed")
    BY <1>3 DEF PutAlias, Request
  <2>2. faults' \in Nat /\ quiet' \in BOOLEAN /\ pc' \in {"next", "failed"}
    BY <2>1, BoundsType
  <2>3. names' \in [Index -> NameStates]
    BY <1>3, AliasNames DEF PutAlias, Request, TypeOK
  <2> QED BY <1>3, <2>2, <2>3 DEF PutAlias, TypeOK
<1>4. CASE SetWriteIndexTrue
  <2>1. \/ Answered("policy") \/ Answered("done") \/ Fails("done")
    BY <1>4 DEF SetWriteIndexTrue, Request
  <2>2. faults' \in Nat /\ quiet' \in BOOLEAN /\ pc' \in {"policy", "done"}
    BY <2>1, BoundsType
  <2>3. names' \in [Index -> NameStates] /\ writeIndex' \in SUBSET Index
    BY <1>4, AliasNames DEF SetWriteIndexTrue, Request, TypeOK
  <2>4. policyErr' \in BOOLEAN
    BY <1>4, Zenon DEF SetWriteIndexTrue
  <2> QED BY <1>4, <2>2, <2>3, <2>4 DEF SetWriteIndexTrue, TypeOK
<1>5. CASE PutPolicy
  <2>1. \/ Answered("nextPolicy") \/ Answered("done") \/ Fails("done")
    BY <1>5 DEF PutPolicy, Request
  <2>2. faults' \in Nat /\ quiet' \in BOOLEAN /\ pc' \in {"nextPolicy", "done"}
    BY <2>1, BoundsType
  <2>3. policies' \in SUBSET Index
    BY <1>5 DEF PutPolicy, Request, TypeOK
  <2>4. policyErr' \in BOOLEAN
    BY <1>5, Zenon DEF PutPolicy
  <2> QED BY <1>5, <2>2, <2>3, <2>4 DEF PutPolicy, TypeOK
<1> QED BY <1>1, <1>2, <1>3, <1>4, <1>5

LEMMA NextTypeOK == TypeOK /\ [Next]_vars => TypeOK'
<1> SUFFICES ASSUME TypeOK, [Next]_vars PROVE TypeOK'
  OBVIOUS
<1> USE DEF cluster, bounds
<1>1. CASE Launch
  <2>1. policyErr' \in BOOLEAN /\ quiet' \in BOOLEAN
    BY <1>1, Zenon DEF Launch
  <2> QED BY <1>1, <2>1, CreatorAssumption DEF Launch, TypeOK
<1>2. CASE DoesTemplateExist \/ DoesIndexExist \/ DoesAliasExist
  BY <1>2, ChecksTypeOK
<1>3. CASE \/ PutIndexTemplate \/ CreateIndexWithMapping \/ PutAlias
           \/ SetWriteIndexTrue \/ PutPolicy
  BY <1>3, RequestsTypeOK
<1>4. CASE IndicesCreated \/ PoliciesCreated \/ Exit
  BY <1>4, CreatorAssumption DEF IndicesCreated, PoliciesCreated, Exit, TypeOK
<1>5. ASSUME NEW i \in Index, NextIndex(i) \/ NextPolicy(i) PROVE TypeOK'
  BY <1>5 DEF NextIndex, NextPolicy, TypeOK
<1>6. ASSUME NEW i \in Index, AutoCreate(i) PROVE TypeOK'
  <2>1. names' \in [Index -> NameStates]
    BY <1>6, NewNameState DEF AutoCreate, TypeOK
  <2>2. quiet' \in BOOLEAN
    BY <1>6, Zenon DEF AutoCreate
  <2> QED BY <1>6, <2>1, <2>2 DEF AutoCreate, TypeOK
<1>7. ASSUME NEW i \in Index, DeleteIndex(i) PROVE TypeOK'
  <2>1. names' \in [Index -> NameStates]
    BY <1>7 DEF DeleteIndex, TypeOK, NameStates
  <2> QED BY <1>7, <2>1 DEF DeleteIndex, TypeOK
<1>8. CASE UNCHANGED vars
  BY <1>8 DEF vars, TypeOK
<1> QED BY <1>1, <1>2, <1>3, <1>4, <1>5, <1>6, <1>7, <1>8 DEF Next

(* The type invariant of the indices creator.                              *)
THEOREM CreatorTypeOK == Spec => []TypeOK
BY InitTypeOK, NextTypeOK, PTL DEF Spec

-----------------------------------------------------------------------------
Prepared(i) == names[i] = {"alias", "suffixed"} /\ HasTemplate(i)

(* The indices that the loop has passed are prepared, and the index at     *)
(* hand has a template from the first request on.                          *)
LoopInvariant ==
  /\ pc = "next" => \A i \in Enabled \ todo : Prepared(i)
  /\ pc \in {"template?", "template", "index?", "index", "alias?", "alias"} =>
       \A i \in Enabled \ (todo \cup {cur}) : Prepared(i)
  /\ pc \in {"index?", "index", "alias?", "alias"} => HasTemplate(cur)
  /\ pc \in {"nextPolicy", "write", "policy", "done"} => \A i \in Enabled : Prepared(i)
  /\ CreatedUnderTemplate

(* The indices that the loop over the policies has passed have theirs.     *)
PolicyInvariant ==
  /\ pc = "nextPolicy" => WithPolicy \ todo \subseteq policies \cap writeIndex
  /\ pc \in {"write", "policy"} =>
       WithPolicy \ (todo \cup {cur}) \subseteq policies \cap writeIndex
  /\ pc = "policy" => cur \in writeIndex
  /\ PoliciesOnSuccess

LEMMA InitInvariant == Init => LoopInvariant /\ PolicyInvariant
BY DEF Init, LoopInvariant, PolicyInvariant, CreatedUnderTemplate, PoliciesOnSuccess

(* A name that is prepared stays so while a run is under way.              *)
LEMMA PreparedStays ==
  ASSUME NEW i, Prepared(i), names'[i] = names[i], UNCHANGED legacy, templates \subseteq templates'
  PROVE  Prepared(i)'
BY DEF Prepared, HasTemplate

LEMMA LoopInvariantNext ==
  TypeOK /\ LoopInvariant /\ [Next]_vars => LoopInvariant'
<1> SUFFICES ASSUME TypeOK, LoopInvariant, [Next]_vars PROVE LoopInvariant'
  OBVIOUS
<1> USE DEF LoopInvariant, CreatedUnderTemplate, cluster, bounds
<1>1. CASE Launch
  BY <1>1 DEF Launch
<1>2. CASE DoesTemplateExist
  BY <1>2, CheckStep DEF Prepared, HasTemplate
<1>3. CASE DoesIndexExist
  BY <1>3, CheckStep DEF Prepared, HasTemplate
<1>4. CASE DoesAliasExist
  <2>1. /\ pc = "alias?"
        /\ (pc' = "next" /\ "alias" \in names[cur]) \/ pc' = "alias"
        /\ UNCHANGED <<cluster, todo, cur, unmapped>>
    BY <1>4, CheckStep
  <2>2. pc' = "next" => Prepared(cur)
    BY <2>1 DEF Prepared, TypeOK, NameStates
  <2> QED BY <2>1, <2>2 DEF Prepared, HasTemplate
<1>5. CASE PutIndexTemplate
  <2>1. /\ pc = "template" /\ UNCHANGED <<legacy, names, todo, cur, unmapped>>
        /\ \/ templates' = templates \cup {cur} /\ pc' \in {"index?", "failed"}
           \/ templates' = templates /\ pc' = "failed"
    BY <1>5 DEF PutIndexTemplate, Request, Answered, Fails
  <2>2. pc' = "index?" => HasTemplate(cur)'
    BY <2>1 DEF HasTemplate, TypeOK
  <2>3. \A i \in Index : Prepared(i) => Prepared(i)'
    BY <2>1, PreparedStays DEF TypeOK
  <2> QED BY <2>1, <2>2, <2>3, CreatorAssumption
<1>6. CASE CreateIndexWithMapping
  <2>1. /\ pc = "index" /\ UNCHANGED <<templates, legacy, todo, cur>>
        /\ \A i \in Index \ {cur} : names'[i] = names[i]
        /\ unmapped' = unmapped /\ pc' \in {"alias?", "failed"}
    BY <1>6 DEF CreateIndexWithMapping, Request, Answered, Fails, TypeOK
  <2>2. \A i \in Index \ {cur} : Prepared(i) => Prepared(i)'
    BY <2>1, PreparedStays
  <2> QED BY <2>1, <2>2, CreatorAssumption DEF HasTemplate
<1>7. CASE PutAlias
  <2>1. /\ pc = "alias" /\ UNCHANGED <<templates, legacy, todo, cur, unmapped>>
        /\ \/ AliasIsValid /\ AddAlias /\ pc' \in {"next", "failed"}
           \/ names' = names /\ pc' = "failed"
    BY <1>7 DEF PutAlias, Request, Answered, Fails
  <2>2. pc' = "next" => names'[cur] = {"alias", "suffixed"}
    BY <2>1, AliasNames
  <2>3. \A i \in Index \ {cur} : Prepared(i) => Prepared(i)'
    BY <2>1, AliasNames, PreparedStays
  <2> QED BY <2>1, <2>2, <2>3, CreatorAssumption DEF Prepared, HasTemplate
<1>8. CASE IndicesCreated
  BY <1>8 DEF IndicesCreated, Prepared, HasTemplate
<1>9. CASE SetWriteIndexTrue
  <2>1. /\ pc = "write" /\ pc' \in {"policy", "done"}
        /\ UNCHANGED <<templates, legacy, unmapped>>
        /\ (AliasIsValid /\ AddAlias) \/ names' = names
    BY <1>9 DEF SetWriteIndexTrue, Request, Answered, Fails
  <2>2. \A i \in Index : Prepared(i) => names'[i] = names[i]
    BY <2>1, AliasNames DEF Prepared
  <2>3. \A i \in Index : Prepared(i) => Prepared(i)'
    BY <2>1, <2>2, PreparedStays
  <2> QED BY <2>1, <2>3, CreatorAssumption
<1>10. CASE PutPolicy
  BY <1>10 DEF PutPolicy, Request, Answered, Fails, Prepared, HasTemplate
<1>11. CASE PoliciesCreated
  BY <1>11 DEF PoliciesCreated, Prepared, HasTemplate
<1>12. ASSUME NEW i \in Index, NextIndex(i) PROVE LoopInvariant'
  BY <1>12 DEF NextIndex, Prepared, HasTemplate
<1>13. ASSUME NEW i \in Index, NextPolicy(i) PROVE LoopInvariant'
  BY <1>13 DEF NextPolicy, Prepared, HasTemplate
<1>14. CASE Exit
  BY <1>14 DEF Exit
<1>15. ASSUME NEW i \in Index, AutoCreate(i) PROVE LoopInvariant'
  <2>1. /\ names[i] # {"alias", "suffixed"}
        /\ \A j \in Index \ {i} : names'[j] = names[j]
        /\ UNCHANGED <<templates, legacy, todo, cur, unmapped, pc>>
    BY <1>15 DEF AutoCreate, TypeOK
  <2>2. \A j \in Index : Prepared(j) => Prepared(j)'
    BY <2>1, PreparedStays DEF Prepared
  <2> QED BY <2>1, <2>2, CreatorAssumption DEF HasTemplate
<1>16. ASSUME NEW i \in Index, DeleteIndex(i) PROVE LoopInvariant'
  BY <1>16 DEF DeleteIndex
<1>17. CASE UNCHANGED vars
  BY <1>17 DEF vars, Prepared, HasTemplate
<1> QED BY <1>1, <1>2, <1>3, <1>4, <1>5, <1>6, <1>7, <1>8, <1>9, <1>10, <1>11, <1>12,
           <1>13, <1>14, <1>15, <1>16, <1>17 DEF Next

LEMMA PolicyInvariantNext ==
  TypeOK /\ PolicyInvariant /\ [Next]_vars => PolicyInvariant'
<1> SUFFICES ASSUME TypeOK, PolicyInvariant, [Next]_vars PROVE PolicyInvariant'
  OBVIOUS
<1> USE DEF PolicyInvariant, PoliciesOnSuccess, cluster, bounds
<1>1. CASE Launch
  BY <1>1 DEF Launch
<1>2. CASE DoesTemplateExist \/ DoesIndexExist \/ DoesAliasExist
  <2>1. pc' \in {"index?", "template", "alias?", "index", "next", "alias"}
    BY <1>2, CheckStep
  <2> QED BY <2>1
<1>3. CASE PutIndexTemplate \/ CreateIndexWithMapping \/ PutAlias
  <2>1. pc' \in {"index?", "alias?", "next", "failed"}
    BY <1>3 DEF PutIndexTemplate, CreateIndexWithMapping, PutAlias, Request, Answered, Fails
  <2> QED BY <2>1
<1>4. CASE IndicesCreated
  BY <1>4 DEF IndicesCreated
<1>5. CASE SetWriteIndexTrue
  <2>1. /\ pc = "write" /\ UNCHANGED <<policies, todo, cur>>
        /\ \/ pc' = "policy" /\ writeIndex' = writeIndex \cup {cur}
           \/ pc' = "done" /\ policyErr' /\ (writeIndex' = writeIndex \/ writeIndex' = writeIndex \cup {cur})
    BY <1>5 DEF SetWriteIndexTrue, Request, Answered, Fails
  <2> QED BY <2>1
<1>6. CASE PutPolicy
  <2>1. /\ pc = "policy" /\ UNCHANGED <<writeIndex, todo, cur>>
        /\ \/ pc' = "nextPolicy" /\ policies' = policies \cup {cur}
           \/ pc' = "done" /\ policyErr'
    BY <1>6 DEF PutPolicy, Request, Answered, Fails
  <2> QED BY <2>1
<1>7. CASE PoliciesCreated \/ Exit
  BY <1>7 DEF PoliciesCreated, Exit
<1>8. ASSUME NEW i \in Index, NextIndex(i) \/ NextPolicy(i) PROVE PolicyInvariant'
  BY <1>8 DEF NextIndex, NextPolicy
<1>9. ASSUME NEW i \in Index, AutoCreate(i) \/ DeleteIndex(i)
      PROVE  PolicyInvariant'
  BY <1>9 DEF AutoCreate, DeleteIndex
<1>10. CASE UNCHANGED vars
  BY <1>10 DEF vars
<1> QED BY <1>1, <1>2, <1>3, <1>4, <1>5, <1>6, <1>7, <1>8, <1>9, <1>10 DEF Next

(* A run that says that all indices were created has prepared them all.    *)
THEOREM CreatorPrepares == Spec => []PreparedOnSuccess
<1>1. LoopInvariant => PreparedOnSuccess
  BY DEF LoopInvariant, PreparedOnSuccess, Prepared
<1> QED BY <1>1, InitTypeOK, NextTypeOK, InitInvariant, LoopInvariantNext, PTL DEF Spec

(* Every index that the tool creates finds its template.                   *)
THEOREM IndicesHaveTemplates == Spec => []CreatedUnderTemplate
<1>1. LoopInvariant => CreatedUnderTemplate
  BY DEF LoopInvariant
<1> QED BY <1>1, InitTypeOK, NextTypeOK, InitInvariant, LoopInvariantNext, PTL DEF Spec

(* A run without an error of the policies has set them all.                *)
THEOREM PoliciesAreSet == Spec => []PoliciesOnSuccess
<1>1. PolicyInvariant => PoliciesOnSuccess
  BY DEF PolicyInvariant
<1> QED BY <1>1, InitTypeOK, NextTypeOK, InitInvariant, PolicyInvariantNext, PTL DEF Spec
=============================================================================
