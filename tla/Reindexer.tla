----------------------------- MODULE Reindexer -----------------------------
(***************************************************************************)
(* One run after the other of the elasticreindexer tool: it copies a list  *)
(* of indices without timestamp one by one (ProcessNoTimestamp), and then  *)
(* a list of indices with timestamp (ProcessWithTimestamp), each by        *)
(* several goroutines that copy one interval of time each.                 *)
(*                                                                         *)
(* Around the tool, the environment: the node that goes on indexing into   *)
(* the source cluster, the destination cluster, the observing squad that   *)
(* README.md lets the operator start against the destination, requests     *)
(* that fail or whose answer is lost, crashes and reruns.                  *)
(*                                                                         *)
(* A document is reduced to a version, 0 when it does not exist.           *)
(***************************************************************************)
EXTENDS Integers, Sequences, FiniteSets, ReindexIntervals

CONSTANTS
  IndicesNoTimestamp,     \* config: indices-no-timestamp, a sequence
  IndicesWithTimestamp,   \* config: indices-with-timestamp, a sequence
  Enabled,                \* config: with-timestamp.enabled
  NumParallelWrites,      \* config: num-parallel-writes
  BlockchainStartTime,    \* config: blockchain-start-time
  EmptyName,              \* the index name "", which the tool skips
  Flags,                  \* command lines: [overwrite, skipMappings : BOOLEAN]
  Doc,                    \* the documents, of all the indices
  IndexOf,                \* the index of each document
  PageSize,               \* hits per scroll page, 9000 in the code
  Gated,                  \* indices README.md wants copied before the squad starts
  Mutable,                \* documents whose content is replaced over time
  SourceStates,           \* what the source may hold when the tool is first run
  DestinationStates,      \* what the destination may hold then
  LaunchTime,             \* the time of the first run
  MaxVersion, MaxTime,    \* bounds on what the source node indexes
  MaxFaults, MaxLate,     \* bounds on failing and on delayed requests
  MaxRuns                 \* bound on the runs of the tool

NoTimestampSet == {IndicesNoTimestamp[p] : p \in DOMAIN IndicesNoTimestamp} \ {EmptyName}
WithTimestampSet == {IndicesWithTimestamp[p] : p \in DOMAIN IndicesWithTimestamp} \ {EmptyName}
IndexSet == NoTimestampSet \cup WithTimestampSet

(* The writers of one index: interval numbers, or 0 for a whole index.     *)
Workers == 1..NumIntervals(NumParallelWrites)

(* A job copies one index, or one interval of one index.                   *)
JobIds == (NoTimestampSet \X {0}) \cup (WithTimestampSet \X Workers)

(* What may exist in the destination under an index name: the alias, the   *)
(* index <name>-000001, or a concrete index of that very name, which       *)
(* Elasticsearch creates by itself at the first bulk write to the name.    *)
NameKinds == {"alias", "suffixed", "concrete"}

SourceType == [Doc -> [ver : Nat, ts : Nat]]
DestinationType == [names : [IndexSet -> SUBSET NameKinds], docs : [Doc -> Nat]]

ASSUME ConfigAssumption ==
  /\ IndicesNoTimestamp \in Seq(NoTimestampSet \cup {EmptyName})
  /\ IndicesWithTimestamp \in Seq(WithTimestampSet \cup {EmptyName})
  /\ NoTimestampSet \cap WithTimestampSet = {}
  /\ Enabled \in BOOLEAN
  /\ NumParallelWrites \in Int
  /\ BlockchainStartTime \in Nat \ {0}
  /\ Flags \subseteq [overwrite : BOOLEAN, skipMappings : BOOLEAN]

ASSUME DataAssumption ==
  /\ IndexOf \in [Doc -> IndexSet]
  /\ PageSize \in Nat \ {0}
  /\ LaunchTime \in Nat
  /\ SourceStates \subseteq SourceType
  /\ \A s \in SourceStates, d \in Doc : s[d].ts <= LaunchTime
  /\ DestinationStates \subseteq DestinationType

(* Documents live under a name that exists; an alias is one the tools of   *)
(* this repository make, on <name>-000001; a name is an alias or an index. *)
ASSUME NamesAssumption ==
  \A s \in DestinationStates :
    /\ \A d \in Doc : s.docs[d] > 0 => s.names[IndexOf[d]] \cap {"alias", "concrete"} # {}
    /\ \A i \in IndexSet : /\ "alias" \in s.names[i] => "suffixed" \in s.names[i]
                           /\ ~({"alias", "concrete"} \subseteq s.names[i])

VARIABLES
  flags,      \* the command line of the run
  phase,      \* where startReindexing is
  cur,        \* position in the list of indices of the phase
  now,        \* currentTimestampUnix of ProcessWithTimestamp
  pc,         \* [JobIds -> next step of the job]
  aliasSeen,  \* [JobIds -> the aliasExists of copyMappingIfNecessary]
  snap,       \* [JobIds -> versions that the job's query selected at its search]
  scrollId,   \* [JobIds -> the answer to the search named a scroll]
  rest,       \* [JobIds -> documents of the scroll not yet fetched]
  page,       \* [JobIds -> documents fetched and not yet written]
  skipped,    \* [JobIds -> selected documents that answers with status 200 left out]
  src,        \* [Doc -> version and timestamp in the source]
  src0,       \* [Doc -> version in the source when the run started or, for an index
              \*         with timestamp, when the run cut the time span]
  dest,       \* [Doc -> version in the destination]
  dest0,      \* [Doc -> version in the destination when the run started]
  names,      \* [IndexSet -> what exists in the destination]
  clock,      \* wall clock, in seconds
  late,       \* writes the gateway gave up on and the cluster still executes
  squad,      \* the observing squad writes into the destination
  faults,     \* failed requests so far
  runs        \* runs started so far

mainVars == <<flags, phase, cur, now, runs>>
jobVars  == <<pc, aliasSeen, snap, scrollId, rest, page, skipped>>
scrolls  == <<snap, scrollId, rest, page, skipped>>
srcVars  == <<src, clock>>
dstVars  == <<dest, names, late, squad>>
histVars == <<src0, dest0>>
vars == <<mainVars, jobVars, srcVars, dstVars, histVars, faults>>

Running  == {"noTimestamp", "withTimestamp"}
Phases   == Running \cup {"returned", "refused", "crashed"}
Requests == {"sourceCount", "getMapping", "createIndex", "putAlias", "search",
             "bulk", "scroll", "destinationCount"}
Ended    == {"done", "failed"}
JobSteps == {"idle", "checkAlias", "checkIndex"} \cup Requests \cup Ended

(* The documents that a job's query selects in the source: getAll, or      *)
(* getWithTimestamp on the interval of the job.                            *)
Selected(j, d) ==
  /\ IndexOf[d] = j[1]
  /\ \/ j[2] = 0
     \/ InInterval(BlockchainStartTime, now, NumParallelWrites, j[2], src[d].ts)

Goto(j, step) == pc' = [pc EXCEPT ![j] = step]

(* One more request went wrong.                                            *)
Fault == faults < MaxFaults /\ faults' = faults + 1

Everywhere(x) == [j \in JobIds |-> x]
NoVersions == [d \in Doc |-> 0]

Init ==
  /\ flags \in Flags
  /\ phase = "noTimestamp" /\ cur = 1 /\ now = 0 /\ runs = 1
  /\ pc = Everywhere("idle") /\ aliasSeen = Everywhere(FALSE)
  /\ snap = Everywhere(NoVersions) /\ scrollId = Everywhere(FALSE)
  /\ rest = Everywhere({}) /\ page = Everywhere({}) /\ skipped = Everywhere({})
  /\ src \in SourceStates
  /\ src0 = [d \in Doc |-> src[d].ver]
  /\ \E initial \in DestinationStates :
        names = initial.names /\ dest = initial.docs
  /\ dest0 = dest
  /\ clock = LaunchTime
  /\ late = {} /\ squad = FALSE /\ faults = 0

-----------------------------------------------------------------------------
(* The main goroutine: ProcessNoTimestamp, then ProcessWithTimestamp.      *)

List == IF phase = "noTimestamp" THEN IndicesNoTimestamp ELSE IndicesWithTimestamp

(* The index in turn is "": the loops of both phases pass over it.         *)
SkipEmptyIndex ==
  /\ phase \in Running /\ cur <= Len(List) /\ List[cur] = EmptyName
  /\ cur' = cur + 1
  /\ UNCHANGED <<flags, phase, now, runs, jobVars, srcVars, dstVars, histVars, faults>>

(* Process is called for one index and runs it in this goroutine.          *)
StartIndex ==
  /\ phase = "noTimestamp" /\ cur <= Len(List) /\ List[cur] # EmptyName
  /\ pc[<<List[cur], 0>>] = "idle"
  /\ Goto(<<List[cur], 0>>, "sourceCount")
  /\ UNCHANGED <<mainVars, aliasSeen, scrolls, srcVars, dstVars, histVars, faults>>

(* processIndex returned: nil lets the loop go on, an error ends the run   *)
(* before any index with timestamp.                                        *)
FinishIndex ==
  /\ phase = "noTimestamp" /\ cur <= Len(List) /\ List[cur] # EmptyName
  /\ \/ pc[<<List[cur], 0>>] = "done" /\ cur' = cur + 1 /\ UNCHANGED phase
     \/ pc[<<List[cur], 0>>] = "failed" /\ phase' = "refused" /\ UNCHANGED cur
  /\ UNCHANGED <<flags, now, runs, jobVars, srcVars, dstVars, histVars, faults>>

(* ProcessWithTimestamp: nothing when not enabled, an error when the chain *)
(* starts in the future, otherwise the intervals are cut at the current    *)
(* time, once for all the indices.                                         *)
StartWithTimestamp ==
  /\ phase = "noTimestamp" /\ cur > Len(List)
  /\ \/ ~Enabled /\ phase' = "returned" /\ UNCHANGED <<cur, now, src0>>
     \/ Enabled /\ BlockchainStartTime > clock /\ phase' = "refused"
        /\ UNCHANGED <<cur, now, src0>>
     \/ Enabled /\ BlockchainStartTime <= clock /\ phase' = "withTimestamp"
        /\ cur' = 1 /\ now' = clock
        /\ src0' = [d \in Doc |-> IF IndexOf[d] \in WithTimestampSet THEN src[d].ver ELSE src0[d]]
  /\ UNCHANGED <<flags, runs, jobVars, srcVars, dstVars, dest0, faults>>

(* copyMappingIfNecessary returns at once under --skip-mappings.           *)
FirstStep == IF flags.skipMappings THEN "search" ELSE "checkAlias"

(* reindexBasedOnIntervals starts the goroutines in the order of the       *)
(* intervals.                                                              *)
Spawn(k) ==
  /\ phase = "withTimestamp" /\ cur <= Len(List) /\ List[cur] # EmptyName
  /\ pc[<<List[cur], k>>] = "idle"
  /\ \A m \in 1..(k - 1) : pc[<<List[cur], m>>] # "idle"
  /\ Goto(<<List[cur], k>>, FirstStep)
  /\ UNCHANGED <<mainVars, aliasSeen, scrolls, srcVars, dstVars, histVars, faults>>

(* Mutant: only the goroutines that succeed call Done.                     *)
WaitForSuccesses ==
  /\ phase = "withTimestamp" /\ cur <= Len(List) /\ List[cur] # EmptyName
  /\ \A k \in Workers : pc[<<List[cur], k>>] = "done"
  /\ cur' = cur + 1
  /\ UNCHANGED <<flags, phase, now, runs, jobVars, srcVars, dstVars, histVars, faults>>

(* Mutant: no wg.Wait at all.                                              *)
WaitForNobody ==
  /\ phase = "withTimestamp" /\ cur <= Len(List) /\ List[cur] # EmptyName
  /\ \A k \in Workers : pc[<<List[cur], k>>] # "idle"
  /\ cur' = cur + 1
  /\ UNCHANGED <<flags, phase, now, runs, jobVars, srcVars, dstVars, histVars, faults>>

(* wg.Wait returns when every goroutine ended; their errors were logged    *)
(* only, and the loop goes on.                                             *)
WaitWorkers ==
  /\ phase = "withTimestamp" /\ cur <= Len(List) /\ List[cur] # EmptyName
  /\ \A k \in Workers : pc[<<List[cur], k>>] \in Ended
  /\ cur' = cur + 1
  /\ UNCHANGED <<flags, phase, now, runs, jobVars, srcVars, dstVars, histVars, faults>>

Return ==
  /\ phase = "withTimestamp" /\ cur > Len(List)
  /\ phase' = "returned"
  /\ UNCHANGED <<flags, cur, now, runs, jobVars, srcVars, dstVars, histVars, faults>>

MainStep ==
  \/ SkipEmptyIndex \/ StartIndex \/ FinishIndex \/ StartWithTimestamp
  \/ (\E k \in Workers : Spawn(k)) \/ WaitWorkers \/ Return

-----------------------------------------------------------------------------
(* A job: processIndex, or ProcessIndexWithTimestamp in a goroutine.       *)

(* GetCount on the source, for its answer's error only.                    *)
SourceCount(j) ==
  /\ pc[j] = "sourceCount"
  /\ Goto(j, FirstStep)
  /\ UNCHANGED <<mainVars, aliasSeen, scrolls, srcVars, dstVars, histVars, faults>>

(* What an existence check answers: the truth, or, when the request fails  *)
(* or the status is neither 200 nor 404, that nothing exists.              *)
Answers(truth, seen) ==
  \/ seen = truth /\ UNCHANGED faults
  \/ seen = FALSE /\ Fault

(* aliasExists := DoesAliasExist(index); an error without --overwrite.     *)
CheckAlias(j) ==
  /\ pc[j] = "checkAlias"
  /\ \E seen \in BOOLEAN :
        /\ Answers("alias" \in names[j[1]], seen)
        /\ IF seen /\ ~flags.overwrite
             THEN Goto(j, "failed") /\ UNCHANGED aliasSeen
             ELSE Goto(j, "checkIndex") /\ aliasSeen' = [aliasSeen EXCEPT ![j] = seen]
  /\ UNCHANGED <<mainVars, scrolls, srcVars, dstVars, histVars>>

(* Mutant: the alias is thought to come with the index.                    *)
NoAliasStep(j) == "search"

(* Where copyMappingIfNecessary goes once index <name>-000001 exists.      *)
AliasStep(j) == IF aliasSeen[j] THEN "search" ELSE "putAlias"

(* Mutant: an existing index is taken for the tool's own, without consent. *)
CheckIndexOnly(j) ==
  /\ pc[j] = "checkIndex"
  /\ \E seen \in BOOLEAN :
        /\ Answers("suffixed" \in names[j[1]], seen)
        /\ Goto(j, IF seen THEN AliasStep(j) ELSE "getMapping")
  /\ UNCHANGED <<mainVars, aliasSeen, scrolls, srcVars, dstVars, histVars>>

(* indexExists := DoesIndexExist(index-000001); an error without           *)
(* --overwrite.                                                            *)
CheckIndex(j) ==
  /\ pc[j] = "checkIndex"
  /\ \E seen \in BOOLEAN :
        /\ Answers("suffixed" \in names[j[1]], seen)
        /\ Goto(j, IF ~seen THEN "getMapping"
                   ELSE IF flags.overwrite THEN AliasStep(j) ELSE "failed")
  /\ UNCHANGED <<mainVars, aliasSeen, scrolls, srcVars, dstVars, histVars>>

GetMapping(j) ==
  /\ pc[j] = "getMapping"
  /\ Goto(j, "createIndex")
  /\ UNCHANGED <<mainVars, aliasSeen, scrolls, srcVars, dstVars, histVars, faults>>

(* The destination refuses to create an index that exists.  Its answer may *)
(* be lost after the index was created.                                    *)
CreateIndex(j) ==
  /\ pc[j] = "createIndex"
  /\ IF "suffixed" \in names[j[1]]
       THEN Goto(j, "failed") /\ UNCHANGED <<names, faults>>
       ELSE /\ names' = [names EXCEPT ![j[1]] = @ \cup {"suffixed"}]
            /\ \/ Goto(j, AliasStep(j)) /\ UNCHANGED faults
               \/ Goto(j, "failed") /\ Fault
  /\ UNCHANGED <<mainVars, aliasSeen, scrolls, srcVars, dest, late, squad, histVars>>

(* The destination refuses an alias with the name of a concrete index.     *)
PutAlias(j) ==
  /\ pc[j] = "putAlias"
  /\ IF "concrete" \in names[j[1]]
       THEN Goto(j, "failed") /\ UNCHANGED <<names, faults>>
       ELSE /\ names' = [names EXCEPT ![j[1]] = @ \cup {"alias"}]
            /\ \/ Goto(j, "search") /\ UNCHANGED faults
               \/ Goto(j, "failed") /\ Fault
  /\ UNCHANGED <<mainVars, aliasSeen, scrolls, srcVars, dest, late, squad, histVars>>

(* A page of what a scroll has left: full, unless nothing is left after    *)
(* it.                                                                     *)
IsPage(p, left) ==
  /\ p \subseteq left
  /\ \/ p = left /\ Cardinality(p) <= PageSize
     \/ p # left /\ Cardinality(p) = PageSize

(* The first search freezes the versions the scroll will hand out, and its *)
(* answer holds the first page, which may be empty.  The status is 200     *)
(* also when shards failed or timed out, and then the scroll knows only    *)
(* the documents of the others; the code looks at neither.  Nor does it    *)
(* mind an answer without _scroll_id, which leaves it with this page.      *)
Search(j) ==
  /\ pc[j] = "search"
  /\ LET selected == {d \in Doc : src[d].ver > 0 /\ Selected(j, d)} IN
     /\ snap' = [snap EXCEPT ![j] = [d \in Doc |-> IF d \in selected THEN src[d].ver ELSE 0]]
     /\ \E found \in SUBSET selected, id \in BOOLEAN :
        /\ IF found = selected /\ id THEN UNCHANGED faults ELSE Fault
        /\ scrollId' = [scrollId EXCEPT ![j] = id]
        /\ \E p \in SUBSET found :
           LET left == IF id THEN found \ p ELSE {} IN
           /\ IsPage(p, found)
           /\ page' = [page EXCEPT ![j] = p]
           /\ rest' = [rest EXCEPT ![j] = left]
           /\ skipped' = [skipped EXCEPT ![j] = @ \cup (selected \ (p \cup left))]
  /\ Goto(j, "bulk")
  /\ UNCHANGED <<mainVars, aliasSeen, srcVars, dstVars, histVars>>

(* A write to an index name: without alias or index of that name the       *)
(* destination creates a concrete index.                                   *)
NamesAfterWrite(i) ==
  IF names[i] \cap {"alias", "concrete"} # {} THEN names
  ELSE [names EXCEPT ![i] = @ \cup {"concrete"}]

(* Mutant: the bulk requests of a page are in flight together, and a job   *)
(* that gives up at one of them does not wait for the others.              *)
WriteInFlight(j, d) ==
  /\ pc[j] \in {"bulk", "failed"} /\ d \in page[j]
  /\ dest' = [dest EXCEPT ![d] = snap[j][d]]
  /\ page' = [page EXCEPT ![j] = @ \ {d}]
  /\ names' = NamesAfterWrite(j[1])
  /\ UNCHANGED <<mainVars, pc, aliasSeen, snap, scrollId, rest, skipped, srcVars, late, squad,
                 histVars, faults>>

(* The destination executes one index operation of a bulk request; the     *)
(* documents of a page come in the order of a Go map.                      *)
WriteDoc(j, d) ==
  /\ pc[j] = "bulk" /\ d \in page[j]
  /\ dest' = [dest EXCEPT ![d] = snap[j][d]]
  /\ page' = [page EXCEPT ![j] = @ \ {d}]
  /\ names' = NamesAfterWrite(j[1])
  /\ UNCHANGED <<mainVars, pc, aliasSeen, snap, scrollId, rest, skipped, srcVars, late, squad,
                 histVars, faults>>

(* A bulk request met 502 or 504 and is sent again, while the destination  *)
(* may still execute the first one.                                        *)
GatewayTimeout(j, d) ==
  /\ pc[j] = "bulk" /\ d \in page[j]
  /\ Cardinality(late) < MaxLate
  /\ late' = late \cup {<<d, snap[j][d]>>}
  /\ UNCHANGED <<mainVars, jobVars, srcVars, dest, names, squad, histVars, faults>>

(* Mutant: the next page is asked for before the bulk requests of this one *)
(* answered, or whatever they answered.                                    *)
PageSent(j) ==
  /\ pc[j] = "bulk"
  /\ Goto(j, "scroll")
  /\ UNCHANGED <<mainVars, aliasSeen, scrolls, srcVars, dstVars, histVars, faults>>

(* Where a job goes after its last page.                                   *)
AfterScroll(j) == IF j[2] = 0 THEN "destinationCount" ELSE "done"

(* All the bulk requests of a page answered without error.                 *)
PageWritten(j) ==
  /\ pc[j] = "bulk" /\ page[j] = {}
  /\ Goto(j, IF scrollId[j] THEN "scroll" ELSE AfterScroll(j))
  /\ UNCHANGED <<mainVars, aliasSeen, scrolls, srcVars, dstVars, histVars, faults>>

(* iterateScroll asks for the next page, and one without hits ends the     *)
(* copy without an error.  An answer of which some shards failed may hold  *)
(* less than a page, or nothing, and lose documents for good.              *)
Scroll(j) ==
  /\ pc[j] = "scroll"
  /\ \E p \in SUBSET rest[j] : \E left \in SUBSET (rest[j] \ p) :
     /\ Cardinality(p) <= PageSize
     /\ p = {} => left = {}
     /\ IF IsPage(p, rest[j]) /\ left = rest[j] \ p THEN UNCHANGED faults ELSE Fault
     /\ page' = [page EXCEPT ![j] = p]
     /\ rest' = [rest EXCEPT ![j] = left]
     /\ skipped' = [skipped EXCEPT ![j] = @ \cup (rest[j] \ (p \cup left))]
     /\ Goto(j, IF p = {} THEN AfterScroll(j) ELSE "bulk")
  /\ UNCHANGED <<mainVars, aliasSeen, snap, scrollId, srcVars, dstVars, histVars>>

(* GetCount on the destination, for its answer's error only.               *)
DestinationCount(j) ==
  /\ pc[j] = "destinationCount"
  /\ Goto(j, "done")
  /\ UNCHANGED <<mainVars, aliasSeen, scrolls, srcVars, dstVars, histVars, faults>>

(* A request ends in an error, or its answer is lost: the job gives up.    *)
(* Of a bulk request any part may have been executed.                      *)
RequestFails(j) ==
  /\ pc[j] \in Requests
  /\ Fault
  /\ Goto(j, "failed")
  /\ UNCHANGED <<mainVars, aliasSeen, scrolls, srcVars, dstVars, histVars>>

JobStep(j) ==
  /\ phase \in Running
  /\ \/ SourceCount(j) \/ CheckAlias(j) \/ CheckIndex(j) \/ GetMapping(j)
     \/ CreateIndex(j) \/ PutAlias(j) \/ Search(j)
     \/ (\E d \in Doc : WriteDoc(j, d)) \/ PageWritten(j)
     \/ Scroll(j) \/ DestinationCount(j)

JobTrouble(j) ==
  /\ phase \in Running
  /\ RequestFails(j) \/ \E d \in Doc : GatewayTimeout(j, d)

-----------------------------------------------------------------------------
(* The environment.                                                        *)

(* The node behind the source cluster indexes a document, new or changed,  *)
(* with the time of its block, which lies any while before the time at     *)
(* which it is indexed.                                                    *)
SourceIndexes(d) ==
  /\ src[d].ver < MaxVersion /\ clock < MaxTime
  /\ d \in Mutable \/ src[d].ver = 0
  /\ clock' = clock + 1
  /\ \E t \in src[d].ts..(clock + 1) :
        src' = [src EXCEPT ![d] = [ver |-> src[d].ver + 1, ts |-> t]]
  /\ UNCHANGED <<mainVars, jobVars, dstVars, histVars, faults>>

(* The destination executes a write that the gateway gave up on.           *)
LateWrite(w) ==
  /\ dest' = [dest EXCEPT ![w[1]] = w[2]]
  /\ late' = late \ {w}
  /\ names' = NamesAfterWrite(IndexOf[w[1]])
  /\ UNCHANGED <<mainVars, jobVars, srcVars, squad, histVars, faults>>

(* README.md: start the observing squad only after some indices were       *)
(* copied.                                                                 *)
StartSquad ==
  /\ ~squad
  /\ \A j \in JobIds : j[1] \in Gated => pc[j] \in Ended
  /\ squad' = TRUE
  /\ UNCHANGED <<mainVars, jobVars, srcVars, dest, names, late, histVars, faults>>

(* The squad follows the chain and writes what the chain holds now.        *)
SquadIndexes(d) ==
  /\ squad /\ src[d].ver > 0
  /\ dest' = [dest EXCEPT ![d] = src[d].ver]
  /\ names' = NamesAfterWrite(IndexOf[d])
  /\ UNCHANGED <<mainVars, jobVars, srcVars, late, squad, histVars, faults>>

(* The tool is killed: its jobs are gone, the clusters keep what they have.*)
Crash ==
  /\ phase \in Running
  /\ phase' = "crashed"
  /\ UNCHANGED <<flags, cur, now, runs, jobVars, srcVars, dstVars, histVars, faults>>

(* The operator runs the tool again, once the destination has executed the *)
(* requests it had accepted and without an observing squad.                *)
Rerun ==
  /\ phase \notin Running /\ runs < MaxRuns /\ ~squad /\ late = {}
  /\ flags' \in Flags
  /\ phase' = "noTimestamp" /\ cur' = 1 /\ now' = 0 /\ runs' = runs + 1
  /\ pc' = Everywhere("idle") /\ aliasSeen' = Everywhere(FALSE)
  /\ snap' = Everywhere(NoVersions) /\ scrollId' = Everywhere(FALSE)
  /\ rest' = Everywhere({}) /\ page' = Everywhere({}) /\ skipped' = Everywhere({})
  /\ src0' = [d \in Doc |-> src[d].ver] /\ dest0' = dest
  /\ UNCHANGED <<srcVars, dstVars, faults>>

Environment ==
  \/ \E d \in Doc : SourceIndexes(d) \/ SquadIndexes(d)
  \/ \E w \in late : LateWrite(w)
  \/ StartSquad \/ Crash \/ Rerun

Next ==
  \/ MainStep
  \/ \E j \in JobIds : JobStep(j) \/ JobTrouble(j)
  \/ Environment

(* The goroutines are scheduled and the clusters answer every request;     *)
(* nothing is owed by the environment.                                     *)
Fairness == WF_vars(MainStep) /\ \A j \in JobIds : WF_vars(JobStep(j))

Spec == Init /\ [][Next]_vars
FairSpec == Spec /\ Fairness

-----------------------------------------------------------------------------
(* Properties.                                                             *)

TypeOK ==
  /\ flags \in [overwrite : BOOLEAN, skipMappings : BOOLEAN]
  /\ phase \in Phases
  /\ cur \in Nat \ {0} /\ now \in Nat /\ runs \in Nat
  /\ pc \in [JobIds -> JobSteps]
  /\ aliasSeen \in [JobIds -> BOOLEAN]
  /\ snap \in [JobIds -> [Doc -> Nat]] /\ scrollId \in [JobIds -> BOOLEAN]
  /\ rest \in [JobIds -> SUBSET Doc] /\ page \in [JobIds -> SUBSET Doc]
  /\ skipped \in [JobIds -> SUBSET Doc]
  /\ src \in SourceType
  /\ src0 \in [Doc -> Nat] /\ dest \in [Doc -> Nat] /\ dest0 \in [Doc -> Nat]
  /\ names \in [IndexSet -> SUBSET NameKinds]
  /\ clock \in Nat /\ late \in SUBSET (Doc \X Nat)
  /\ squad \in BOOLEAN /\ faults \in Nat

(* A run that ended without an error and without any logged warning.       *)
Success == phase = "returned" /\ \A j \in JobIds : pc[j] # "failed"

(* The documents the configuration asks the tool to copy.                  *)
Wanted ==
  {d \in Doc : \/ IndexOf[d] \in NoTimestampSet
               \/ Enabled /\ src[d].ts >= BlockchainStartTime}

(* The documents that an answer with status 200 left out, for some job.    *)
LeftOut == {d \in Doc : \E j \in JobIds : d \in skipped[j]}

(* A job that reports no error has copied every document that its query    *)
(* selected at its search, in a version at least as new as the one the     *)
(* source held when the run began, whatever the other goroutines, the      *)
(* retried bulk requests and the observing squad wrote meanwhile; but for  *)
(* those that the source itself left out of its answers.                   *)
JobCopiesItsShare ==
  \A j \in JobIds, d \in Doc :
    pc[j] = "done" /\ snap[j][d] > 0 /\ d \notin skipped[j] =>
      dest[d] > 0 /\ dest[d] >= src0[d]

(* No gap between the jobs: when a run ends with neither an error nor the  *)
(* warning of a goroutine that failed, and no answer left it out, a        *)
(* document it is asked for is in the destination: of an index without     *)
(* timestamp each one that was there when the run began, of an index with  *)
(* timestamp each one that did not change after the cut of the time span.  *)
CompleteOnSuccess ==
  Success => \A d \in Wanted \ LeftOut :
               IndexOf[d] \in NoTimestampSet \/ src[d].ver = src0[d] => dest[d] >= src0[d]

(* Without --overwrite and --skip-mappings the tool leaves every document  *)
(* the destination already had as it was, even when both existence checks  *)
(* of copyMappingIfNecessary failed open.                                  *)
NoOverwriteWithoutConsent ==
  ~flags.overwrite /\ ~flags.skipMappings /\ ~squad =>
    \A d \in Doc : dest0[d] > 0 => dest[d] = dest0[d]

(* Once the operator has started the observing squad by README.md's rule,  *)
(* a document goes back to an older version only if it changes at all, and *)
(* either by a write that the gateway had given up on, or in an index that *)
(* the rule does not name.                                                 *)
Delayed(d) == \E w \in late \ late' : w[1] = d
NoStaleOverwrite ==
  [][squad => \A d \in Doc : dest'[d] < dest[d] =>
                d \in Mutable /\ (Delayed(d) \/ IndexOf[d] \notin Gated)]_vars

(* The tool that sets up the mappings leaves, for every index it copied,   *)
(* an alias on <name>-000001 and no concrete index in the place of the     *)
(* alias, whatever index the goroutines and the squad created meanwhile.   *)
CopiesBehindAlias ==
  \A j \in JobIds : pc[j] = "done" /\ ~flags.skipMappings =>
    "alias" \in names[j[1]] /\ "concrete" \notin names[j[1]]

(* Every run comes to its end (or is killed), however its requests fail.   *)
RunEnds == phase \in Running ~> phase \notin Running

-----------------------------------------------------------------------------
(* What makes JobCopiesItsShare and CompleteOnSuccess inductive.           *)

Copying == {"bulk", "scroll", "destinationCount", "done"}

SourceGrows == \A d \in Doc : src0[d] <= src[d].ver /\ src[d].ts <= clock

CutIsPast ==
  /\ now <= clock
  /\ phase = "withTimestamp" => BlockchainStartTime <= now
  /\ \A j \in JobIds : j[2] # 0 /\ pc[j] # "idle" =>
       BlockchainStartTime <= now /\ phase # "noTimestamp"

(* What a job's query selected is at least as new as what the source held  *)
(* when the run began.                                                     *)
FrozenVersions ==
  \A j \in JobIds : pc[j] \in Copying =>
    /\ \A d \in Doc : snap[j][d] > 0 =>
         src0[d] <= snap[j][d] /\ snap[j][d] <= src[d].ver /\ IndexOf[d] = j[1]
    /\ \A d \in rest[j] \cup page[j] : snap[j][d] > 0

(* So is what a late write carries; before the cut there is none of a      *)
(* document with timestamp.                                                *)
LateVersions ==
  \A w \in late :
    /\ w[2] > 0 /\ src0[w[1]] <= w[2] /\ w[2] <= src[w[1]].ver
    /\ phase = "noTimestamp" => IndexOf[w[1]] \in NoTimestampSet

(* A selected document is left out, yet to be fetched, yet to be written,  *)
(* or in the destination.                                                  *)
SharesAccounted ==
  \A j \in JobIds : pc[j] \in Copying =>
    \A d \in Doc : snap[j][d] > 0 /\ d \notin skipped[j] =>
      d \in rest[j] \/ d \in page[j] \/ (dest[d] > 0 /\ src0[d] <= dest[d])

(* The search selected each document of the job's share that has been the  *)
(* same since: a document that changes may leave the share of one job and  *)
(* come into that of a job whose search is over.                           *)
SharesSelected ==
  \A j \in JobIds : pc[j] \in Copying =>
    \A d \in Doc :
      Selected(j, d) /\ src0[d] > 0 /\ (j[2] = 0 \/ src[d].ver = src0[d]) => snap[j][d] > 0

EmptiedScrolls ==
  \A j \in JobIds :
    /\ pc[j] \in {"scroll", "destinationCount", "done"} => page[j] = {}
    /\ pc[j] \in {"destinationCount", "done"} => rest[j] = {}
    /\ pc[j] = "scroll" => scrollId[j]
    /\ pc[j] = "bulk" /\ ~scrollId[j] => rest[j] = {}

CopyInvariant ==
  SourceGrows /\ CutIsPast /\ FrozenVersions /\ LateVersions
    /\ SharesAccounted /\ SharesSelected /\ EmptiedScrolls

(* The main goroutine has passed an index only after its jobs.             *)
MainProgress ==
  /\ phase = "noTimestamp" =>
       \A p \in DOMAIN IndicesNoTimestamp :
         p < cur /\ IndicesNoTimestamp[p] # EmptyName =>
           pc[<<IndicesNoTimestamp[p], 0>>] = "done"
  /\ phase \in {"withTimestamp", "returned"} =>
       \A i \in NoTimestampSet : pc[<<i, 0>>] = "done"
  /\ phase = "withTimestamp" =>
       \A p \in DOMAIN IndicesWithTimestamp :
         p < cur /\ IndicesWithTimestamp[p] # EmptyName =>
           \A k \in Workers : pc[<<IndicesWithTimestamp[p], k>>] \in Ended
  /\ phase = "returned" /\ Enabled =>
       \A i \in WithTimestampSet, k \in Workers : pc[<<i, k>>] \in Ended

-----------------------------------------------------------------------------
(* What makes CopiesBehindAlias and NoOverwriteWithoutConsent inductive.   *)

NamesExclusive ==
  \A i \in IndexSet : /\ "alias" \in names[i] => "suffixed" \in names[i]
                      /\ ~("alias" \in names[i] /\ "concrete" \in names[i])

DocumentsNamed ==
  \A d \in Doc : dest[d] > 0 =>
    "alias" \in names[IndexOf[d]] \/ "concrete" \in names[IndexOf[d]]

MappingProgress ==
  \A j \in JobIds :
    /\ pc[j] = "putAlias" => "suffixed" \in names[j[1]]
    /\ aliasSeen[j] => "alias" \in names[j[1]] /\ flags.overwrite
    /\ pc[j] \in Copying \cup {"search"} /\ ~flags.skipMappings => "alias" \in names[j[1]]

(* Without consent, no job gets to copy an index that held documents.      *)
Consent == ~flags.overwrite /\ ~flags.skipMappings
UsedNamesRefused ==
  Consent =>
    /\ \A d \in Doc : dest0[d] > 0 =>
         LET i == IndexOf[d] IN
         /\ \/ "concrete" \in names[i]
            \/ "alias" \in names[i] /\ \A j \in JobIds : j[1] = i => pc[j] # "putAlias"
         /\ \A j \in JobIds : j[1] = i => pc[j] \notin Copying \cup {"search"}
    /\ \A w \in late : dest0[w[1]] = 0

-----------------------------------------------------------------------------
(* The run is one of the behaviours that CopyService promises.             *)
Status == IF phase \in Running THEN "running"
          ELSE IF Success THEN "complete" ELSE "incomplete"
Service == INSTANCE CopyService WITH
  held <- [d \in Doc |-> src[d].ver], wanted <- Wanted,
  baseline <- src0, copy <- dest, omitted <- LeftOut, status <- Status
ImplementsCopyService == Service!Spec

(* Statements of the repository that the code does not keep.               *)

(* README.md of the tool: "copy all the information", for the run of an    *)
(* operator who lets the tool copy the mappings into an empty destination, *)
(* with no request failing: at the end nothing is missing.                 *)
MappedRunCopiesAll ==
  phase = "returned" /\ faults = 0 /\ runs = 1
    /\ (\A d \in Doc : dest0[d] = 0)
    => \A d \in Wanted : src[d].ver = src0[d] => dest[d] >= src0[d]

(* The same sentence for documents that change during the run: what was in *)
(* the source when the time span was cut is in the destination when the    *)
(* run ends with no warning, in this version or in a newer one.            *)
ChangingDocumentsCopied ==
  Success => \A d \in Wanted \ LeftOut : dest[d] >= src0[d]

(* The same sentence for a source that answers in part: a run that ends    *)
(* with no warning has copied what never changed.                          *)
PartialAnswersNoticed ==
  Success => \A d \in Wanted : src[d].ver = src0[d] => dest[d] >= src0[d]

(* README.md of the tool: "Start the observing-squad only after the        *)
(* indices ... are copied", understood as enough to keep what the squad    *)
(* writes.                                                                 *)
SquadNeverReplaced == [][squad => \A d \in Doc : dest'[d] >= dest[d]]_vars
=============================================================================
