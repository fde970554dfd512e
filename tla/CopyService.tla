---------------------------- MODULE CopyService ----------------------------
(***************************************************************************)
(* What a run of the elasticreindexer promises about the documents it is   *)
(* asked to copy, without saying how: no scrolls, pages, intervals,        *)
(* goroutines, aliases or retries.                                         *)
(***************************************************************************)
EXTENDS Integers

CONSTANT Doc

VARIABLES
  held,      \* [Doc -> version in the source], 0: none
  wanted,    \* documents the configuration asks for
  baseline,  \* [Doc -> version in the source when the run last looked what there is]
  copy,      \* [Doc -> version in the destination]
  omitted,   \* documents that the source left out of its answers to the run
  status     \* "running", "complete", or "incomplete": ended with a report

vars == <<held, wanted, baseline, copy, omitted, status>>

(* A document that the source has not touched since the run looked.        *)
Untouched(d) == held[d] = baseline[d]

Copied == \A d \in wanted \ omitted : Untouched(d) => copy[d] >= held[d]

Init ==
  /\ held \in [Doc -> Nat]
  /\ wanted \in SUBSET Doc
  /\ baseline = held
  /\ copy \in [Doc -> Nat]
  /\ omitted = {}
  /\ status = "running"

(* The source gets a new version of a document, which may come to be       *)
(* wanted.                                                                 *)
Update(d) ==
  /\ held' = [held EXCEPT ![d] = @ + 1]
  /\ wanted' \in {wanted, wanted \cup {d}}
  /\ UNCHANGED <<baseline, copy, omitted, status>>

(* The destination gets a version that the source held since the run last  *)
(* looked.                                                                 *)
Write(d) ==
  /\ \E v \in baseline[d]..held[d] : v > 0 /\ copy' = [copy EXCEPT ![d] = v]
  /\ UNCHANGED <<held, wanted, baseline, omitted, status>>

(* The run looks again, and answers for newer versions from then on.       *)
Look ==
  /\ status = "running"
  /\ \E later \in SUBSET Doc :
        baseline' = [d \in Doc |-> IF d \in later THEN held[d] ELSE baseline[d]]
  /\ UNCHANGED <<held, wanted, copy, omitted, status>>

(* The source answers the run in part, without saying so.                  *)
AnswerInPart ==
  /\ status = "running"
  /\ omitted \subseteq omitted' /\ omitted' \subseteq Doc
  /\ UNCHANGED <<held, wanted, baseline, copy, status>>

(* The run ends without any error or warning only when all that it was     *)
(* told of is copied.                                                      *)
Complete ==
  /\ status = "running" /\ Copied
  /\ status' = "complete"
  /\ UNCHANGED <<held, wanted, baseline, copy, omitted>>

GiveUp ==
  /\ status = "running"
  /\ status' = "incomplete"
  /\ UNCHANGED <<held, wanted, baseline, copy, omitted>>

Begin ==
  /\ status # "running"
  /\ status' = "running" /\ baseline' = held /\ omitted' = {}
  /\ UNCHANGED <<held, wanted, copy>>

Next ==
  \/ \E d \in Doc : Update(d) \/ Write(d)
  \/ Look \/ AnswerInPart \/ Complete \/ GiveUp \/ Begin

Spec == Init /\ [][Next]_vars
=============================================================================
