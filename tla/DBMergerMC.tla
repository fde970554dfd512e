----------------------------- MODULE DBMergerMC -----------------------------
(* Up to three sources on two keys, in every order and with repetitions.   *)
EXTENDS DBMerger

CONSTANTS p1, p2, p3

MCPath == {p1, p2, p3}
(* The value of a key in a source is the path of the source, so that no    *)
(* two sources agree on a key.                                             *)
MCValue == MCPath
MCContents ==
  {[p \in MCPath |-> [k \in Key |-> IF k \in has[p] THEN p ELSE NoValue]] :
     has \in [MCPath -> SUBSET Key]}
=============================================================================
