-------------------------- MODULE NetComparatorMC --------------------------
(* Three transactions: equal, different and missing on the secondary.      *)
EXTENDS NetComparator, TLC

CONSTANTS t1, t2, t3, v1, v2

MCTx == {t1, t2, t3}
MCValue == {v1, v2}
MCNetworks ==
  {<<t1 :> v1 @@ t2 :> v1 @@ t3 :> v2, t1 :> v1 @@ t2 :> v2 @@ t3 :> Absent>>,
   <<t1 :> v1 @@ t2 :> v2 @@ t3 :> Absent, t1 :> v2 @@ t2 :> v2 @@ t3 :> v1>>}
=============================================================================
