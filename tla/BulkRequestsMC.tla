--------------------------- MODULE BulkRequestsMC ---------------------------
(* Pages of up to four hits on three documents.                            *)
EXTENDS BulkRequests

CONSTANTS d1, d2, d3

MCId == {d1, d2, d3}
MCMetaLen == [id \in MCId |-> IF id = d1 THEN 1 ELSE 2]
(* A source that shares a request, one that fills it, one that is larger.  *)
MCSourceLens == {1, 3, 9}
=============================================================================
