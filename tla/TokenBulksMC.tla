---------------------------- MODULE TokenBulksMC ----------------------------
(* Two IDs with nonces up to MaxNonce, the nonces of the first one written *)
(* in one or two forms, one of them perhaps malformed.                     *)
EXTENDS TokenBulks

CONSTANT MaxNonce

MCTokenID == {1, 2}
MCForm == {1, 2}
MCToken(id, n, f) == [id |-> id, nonce |-> n, form |-> f, valid |-> TRUE]
MCMalformed == [id |-> 1, nonce |-> 0, form |-> 2, valid |-> FALSE]
MCWellFormed ==
  SUBSET ({MCToken(id, n, 1) : id \in MCTokenID, n \in 0..MaxNonce}
          \cup {MCToken(1, n, 2) : n \in 1..2})
MCInputs ==
  MCWellFormed \cup {{MCMalformed}, {MCMalformed, MCToken(1, 0, 1), MCToken(2, 1, 1)}}
MCBulkSizes == 1..4
=============================================================================
