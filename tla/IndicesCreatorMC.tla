-------------------------- MODULE IndicesCreatorMC --------------------------
(* Two indices, both enabled and with a policy.                            *)
EXTENDS IndicesCreator

CONSTANTS i1, i2

MCIndex == {i1, i2}
MCNothing == {{}}
=============================================================================
