-------------------------- MODULE MCRuntimeConfig --------------------------
(* TLC instances of RuntimeConfig: the second node alone, or both.          *)
EXTENDS RuntimeConfig, TLC

CONSTANTS n1, n2

MCNodes == {n1, n2}
MCBatches == {<<n2>>, <<n1, n2>>}
=============================================================================
