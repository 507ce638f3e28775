--------------------------- MODULE MCShieldedPool ---------------------------
(* Two owners, notes worth 4 that are worth 3 a second later.               *)
EXTENDS ShieldedPool, TLC

CONSTANTS alice, bob

MCPowers == <<3>>
=============================================================================
