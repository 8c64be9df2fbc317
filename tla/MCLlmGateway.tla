---------------------------- MODULE MCLlmGateway ----------------------------
(* The gateway with callers that TLC may exchange.                            *)
EXTENDS LlmGateway, TLC

CONSTANTS c1, c2, c3

Symmetry == Permutations(Callers)
=============================================================================
