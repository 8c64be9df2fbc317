-------------------------- MODULE MCCannibalization --------------------------
(* Two spellings of one keyword, a known and an unknown role.                  *)
EXTENDS Cannibalization, TLC

CONSTANTS k1, fp

OneFingerprint == k1 :> fp
=============================================================================
