----------------------------- MODULE MCHomeTasks -----------------------------
(***************************************************************************)
(* A small instance of HomeTasks for TLC.                                  *)
(***************************************************************************)
EXTENDS HomeTasks, TLC

CONSTANTS q1, q2, k1, g1, g2, w1

SymmetricIds == Permutations(Questions) \union Permutations(Gets)
=============================================================================
