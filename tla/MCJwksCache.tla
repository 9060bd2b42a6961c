---------------------------- MODULE MCJwksCache ----------------------------
(***************************************************************************)
(* Small instances of JwksCache for TLC.                                   *)
(***************************************************************************)
EXTENDS JwksCache, TLC

CONSTANTS r1, r2, old, new

SymmetricRequests == Permutations(Requests)
=============================================================================
