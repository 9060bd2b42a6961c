--------------------------- MODULE MCUserAccounts ----------------------------
(***************************************************************************)
(* A small instance of UserAccounts for TLC.                               *)
(***************************************************************************)
EXTENDS UserAccounts, TLC
=============================================================================
