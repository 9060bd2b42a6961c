----------------------------- MODULE MCAttemptTx -----------------------------
(***************************************************************************)
(* Small instances of AttemptTx for TLC.                                   *)
(***************************************************************************)
EXTENDS AttemptTx, TLC

CONSTANTS u1, u2, q1, q2, r1, r2, r3, go, sql, choice, fill

\* One type each when there are two questions: their stat rows differ, so answers
\* to them do not wait for each other before the user_progress row.
TypeEach == [q \in Questions |-> IF q = q1 THEN choice ELSE fill]

SymmetricRequests == Permutations(Requests)
=============================================================================
