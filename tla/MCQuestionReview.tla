-------------------------- MODULE MCQuestionReview --------------------------
(***************************************************************************)
(* Small instances of QuestionReview for TLC.                              *)
(***************************************************************************)
EXTENDS QuestionReview, TLC

CONSTANTS q1, q2, k1, k2, e1, e2, r1, r2, a1, a2

SymmetricIds ==
    Permutations(Keys) \union Permutations(Entries) \union
    Permutations(Reviewers) \union Permutations(Editors)
=============================================================================
