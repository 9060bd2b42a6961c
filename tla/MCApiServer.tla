---------------------------- MODULE MCApiServer -----------------------------
(* Two requests to representatives of the handlers: one of each shape that *)
(* Body has, over a single connection.                                     *)
EXTENDS ApiServer

CONSTANTS learner, reviewer

MCServed == {"Health", "Me", "CreateMe", "SubmitAttempt", "Home", "AdminUpdateQuestion"}
=============================================================================
