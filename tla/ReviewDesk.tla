----------------------------- MODULE ReviewDesk -----------------------------
(***************************************************************************)
(* What reviewing promises: a reviewer's decision settles queue entries of *)
(* one question, none of them settled before, and the question's status,   *)
(* in one step (the doc comment of repository/admin_review.go).  Decisions *)
(* that cannot be taken, or fail, do not happen.                           *)
(***************************************************************************)
CONSTANTS Questions, Entries, Reviewers, NULL

Decisions == {"approved", "rejected", "needs_edit"}

VARIABLES
    status,  \* of each question
    entry    \* the queue: a row or NULL, by id

desk == <<status, entry>>

Init ==
    /\ status = [q \in Questions |-> "needs_review"]
    /\ entry = [e \in Entries |-> NULL]

Undecided(q) ==
    {e \in Entries : /\ entry[e] # NULL
                     /\ entry[e].question = q
                     /\ entry[e].decision = NULL}

Enqueue(e, q) ==
    /\ entry[e] = NULL
    /\ entry' = [entry EXCEPT ![e] = [question |-> q, decision |-> NULL,
                                      reviewer |-> NULL]]
    /\ UNCHANGED status

\* An entry that is queued meanwhile may be left for another decision.
Decide(r, q, d) ==
    /\ \E settled \in (SUBSET Undecided(q)) \ {{}} :
          entry' = [e \in Entries |->
                       IF e \in settled
                       THEN [question |-> q, decision |-> d, reviewer |-> r]
                       ELSE entry[e]]
    /\ status' = [status EXCEPT ![q] = CASE d = "approved"   -> "published"
                                         [] d = "rejected"   -> "rejected"
                                         [] d = "needs_edit" -> @]

Next ==
    \/ \E e \in Entries, q \in Questions : Enqueue(e, q)
    \/ \E r \in Reviewers, q \in Questions, d \in Decisions : Decide(r, q, d)

Spec == Init /\ [][Next]_desk
=============================================================================
