--------------------------- MODULE QuestionReview ---------------------------
(***************************************************************************)
(* The admin side of a question: its review, which decides a queue entry   *)
(* and the question's status in one transaction (repository/               *)
(* admin_review.go), and the editing of its choices and correct keys       *)
(* (service/admin_question.go), which reads, validates and writes in       *)
(* separate statements.  Reviewers and editors each send one request at a  *)
(* time, any number of times.                                              *)
(***************************************************************************)
EXTENDS FiniteSets

CONSTANTS
    Questions,
    Keys,       \* choice keys
    Entries,    \* ids of review_queue rows
    Reviewers,
    Editors,
    NULL

Decisions == {"approved", "rejected", "needs_edit"}
Statuses  == {"needs_review", "published", "rejected"}

\* A row of review_queue; decision and reviewer_id are NULL until it is decided.
EntryRow == [question : Questions,
             decision : Decisions \union {NULL},
             reviewer : Reviewers \union {NULL}]

Review == [question : Questions, decision : Decisions]

\* Mutant: the handler lets an empty list of choices through.
PatchAnyChoices == [question : Questions,
                    choices  : (SUBSET Keys) \union {NULL},
                    correct  : (SUBSET Keys) \union {NULL}]

\* A partial update of the two columns that constrain each other: NULL leaves one
\* as it is.  The handler refuses an empty list of choices, not of correct keys.
Patch == [question : Questions,
          choices  : ((SUBSET Keys) \ {{}}) \union {NULL},
          correct  : (SUBSET Keys) \union {NULL}]

ASSUME ReviewAssumption ==
    /\ NULL \notin Decisions /\ NULL \notin Reviewers
    /\ NULL \notin EntryRow /\ \A ks \in SUBSET Keys : NULL # ks

VARIABLES
    status, choices, correct,   \* table question
    entry,                      \* table review_queue: a row or NULL, by id
    rpc, review, found, claimed,\* each reviewer's request, and the rows its UPDATE
                                \* has found and has written
    epc, patch                  \* each editor's request

rvars == <<rpc, review, found, claimed>>
evars == <<epc, patch>>
question == <<status, choices, correct>>
vars == <<question, entry, rvars, evars>>

-----------------------------------------------------------------------------
Init ==
    /\ status = [q \in Questions |-> "needs_review"]
    /\ choices \in [Questions -> (SUBSET Keys) \ {{}}]
    /\ correct \in [Questions -> SUBSET Keys]
    /\ \A q \in Questions : correct[q] \subseteq choices[q]
    /\ entry = [e \in Entries |-> NULL]
    /\ rpc = [r \in Reviewers |-> "idle"]
    /\ review = [r \in Reviewers |-> NULL]
    /\ found = [r \in Reviewers |-> {}]
    /\ claimed = [r \in Reviewers |-> {}]
    /\ epc = [a \in Editors |-> "idle"]
    /\ patch = [a \in Editors |-> NULL]

Undecided(q) ==
    {e \in Entries : /\ entry[e] # NULL
                     /\ entry[e].question = q
                     /\ entry[e].decision = NULL}

\* Queue rows are written at the end of the transaction, and locked until then.
Locked(r, e) == rpc[r] \in {"claimed", "statused"} /\ e \in claimed[r]

\* Once its status is written, the question row is locked too.
LocksQuestion(r, q) ==
    /\ rpc[r] = "statused"
    /\ review[r].question = q
    /\ review[r].decision # "needs_edit"

Moves(r, from, to) == rpc[r] = from /\ rpc' = [rpc EXCEPT ![r] = to]

\* The reviewer's request is over; its locks are gone.
Over(r) ==
    /\ rpc' = [rpc EXCEPT ![r] = "idle"]
    /\ review' = [review EXCEPT ![r] = NULL]
    /\ found' = [found EXCEPT ![r] = {}]
    /\ claimed' = [claimed EXCEPT ![r] = {}]
    /\ UNCHANGED evars

-----------------------------------------------------------------------------
\* POST /v1/admin/questions/{id}/review: DecideReview begins.
Decide(r, q, d) ==
    /\ Moves(r, "idle", "begun")
    /\ review' = [review EXCEPT ![r] = [question |-> q, decision |-> d]]
    /\ UNCHANGED <<question, entry, found, claimed, evars>>

\* The snapshot of UPDATE review_queue ... WHERE decision IS NULL.
FindEntries(r) ==
    /\ Moves(r, "begun", "found")
    /\ found' = [found EXCEPT ![r] = Undecided(review[r].question)]
    /\ UNCHANGED <<question, entry, review, claimed, evars>>

\* Mutant: a row found in the snapshot is written without looking at it again.
ClaimEntriesBlindly(r) ==
    /\ \A e \in found[r], t \in Reviewers \ {r} : ~Locked(t, e)
    /\ found[r] # {}
    /\ Moves(r, "found", "claimed")
    /\ claimed' = [claimed EXCEPT ![r] = found[r]]
    /\ UNCHANGED <<question, entry, review, found, evars>>

\* The same statement has the rows, waiting for the transactions that held them,
\* and has checked again that they are undecided.
ClaimEntries(r) ==
    /\ \A e \in found[r], t \in Reviewers \ {r} : ~Locked(t, e)
    /\ LET still == {e \in found[r] : entry[e].decision = NULL}
       IN  /\ still # {}
           /\ Moves(r, "found", "claimed")
           /\ claimed' = [claimed EXCEPT ![r] = still]
    /\ UNCHANGED <<question, entry, review, found, evars>>

\* Mutant: a review that finds nothing left to decide starts over.
AlreadyDecidedRetries(r) ==
    /\ \A e \in found[r], t \in Reviewers \ {r} : ~Locked(t, e)
    /\ \A e \in found[r] : entry[e].decision # NULL
    /\ Moves(r, "found", "begun")
    /\ UNCHANGED <<question, entry, review, found, claimed, evars>>

\* No row is left to decide: ErrAlreadyExists, 409, rollback.
AlreadyDecided(r) ==
    /\ rpc[r] = "found"
    /\ \A e \in found[r], t \in Reviewers \ {r} : ~Locked(t, e)
    /\ \A e \in found[r] : entry[e].decision # NULL
    /\ Over(r)
    /\ UNCHANGED <<question, entry>>

\* UPDATE question SET status, or nothing for needs_edit.  Waits for the row.
SetStatus(r) ==
    /\ Moves(r, "claimed", "statused")
    /\ \/ review[r].decision = "needs_edit"
       \/ \A t \in Reviewers \ {r} : ~LocksQuestion(t, review[r].question)
    /\ UNCHANGED <<question, entry, review, found, claimed, evars>>

Outcome(d) == IF d = "rejected" THEN "rejected" ELSE "published"

\* Mutant: needs_edit falls through to published.
CommitAnyDecision(r) ==
    LET q == review[r].question
        d == review[r].decision
    IN  /\ rpc[r] = "statused"
        /\ entry' = [e \in Entries |->
                        IF e \in claimed[r]
                        THEN [question |-> q, decision |-> d, reviewer |-> r]
                        ELSE entry[e]]
        /\ status' = [status EXCEPT ![q] = Outcome(d)]
        /\ Over(r)
        /\ UNCHANGED <<choices, correct>>

\* Commit: the decided rows and the status appear together.
Commit(r) ==
    LET q == review[r].question
        d == review[r].decision
    IN  /\ rpc[r] = "statused"
        /\ entry' = [e \in Entries |->
                        IF e \in claimed[r]
                        THEN [question |-> q, decision |-> d, reviewer |-> r]
                        ELSE entry[e]]
        /\ status' = [status EXCEPT ![q] = IF d = "needs_edit" THEN @ ELSE Outcome(d)]
        /\ Over(r)
        /\ UNCHANGED <<choices, correct>>

\* Mutant: the decision is written outside the transaction, and stays.
FailKeepsDecision(r) ==
    /\ rpc[r] # "idle"
    /\ entry' = [e \in Entries |->
                    IF e \in claimed[r]
                    THEN [question |-> review[r].question, reviewer |-> r,
                          decision |-> review[r].decision]
                    ELSE entry[e]]
    /\ Over(r)
    /\ UNCHANGED question

\* Any statement, or the commit, fails: rollback.
Fail(r) ==
    /\ rpc[r] # "idle"
    /\ Over(r)
    /\ UNCHANGED <<question, entry>>

-----------------------------------------------------------------------------
\* choices and correct_keys as they would be after the patch.
Patched(value, new) == IF new = NULL THEN value ELSE new

\* PATCH /v1/admin/questions/{id}: the question is read and the patch is validated
\* against it.  A patch that fails is refused with 400 and changes nothing.
ReadQuestion(a, p) ==
    /\ epc[a] = "idle"
    /\ Patched(correct[p.question], p.correct)
           \subseteq Patched(choices[p.question], p.choices)
    /\ epc' = [epc EXCEPT ![a] = "validated"]
    /\ patch' = [patch EXCEPT ![a] = p]
    /\ UNCHANGED <<question, entry, rvars>>

\* UPDATE question: the given columns only, on whatever the row holds by now.
WriteQuestion(a) ==
    LET p == patch[a]
        q == p.question
    IN  /\ epc[a] = "validated"
        /\ \A r \in Reviewers : ~LocksQuestion(r, q)
        /\ choices' = [choices EXCEPT ![q] = Patched(@, p.choices)]
        /\ correct' = [correct EXCEPT ![q] = Patched(@, p.correct)]
        /\ epc' = [epc EXCEPT ![a] = "idle"]
        /\ patch' = [patch EXCEPT ![a] = NULL]
        /\ UNCHANGED <<status, entry, rvars>>

\* The update fails before it is executed; the patch is dropped.
DropPatch(a) ==
    /\ epc[a] = "validated"
    /\ epc' = [epc EXCEPT ![a] = "idle"]
    /\ patch' = [patch EXCEPT ![a] = NULL]
    /\ UNCHANGED <<question, entry, rvars>>

\* The generation pipeline, another program, queues a question for review.
Enqueue(e, q) ==
    /\ entry[e] = NULL
    /\ entry' = [entry EXCEPT ![e] = [question |-> q, decision |-> NULL,
                                      reviewer |-> NULL]]
    /\ UNCHANGED <<question, rvars, evars>>

ReviewStep(r) ==
    \/ FindEntries(r)
    \/ ClaimEntries(r)
    \/ AlreadyDecided(r)
    \/ SetStatus(r)
    \/ Commit(r)

Next ==
    \/ \E r \in Reviewers :
          \/ \E q \in Questions, d \in Decisions : Decide(r, q, d)
          \/ ReviewStep(r)
          \/ Fail(r)
    \/ \E a \in Editors :
          \/ \E p \in Patch : ReadQuestion(a, p)
          \/ WriteQuestion(a)
          \/ DropPatch(a)
    \/ \E e \in Entries, q \in Questions : Enqueue(e, q)

Spec == Init /\ [][Next]_vars

\* A begun review runs statement after statement.  PostgreSQL grants a row lock
\* in the order of arrival, so a statement that can go on again and again goes on:
\* strong fairness.  Nothing is assumed of clients, editors or failures.
FairSpec == Spec /\ \A r \in Reviewers : SF_vars(ReviewStep(r))

-----------------------------------------------------------------------------
TypeOK ==
    /\ status \in [Questions -> Statuses]
    /\ choices \in [Questions -> (SUBSET Keys) \ {{}}]
    /\ correct \in [Questions -> SUBSET Keys]
    /\ entry \in [Entries -> EntryRow \union {NULL}]
    /\ rpc \in [Reviewers -> {"idle", "begun", "found", "claimed", "statused"}]
    /\ review \in [Reviewers -> Review \union {NULL}]
    /\ found \in [Reviewers -> SUBSET Entries]
    /\ claimed \in [Reviewers -> SUBSET Entries]
    /\ epc \in [Editors -> {"idle", "validated"}]
    /\ patch \in [Editors -> Patch \union {NULL}]

\* Every correct key of a question is one of its choices: what the validation of
\* a patch is for (service/admin_question.go:132-140), and what a learner needs to
\* be able to answer correctly.
KeysAreChoices == \A q \in Questions : correct[q] \subseteq choices[q]

Decided(e) == entry[e] # NULL /\ entry[e].decision # NULL

\* Of any number of reviewers deciding at once one wins: a decision in the queue,
\* and who took it, is never overwritten (admin_review.go:36-45).
DecidedOnce ==
    [][\A e \in Entries : Decided(e) => entry'[e] = entry[e]]_entry

\* The decision and the status of the question change together: a question is
\* published or rejected only with a decision that says so, and such a decision
\* never leaves it in another status (admin_review.go:14, 50-61).
DecisionWithStatus ==
    [][/\ \A q \in Questions : status'[q] # status[q] =>
              \E e \in Undecided(q) : /\ entry'[e].decision \in {"approved", "rejected"}
                                      /\ status'[q] = Outcome(entry'[e].decision)
       /\ \A e \in Entries : ~Decided(e) /\ Decided(e)' =>
              status'[entry'[e].question] =
                  IF entry'[e].decision = "needs_edit"
                  THEN status[entry'[e].question]
                  ELSE Outcome(entry'[e].decision)]_<<status, entry>>

\* A review that has begun is answered: reviewers of the same or of different
\* questions never wait for each other in a circle.
ReviewAnswered == \A r \in Reviewers : rpc[r] = "begun" ~> rpc[r] = "idle"

\* However the statements of reviews and edits interleave, wait or fail, the statuses
\* and the queue change as if each review were one step (admin_review.go:14-67).
Desk == INSTANCE ReviewDesk WITH status <- status, entry <- entry
DeskSpec == Desk!Spec
=============================================================================
