------------------------ MODULE QuestionReviewProofs ------------------------
(***************************************************************************)
(* Theorems about QuestionReview, for any number of reviewers, editors,    *)
(* questions, queue entries and keys.                                      *)
(***************************************************************************)
EXTENDS QuestionReview, TLAPS

Claiming(r) == rpc[r] \in {"claimed", "statused"}

-----------------------------------------------------------------------------
\* What a request in progress knows.
Known ==
    /\ \A r \in Reviewers : rpc[r] # "idle" => review[r] \in Review
    /\ \A a \in Editors : epc[a] = "validated" => patch[a] \in Patch

TypeInv == TypeOK /\ Known

\* The rows a review has found are rows of its question, decided since or not.
FoundRows ==
    \A r \in Reviewers : rpc[r] = "found" =>
        \A e \in found[r] : entry[e] # NULL /\ entry[e].question = review[r].question

\* The rows it has written are still undecided in the committed table.
ClaimedRows ==
    \A r \in Reviewers : Claiming(r) =>
        claimed[r] # {} /\ claimed[r] \subseteq Undecided(review[r].question)

\* No two reviews have written one row.
ClaimsDisjoint ==
    \A r, t \in Reviewers : r # t /\ Claiming(r) /\ Claiming(t) =>
        claimed[r] \intersect claimed[t] = {}

ReviewInv == TypeInv /\ FoundRows /\ ClaimedRows /\ ClaimsDisjoint

-----------------------------------------------------------------------------
LEMMA InitTyped == Init => TypeInv
BY DEF Init, TypeInv, TypeOK, Known, Statuses

\* Every step of a reviewer keeps the types.
LEMMA ReviewerTyped ==
    ASSUME TypeInv, NEW r \in Reviewers,
           (\E q \in Questions, d \in Decisions : Decide(r, q, d))
               \/ ReviewStep(r) \/ Fail(r)
    PROVE  TypeInv'
<1> USE DEF TypeInv, TypeOK, Known, evars, question
<1>1. ASSUME NEW q \in Questions, NEW d \in Decisions, Decide(r, q, d)
      PROVE  TypeInv'
  <2>1. [question |-> q, decision |-> d] \in Review
    BY DEF Review
  <2> QED  BY <1>1, <2>1 DEF Decide, Moves
<1>2. CASE FindEntries(r)
  BY <1>2 DEF FindEntries, Moves, Undecided
<1>3. CASE ClaimEntries(r)
  BY <1>3 DEF ClaimEntries, Moves
<1>4. CASE AlreadyDecided(r)
  BY <1>4 DEF AlreadyDecided, Over
<1>5. CASE SetStatus(r)
  BY <1>5 DEF SetStatus, Moves
<1>6. CASE Commit(r)
  <2> DEFINE q == review[r].question
             d == review[r].decision
             row == [question |-> q, decision |-> d, reviewer |-> r]
  <2>1. review[r] \in Review
    BY <1>6 DEF Commit
  <2>2. q \in Questions /\ d \in Decisions
    BY <2>1 DEF Review
  <2>3. row \in EntryRow
    BY <2>2 DEF EntryRow
  <2>4. entry' \in [Entries -> EntryRow \union {NULL}]
    BY <1>6, <2>3 DEF Commit
  <2>5. Outcome(d) \in Statuses
    BY DEF Outcome, Statuses
  <2>6. status' \in [Questions -> Statuses]
    BY <1>6, <2>2, <2>5 DEF Commit
  <2> QED  BY <1>6, <2>4, <2>6 DEF Commit, Over
<1>7. CASE Fail(r)
  BY <1>7 DEF Fail, Over
<1> QED  BY <1>1, <1>2, <1>3, <1>4, <1>5, <1>6, <1>7 DEF ReviewStep

\* So does every step of an editor.
LEMMA EditorTyped ==
    ASSUME TypeInv, NEW a \in Editors,
           (\E p \in Patch : ReadQuestion(a, p)) \/ WriteQuestion(a) \/ DropPatch(a)
    PROVE  TypeInv'
<1> USE DEF TypeInv, TypeOK, Known, rvars
<1>1. ASSUME NEW p \in Patch, ReadQuestion(a, p)
      PROVE  TypeInv'
  BY <1>1 DEF ReadQuestion, question
<1>2. CASE WriteQuestion(a)
  <2> DEFINE p == patch[a]
  <2>1. p \in Patch
    BY <1>2 DEF WriteQuestion
  <2>2. /\ p.question \in Questions
        /\ p.choices \in ((SUBSET Keys) \ {{}}) \union {NULL}
        /\ p.correct \in (SUBSET Keys) \union {NULL}
    BY <2>1 DEF Patch
  <2>3. Patched(choices[p.question], p.choices) \in (SUBSET Keys) \ {{}}
    BY <2>2 DEF Patched
  <2>4. Patched(correct[p.question], p.correct) \in SUBSET Keys
    BY <2>2 DEF Patched
  <2> QED  BY <1>2, <2>2, <2>3, <2>4 DEF WriteQuestion
<1>3. CASE DropPatch(a)
  BY <1>3 DEF DropPatch, question
<1> QED  BY <1>1, <1>2, <1>3

\* And the pipeline.
LEMMA EnqueueTyped ==
    ASSUME TypeInv, NEW e \in Entries, NEW q \in Questions, Enqueue(e, q)
    PROVE  TypeInv'
<1> [question |-> q, decision |-> NULL, reviewer |-> NULL] \in EntryRow
  BY DEF EntryRow
<1> QED  BY DEF TypeInv, TypeOK, Known, Enqueue, question, rvars, evars

LEMMA StutterTyped ==
    ASSUME TypeInv, UNCHANGED vars
    PROVE  TypeInv'
BY DEF TypeInv, TypeOK, Known, vars, question, rvars, evars

LEMMA NextTyped == TypeInv /\ [Next]_vars => TypeInv'
<1> SUFFICES ASSUME TypeInv, [Next]_vars PROVE TypeInv'
  OBVIOUS
<1>1. ASSUME NEW r \in Reviewers,
             (\E q \in Questions, d \in Decisions : Decide(r, q, d))
                 \/ ReviewStep(r) \/ Fail(r)
      PROVE  TypeInv'
  BY <1>1, ReviewerTyped
<1>2. ASSUME NEW a \in Editors,
             (\E p \in Patch : ReadQuestion(a, p)) \/ WriteQuestion(a) \/ DropPatch(a)
      PROVE  TypeInv'
  BY <1>2, EditorTyped
<1>3. ASSUME NEW e \in Entries, NEW q \in Questions, Enqueue(e, q)
      PROVE  TypeInv'
  BY <1>3, EnqueueTyped
<1>4. CASE UNCHANGED vars
  BY <1>4, StutterTyped
<1> QED  BY <1>1, <1>2, <1>3, <1>4 DEF Next

LEMMA Typed == Spec => []TypeInv
BY InitTyped, NextTyped, PTL DEF Spec

\* Requests, rows and statuses have their types (the statements' columns).
THEOREM TypeCorrect == Spec => []TypeOK
BY Typed, PTL DEF TypeInv

-----------------------------------------------------------------------------
LEMMA InitRows == Init => FoundRows /\ ClaimedRows /\ ClaimsDisjoint
BY DEF Init, FoundRows, ClaimedRows, ClaimsDisjoint, Claiming

\* A step that leaves the queue alone and at most lets one request go on without
\* writing rows, or end.
LEMMA QueueUntouched ==
    ASSUME ReviewInv, NEW r \in Reviewers, UNCHANGED entry,
           \/ /\ rpc[r] = "claimed" /\ rpc' = [rpc EXCEPT ![r] = "statused"]
              /\ UNCHANGED <<review, found, claimed>>
           \/ Over(r)
    PROVE  FoundRows' /\ ClaimedRows' /\ ClaimsDisjoint'
<1> USE DEF ReviewInv, TypeInv, TypeOK
<1>1. FoundRows'
  BY DEF FoundRows, Over
<1>2. ClaimedRows'
  BY DEF ClaimedRows, Claiming, Undecided, Over
<1>3. ClaimsDisjoint'
  BY DEF ClaimsDisjoint, Claiming, Over
<1> QED  BY <1>1, <1>2, <1>3

LEMMA DecideRows ==
    ASSUME ReviewInv, NEW r \in Reviewers, NEW q \in Questions, NEW d \in Decisions,
           Decide(r, q, d)
    PROVE  FoundRows' /\ ClaimedRows' /\ ClaimsDisjoint'
<1> USE DEF ReviewInv, TypeInv, TypeOK, Decide, Moves
<1>1. FoundRows'
  BY DEF FoundRows
<1>2. ClaimedRows'
  BY DEF ClaimedRows, Claiming, Undecided
<1>3. ClaimsDisjoint'
  BY DEF ClaimsDisjoint, Claiming
<1> QED  BY <1>1, <1>2, <1>3

LEMMA FindRows ==
    ASSUME ReviewInv, NEW r \in Reviewers, FindEntries(r)
    PROVE  FoundRows' /\ ClaimedRows' /\ ClaimsDisjoint'
<1> USE DEF ReviewInv, TypeInv, TypeOK, FindEntries, Moves
<1>1. FoundRows'
  BY DEF FoundRows, Undecided
<1>2. ClaimedRows'
  BY DEF ClaimedRows, Claiming, Undecided
<1>3. ClaimsDisjoint'
  BY DEF ClaimsDisjoint, Claiming
<1> QED  BY <1>1, <1>2, <1>3

\* The wait for locked rows and the second look at the condition are what makes
\* the rows a review writes its own.
LEMMA ClaimRows ==
    ASSUME ReviewInv, NEW r \in Reviewers, ClaimEntries(r)
    PROVE  FoundRows' /\ ClaimedRows' /\ ClaimsDisjoint'
<1> USE DEF ReviewInv, TypeInv, TypeOK, ClaimEntries, Moves
<1>1. FoundRows'
  BY DEF FoundRows
<1>2. ClaimedRows'
  <2>1. claimed'[r] # {} /\ claimed'[r] \subseteq Undecided(review[r].question)
    BY DEF FoundRows, Undecided
  <2> QED  BY <2>1 DEF ClaimedRows, Claiming, Undecided
<1>3. ClaimsDisjoint'
  <2>1. ASSUME NEW t \in Reviewers \ {r}, Claiming(t)
        PROVE  claimed'[r] \intersect claimed[t] = {}
    BY <2>1 DEF Claiming, Locked
  <2> QED  BY <2>1 DEF ClaimsDisjoint, Claiming
<1> QED  BY <1>1, <1>2, <1>3

\* A commit decides its own rows, which no other review has found undecided and
\* written, and leaves their question as it is.
LEMMA CommitRows ==
    ASSUME ReviewInv, NEW r \in Reviewers, Commit(r)
    PROVE  FoundRows' /\ ClaimedRows' /\ ClaimsDisjoint'
<1> USE DEF ReviewInv, TypeInv, TypeOK, Over
<1> DEFINE q == review[r].question
           row == [question |-> q, decision |-> review[r].decision, reviewer |-> r]
<1>1. Claiming(r) /\ review[r] \in Review
  BY DEF Commit, Claiming, Known
<1>2. \A e \in Entries : entry'[e] = IF e \in claimed[r] THEN row ELSE entry[e]
  BY DEF Commit
<1>3. \A e \in claimed[r] : entry[e] # NULL /\ entry[e].question = q
  BY <1>1 DEF ClaimedRows, Undecided
<1>4. row # NULL /\ row.question = q
  <2>1. row \in EntryRow
    BY <1>1 DEF Review, EntryRow
  <2> QED  BY <2>1, ReviewAssumption
<1>5. FoundRows'
  BY <1>2, <1>3, <1>4 DEF FoundRows, Commit
<1>6. ClaimedRows'
  <2> SUFFICES ASSUME NEW t \in Reviewers, Claiming(t)'
               PROVE  (claimed[t] # {} /\ claimed[t] \subseteq Undecided(review[t].question))'
    BY DEF ClaimedRows
  <2>1. /\ t # r /\ Claiming(t)
        /\ claimed'[t] = claimed[t] /\ review'[t] = review[t]
    BY DEF Commit, Claiming
  <2>2. claimed[t] \intersect claimed[r] = {}
    BY <1>1, <2>1 DEF ClaimsDisjoint
  <2>3. claimed[t] # {} /\ claimed[t] \subseteq Undecided(review[t].question)
    BY <2>1 DEF ClaimedRows
  <2> QED  BY <1>2, <2>1, <2>2, <2>3 DEF Undecided
<1>7. ClaimsDisjoint'
  BY DEF ClaimsDisjoint, Claiming, Commit
<1> QED  BY <1>5, <1>6, <1>7

\* A new queue entry is in no review's snapshot.
LEMMA EnqueueRows ==
    ASSUME ReviewInv, NEW e \in Entries, NEW q \in Questions, Enqueue(e, q)
    PROVE  FoundRows' /\ ClaimedRows' /\ ClaimsDisjoint'
<1> USE DEF ReviewInv, TypeInv, TypeOK, Enqueue, rvars
<1>1. FoundRows'
  BY DEF FoundRows
<1>2. ClaimedRows'
  BY DEF ClaimedRows, Claiming, Undecided
<1>3. ClaimsDisjoint'
  BY DEF ClaimsDisjoint, Claiming
<1> QED  BY <1>1, <1>2, <1>3

\* Editors do not touch the queue, nor reviews in progress.
LEMMA ReviewsUntouched ==
    ASSUME ReviewInv, UNCHANGED <<entry, rvars>>
    PROVE  FoundRows' /\ ClaimedRows' /\ ClaimsDisjoint'
BY DEF ReviewInv, FoundRows, ClaimedRows, ClaimsDisjoint, Claiming, Undecided, rvars

LEMMA NextReviewInv == ReviewInv /\ [Next]_vars => ReviewInv'
<1> SUFFICES ASSUME ReviewInv, [Next]_vars
             PROVE  FoundRows' /\ ClaimedRows' /\ ClaimsDisjoint'
  BY NextTyped DEF ReviewInv
<1>1. ASSUME NEW r \in Reviewers, NEW q \in Questions, NEW d \in Decisions,
             Decide(r, q, d)
      PROVE  FoundRows' /\ ClaimedRows' /\ ClaimsDisjoint'
  BY <1>1, DecideRows
<1>2. ASSUME NEW r \in Reviewers, ReviewStep(r)
      PROVE  FoundRows' /\ ClaimedRows' /\ ClaimsDisjoint'
  <2>1. CASE FindEntries(r)
    BY <2>1, FindRows
  <2>2. CASE ClaimEntries(r)
    BY <2>2, ClaimRows
  <2>3. CASE AlreadyDecided(r)
    BY <2>3, QueueUntouched DEF AlreadyDecided
  <2>4. CASE SetStatus(r)
    BY <2>4, QueueUntouched DEF SetStatus, Moves
  <2>5. CASE Commit(r)
    BY <2>5, CommitRows
  <2> QED  BY <1>2, <2>1, <2>2, <2>3, <2>4, <2>5 DEF ReviewStep
<1>3. ASSUME NEW r \in Reviewers, Fail(r)
      PROVE  FoundRows' /\ ClaimedRows' /\ ClaimsDisjoint'
  BY <1>3, QueueUntouched DEF Fail
<1>4. ASSUME NEW a \in Editors,
             (\E p \in Patch : ReadQuestion(a, p)) \/ WriteQuestion(a) \/ DropPatch(a)
      PROVE  FoundRows' /\ ClaimedRows' /\ ClaimsDisjoint'
  BY <1>4, ReviewsUntouched DEF ReadQuestion, WriteQuestion, DropPatch
<1>5. ASSUME NEW e \in Entries, NEW q \in Questions, Enqueue(e, q)
      PROVE  FoundRows' /\ ClaimedRows' /\ ClaimsDisjoint'
  BY <1>5, EnqueueRows
<1>6. CASE UNCHANGED vars
  BY <1>6, ReviewsUntouched DEF vars
<1> QED  BY <1>1, <1>2, <1>3, <1>4, <1>5, <1>6 DEF Next

LEMMA Reviewed == Spec => []ReviewInv
<1>1. Init => ReviewInv
  BY InitTyped, InitRows DEF ReviewInv
<1> QED  BY <1>1, NextReviewInv, PTL DEF Spec

-----------------------------------------------------------------------------
\* Only a commit decides rows, and those it decides were undecided rows of its
\* question.
LEMMA CommitDecides ==
    ASSUME ReviewInv, NEW r \in Reviewers, Commit(r)
    PROVE  /\ review[r] \in Review
           /\ claimed[r] # {} /\ claimed[r] \subseteq Undecided(review[r].question)
           /\ \A e \in claimed[r] : entry'[e] = [question |-> review[r].question,
                                                 decision |-> review[r].decision,
                                                 reviewer |-> r]
           /\ \A e \in Entries \ claimed[r] : entry'[e] = entry[e]
           /\ status' = [status EXCEPT ![review[r].question] =
                             IF review[r].decision = "needs_edit"
                             THEN @ ELSE Outcome(review[r].decision)]
<1>1. claimed[r] \subseteq Entries
  BY DEF ReviewInv, TypeInv, TypeOK
<1> QED  BY <1>1 DEF ReviewInv, TypeInv, TypeOK, Known, ClaimedRows, Claiming, Commit

\* A step that decides nothing: rows stay as they are or are new and undecided.
DecidesNothing ==
    /\ UNCHANGED status
    /\ \A e \in Entries : \/ entry'[e] = entry[e]
                          \/ /\ entry[e] = NULL
                             /\ entry'[e] \in EntryRow
                             /\ entry'[e].decision = NULL

LEMMA OthersDecideNothing ==
    ASSUME ReviewInv, [Next]_vars, \A r \in Reviewers : ~Commit(r)
    PROVE  DecidesNothing
<1> USE DEF DecidesNothing
<1>1. CASE \E r \in Reviewers : \/ \E q \in Questions, d \in Decisions : Decide(r, q, d)
                                \/ ReviewStep(r)
                                \/ Fail(r)
  BY <1>1 DEF Decide, ReviewStep, FindEntries, ClaimEntries, AlreadyDecided, SetStatus,
              Fail, question
<1>2. CASE \E a \in Editors : \/ \E p \in Patch : ReadQuestion(a, p)
                              \/ WriteQuestion(a)
                              \/ DropPatch(a)
  BY <1>2 DEF ReadQuestion, WriteQuestion, DropPatch, question
<1>3. ASSUME NEW e \in Entries, NEW q \in Questions, Enqueue(e, q)
      PROVE  DecidesNothing
  <2>1. [question |-> q, decision |-> NULL, reviewer |-> NULL] \in EntryRow
    BY DEF EntryRow
  <2> QED  BY <1>3, <2>1 DEF Enqueue, question, ReviewInv, TypeInv, TypeOK
<1>4. CASE UNCHANGED vars
  BY <1>4 DEF vars, question
<1> QED  BY <1>1, <1>2, <1>3, <1>4 DEF Next

\* A decision once taken is never overwritten, however many reviewers decide the
\* question at once (the second look of admin_review.go:39 under READ COMMITTED).
THEOREM NoDecisionOverwritten == Spec => DecidedOnce
<1>1. ReviewInv /\ [Next]_vars => \A e \in Entries : Decided(e) => entry'[e] = entry[e]
  <2> SUFFICES ASSUME ReviewInv, [Next]_vars, NEW e \in Entries, Decided(e)
               PROVE  entry'[e] = entry[e]
    OBVIOUS
  <2>1. CASE \E r \in Reviewers : Commit(r)
    BY <2>1, CommitDecides DEF Decided, Undecided
  <2>2. CASE \A r \in Reviewers : ~Commit(r)
    BY <2>2, OthersDecideNothing DEF DecidesNothing, Decided
  <2> QED  BY <2>1, <2>2
<1> QED  BY <1>1, Reviewed, PTL DEF Spec, DecidedOnce

\* A decision and the status of its question change together (one transaction,
\* admin_review.go:14-71).
THEOREM DecisionMovesStatus == Spec => DecisionWithStatus
<1> DEFINE StatusFromDecision ==
               \A q \in Questions : status'[q] # status[q] =>
                   \E e \in Undecided(q) : /\ entry'[e].decision \in {"approved", "rejected"}
                                           /\ status'[q] = Outcome(entry'[e].decision)
           DecisionGivesStatus ==
               \A e \in Entries : ~Decided(e) /\ Decided(e)' =>
                   status'[entry'[e].question] =
                       IF entry'[e].decision = "needs_edit"
                       THEN status[entry'[e].question]
                       ELSE Outcome(entry'[e].decision)
<1>1. ReviewInv /\ [Next]_vars => StatusFromDecision /\ DecisionGivesStatus
  <2> SUFFICES ASSUME ReviewInv, [Next]_vars
               PROVE  StatusFromDecision /\ DecisionGivesStatus
    OBVIOUS
  <2>0. status \in [Questions -> Statuses]
    BY DEF ReviewInv, TypeInv, TypeOK
  <2>1. ASSUME NEW r \in Reviewers, Commit(r)
        PROVE  StatusFromDecision /\ DecisionGivesStatus
    <3> DEFINE q == review[r].question
               d == review[r].decision
    <3>1. q \in Questions /\ d \in Decisions
      BY <2>1, CommitDecides DEF Review
    <3>2. \A e \in claimed[r] : e \in Undecided(q) /\ entry'[e].question = q
                                    /\ entry'[e].decision = d
      <4>1. \A e \in claimed[r] : entry'[e] = [question |-> q, decision |-> d, reviewer |-> r]
        BY <2>1, CommitDecides
      <4>2. claimed[r] \subseteq Undecided(q)
        BY <2>1, CommitDecides
      <4> HIDE DEF q, d
      <4> QED  BY <4>1, <4>2
    <3>3. \A p \in Questions :
              status'[p] = IF p # q \/ d = "needs_edit" THEN status[p] ELSE Outcome(d)
      <4>1. status' = [status EXCEPT ![q] = IF d = "needs_edit" THEN @ ELSE Outcome(d)]
        BY <2>1, CommitDecides
      <4> HIDE DEF q, d
      <4> QED  BY <2>0, <3>1, <4>1
    <3>4. StatusFromDecision
      <4> SUFFICES ASSUME NEW p \in Questions, status'[p] # status[p]
                   PROVE  \E e \in Undecided(p) :
                              /\ entry'[e].decision \in {"approved", "rejected"}
                              /\ status'[p] = Outcome(entry'[e].decision)
        OBVIOUS
      <4>1. p = q /\ d # "needs_edit" /\ status'[p] = Outcome(d)
        BY <3>3
      <4>2. PICK e \in claimed[r] : TRUE
        BY <2>1, CommitDecides
      <4> QED  BY <3>1, <3>2, <4>1, <4>2 DEF Decisions
    <3>5. DecisionGivesStatus
      <4> SUFFICES ASSUME NEW e \in Entries, ~Decided(e), Decided(e)'
                   PROVE  status'[entry'[e].question] =
                              IF entry'[e].decision = "needs_edit"
                              THEN status[entry'[e].question]
                              ELSE Outcome(entry'[e].decision)
        OBVIOUS
      <4>1. e \in claimed[r]
        BY <2>1, CommitDecides DEF Decided
      <4>2. status'[q] = IF d = "needs_edit" THEN status[q] ELSE Outcome(d)
        BY <3>1, <3>3
      <4> QED  BY <3>2, <4>1, <4>2
    <3> QED  BY <3>4, <3>5
  <2>2. CASE \A r \in Reviewers : ~Commit(r)
    BY <2>2, OthersDecideNothing DEF DecidesNothing, Decided
  <2> QED  BY <2>1, <2>2
<1> QED  BY <1>1, Reviewed, PTL DEF Spec, DecisionWithStatus

-----------------------------------------------------------------------------
\* A commit settles the claimed rows at once: the desk's Decide.
LEMMA CommitIsDecide ==
    ASSUME ReviewInv, NEW r \in Reviewers, Commit(r)
    PROVE  Desk!Next
<1>1. PICK q \in Questions, d \in Decisions :
          q = review[r].question /\ d = review[r].decision
  BY CommitDecides DEF Review
<1>2. claimed[r] \in (SUBSET Desk!Undecided(q)) \ {{}}
  <2>1. claimed[r] # {} /\ claimed[r] \subseteq Undecided(q)
    BY <1>1, CommitDecides
  <2>2. Desk!Undecided(q) = Undecided(q)
    BY DEF Desk!Undecided, Undecided
  <2> QED  BY <2>1, <2>2
<1>3. entry' = [e \in Entries |->
                   IF e \in claimed[r]
                   THEN [question |-> q, decision |-> d, reviewer |-> r]
                   ELSE entry[e]]
  BY <1>1 DEF Commit
<1>4. status' = [status EXCEPT ![q] = CASE d = "approved"   -> "published"
                                        [] d = "rejected"   -> "rejected"
                                        [] d = "needs_edit" -> @]
  <2>1. status' = [status EXCEPT ![q] = IF d = "needs_edit" THEN @ ELSE Outcome(d)]
    BY <1>1 DEF Commit
  <2>2. CASE d = "approved"
    BY <2>1, <2>2 DEF Outcome
  <2>3. CASE d = "rejected"
    BY <2>1, <2>3 DEF Outcome
  <2>4. CASE d = "needs_edit"
    BY <2>1, <2>4
  <2> QED  BY <2>2, <2>3, <2>4 DEF Decisions
<1>5. Desk!Decide(r, q, d)
  BY <1>2, <1>3, <1>4 DEF Desk!Decide
<1> QED  BY <1>5 DEF Desk!Next, Desk!Decisions, Decisions

\* Every other step of a review, and every edit, is invisible at the desk.
LEMMA DeskNext ==
    ASSUME ReviewInv, [Next]_vars
    PROVE  [Desk!Next]_(Desk!desk)
<1> USE DEF Desk!desk
<1>1. CASE \E r \in Reviewers : Commit(r)
  BY <1>1, CommitIsDecide
<1>2. CASE \E e \in Entries, q \in Questions : Enqueue(e, q)
  <2>1. PICK e \in Entries, q \in Questions : Enqueue(e, q)
    BY <1>2
  <2>2. Desk!Enqueue(e, q)
    BY <2>1 DEF Enqueue, Desk!Enqueue, question
  <2> QED  BY <2>2 DEF Desk!Next
<1>3. CASE \E r \in Reviewers : \/ \E q \in Questions, d \in Decisions : Decide(r, q, d)
                                \/ ReviewStep(r) /\ ~Commit(r)
                                \/ Fail(r)
  BY <1>3 DEF Decide, ReviewStep, FindEntries, ClaimEntries, AlreadyDecided, SetStatus,
              Fail, question
<1>4. CASE \E a \in Editors : \/ \E p \in Patch : ReadQuestion(a, p)
                              \/ WriteQuestion(a)
                              \/ DropPatch(a)
  BY <1>4 DEF ReadQuestion, WriteQuestion, DropPatch, question
<1>5. CASE UNCHANGED vars
  BY <1>5 DEF vars, question
<1> QED  BY <1>1, <1>2, <1>3, <1>4, <1>5 DEF Next

\* However the statements of reviews and edits interleave, wait or fail, the
\* statuses and the queue change as if each review were one step.
THEOREM ReviewsAtOnce == Spec => DeskSpec
<1>1. Init => Desk!Init
  BY DEF Init, Desk!Init
<1> QED  BY <1>1, DeskNext, Reviewed, PTL DEF Spec, Desk!Spec, DeskSpec

-----------------------------------------------------------------------------
\* A validated patch is still valid on what the question holds.
PatchValid ==
    \A a \in Editors : epc[a] = "validated" =>
        LET p == patch[a]
        IN  Patched(correct[p.question], p.correct)
                \subseteq Patched(choices[p.question], p.choices)

EditInv == TypeInv /\ KeysAreChoices /\ PatchValid

\* Of the two columns, patch p gives one and patch w of the same question the other: p
\* was validated against a column that w replaces.
Crossed(p, w) ==
    /\ p.question = w.question
    /\ \/ p.choices = NULL /\ p.correct # NULL /\ w.choices # NULL
       \/ p.correct = NULL /\ p.choices # NULL /\ w.correct # NULL

\* No two validated patches are so.
NoneCrossed ==
    \A a, b \in Editors :
        a # b /\ epc[a] = "validated" /\ epc[b] = "validated" => ~Crossed(patch[a], patch[b])

\* What edits do not touch stays valid.
LEMMA EditUntouched ==
    ASSUME EditInv, UNCHANGED <<choices, correct, epc, patch>>
    PROVE  KeysAreChoices' /\ PatchValid'
BY DEF EditInv, KeysAreChoices, PatchValid

\* A write leaves the keys among the choices, as its patch was valid, and every other
\* patch valid: one that gives both columns or neither is so by itself, and one that
\* gives a single column finds the other as it was when it was read.
LEMMA WriteKeepsValid ==
    ASSUME EditInv, NoneCrossed, NEW a \in Editors, WriteQuestion(a)
    PROVE  KeysAreChoices' /\ PatchValid'
<1> USE DEF EditInv
<1> DEFINE w == patch[a]
<1>1. w \in Patch /\ epc[a] = "validated"
  BY DEF WriteQuestion, TypeInv, Known
<1>2. KeysAreChoices'
  BY <1>1 DEF WriteQuestion, KeysAreChoices, PatchValid, TypeInv, TypeOK, Patch
<1>3. /\ choices' = [choices EXCEPT ![w.question] = Patched(@, w.choices)]
      /\ correct' = [correct EXCEPT ![w.question] = Patched(@, w.correct)]
      /\ w.question \in Questions
  BY <1>1 DEF WriteQuestion, Patch
<1>4. ASSUME NEW b \in Editors, epc'[b] = "validated"
      PROVE  LET p == patch'[b]
             IN  Patched(correct'[p.question], p.correct)
                     \subseteq Patched(choices'[p.question], p.choices)
  <2> DEFINE p == patch[b]
  <2>1. b # a /\ epc[b] = "validated" /\ patch'[b] = p /\ p \in Patch
    BY <1>4 DEF WriteQuestion, TypeInv, TypeOK, Known
  <2>2. p.question \in Questions
    BY <2>1 DEF Patch
  <2>3. Patched(correct[p.question], p.correct) \subseteq Patched(choices[p.question], p.choices)
    BY <2>1 DEF PatchValid
  <2>4. ~Crossed(p, w)
    BY <1>1, <2>1 DEF NoneCrossed
  <2>5. /\ choices \in [Questions -> SUBSET Keys] /\ correct \in [Questions -> SUBSET Keys]
    BY DEF TypeInv, TypeOK
  <2> HIDE DEF p, w
  <2>6. CASE p.question # w.question
    BY <1>3, <2>1, <2>2, <2>3, <2>5, <2>6
  <2>7. CASE p.question = w.question /\ p.choices # NULL /\ p.correct # NULL
    BY <2>1, <2>3, <2>7 DEF Patched
  <2>8. CASE p.question = w.question /\ p.choices = NULL /\ p.correct # NULL
    <3>1. w.choices = NULL
      BY <2>4, <2>8 DEF Crossed
    <3>2. choices' = choices
      BY <1>3, <2>5, <3>1 DEF Patched
    <3> QED  BY <2>1, <2>3, <2>8, <3>2 DEF Patched
  <2>9. CASE p.question = w.question /\ p.choices # NULL /\ p.correct = NULL
    <3>1. w.correct = NULL
      BY <2>4, <2>9 DEF Crossed
    <3>2. correct' = correct
      BY <1>3, <2>5, <3>1 DEF Patched
    <3> QED  BY <2>1, <2>3, <2>9, <3>2 DEF Patched
  <2>10. CASE p.choices = NULL /\ p.correct = NULL
    <3>1. correct'[p.question] \subseteq choices'[p.question]
      BY <1>2, <2>2 DEF KeysAreChoices
    <3> QED  BY <2>1, <2>10, <3>1 DEF Patched
  <2> QED  BY <2>6, <2>7, <2>8, <2>9, <2>10
<1> QED  BY <1>2, <1>4 DEF PatchValid

\* Every step keeps patches valid, and the keys among the choices.
LEMMA UncrossedNext ==
    ASSUME NoneCrossed, EditInv, [Next]_vars
    PROVE  EditInv'
<1> USE DEF EditInv
<1> SUFFICES KeysAreChoices' /\ PatchValid'
  BY NextTyped
<1>2. ASSUME NEW a \in Editors, NEW p \in Patch, ReadQuestion(a, p)
      PROVE  KeysAreChoices' /\ PatchValid'
  BY <1>2 DEF ReadQuestion, question, KeysAreChoices, PatchValid, TypeInv, TypeOK
<1>3. ASSUME NEW a \in Editors, WriteQuestion(a)
      PROVE  KeysAreChoices' /\ PatchValid'
  BY <1>3, WriteKeepsValid
<1>4. ASSUME NEW a \in Editors, DropPatch(a)
      PROVE  KeysAreChoices' /\ PatchValid'
  BY <1>4 DEF DropPatch, question, KeysAreChoices, PatchValid, TypeInv, TypeOK
<1>5. CASE \E r \in Reviewers : \/ \E q \in Questions, d \in Decisions : Decide(r, q, d)
                                \/ ReviewStep(r)
                                \/ Fail(r)
  BY <1>5, EditUntouched DEF Decide, ReviewStep, FindEntries, ClaimEntries,
        AlreadyDecided, SetStatus, Commit, Fail, Over, question, evars
<1>6. CASE \E e \in Entries, q \in Questions : Enqueue(e, q)
  BY <1>6, EditUntouched DEF Enqueue, question, evars
<1>7. CASE UNCHANGED vars
  BY <1>7, EditUntouched DEF vars, question, evars
<1> QED  BY <1>2, <1>3, <1>4, <1>5, <1>6, <1>7 DEF Next

\* The correct keys of a question are among its choices, however many editors are at work
\* and whatever the reviewers do, unless a patch of one of the two columns alone and another
\* patch that gives the other column of the same question are both read before either is
\* written: only then the check of admin_question.go:138 may not hold at the write of
\* line 142.
THEOREM UncrossedKeepKeys == Spec /\ []NoneCrossed => []KeysAreChoices
<1>1. Init => EditInv
  BY InitTyped DEF Init, EditInv, KeysAreChoices, PatchValid
<1>2. EditInv /\ NoneCrossed /\ [Next]_vars => EditInv'
  BY UncrossedNext
<1>3. EditInv => KeysAreChoices
  BY DEF EditInv
<1> QED  BY <1>1, <1>2, <1>3, PTL DEF Spec

\* In particular while at most one editor is at work.  Two break it (run two_editors).
THEOREM OneEditorKeepsKeys ==
    ASSUME \A a, b \in Editors : a = b
    PROVE  Spec => []KeysAreChoices
<1>1. NoneCrossed
  BY DEF NoneCrossed
<1> QED  BY <1>1, UncrossedKeepKeys, PTL
=============================================================================
