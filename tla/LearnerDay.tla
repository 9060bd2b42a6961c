----------------------------- MODULE LearnerDay -----------------------------
(***************************************************************************)
(* What recording answers (AttemptTx) and GET /home (HomeTasks) have in    *)
(* common: the questions learners have answered and the tasks of the day.  *)
(* Each of the two modules implements this one, so that what each of them  *)
(* assumes of the other is what the other does.                            *)
(***************************************************************************)
CONSTANTS Learners, Slots, Questions

VARIABLES
    answered,  \* which learner has an attempt of which question
    tasks      \* the rows of daily_task of today

vars == <<answered, tasks>>

Task(u, s, q, done) == [user |-> u, slot |-> s, question |-> q, done |-> done]

Init == answered = {} /\ tasks = {}

\* An answer is recorded, and completes an open task of today that asks the question,
\* or none: it may belong to a day that is over.
Answer(u, q) ==
    /\ answered' = answered \union {<<u, q>>}
    /\ \/ UNCHANGED tasks
       \/ \E s \in Slots :
             /\ Task(u, s, q, FALSE) \in tasks
             /\ tasks' = (tasks \ {Task(u, s, q, FALSE)}) \union {Task(u, s, q, TRUE)}

\* A slot that has no task gets one.
Assign(u, s, q) ==
    /\ \A t \in tasks : t.user = u => t.slot # s
    /\ tasks' = tasks \union {Task(u, s, q, FALSE)}
    /\ UNCHANGED answered

\* Midnight: today is another day, and has no tasks.
NewDay ==
    /\ tasks' = {}
    /\ UNCHANGED answered

Next ==
    \/ \E u \in Learners, q \in Questions : Answer(u, q)
    \/ \E u \in Learners, s \in Slots, q \in Questions : Assign(u, s, q)
    \/ NewDay

Spec == Init /\ [][Next]_vars
=============================================================================
