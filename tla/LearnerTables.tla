---------------------------- MODULE LearnerTables ----------------------------
(***************************************************************************)
(* The rows that recording an answer touches, and the two readings of the  *)
(* daily_task table its statements make.  Shared by the specification of   *)
(* what recording promises (AttemptLedger) and by the statement-by-        *)
(* statement model of the code (AttemptTx).                                *)
(***************************************************************************)
EXTENDS Integers, FiniteSets, Streak, Srs

CONSTANTS
    Users,        \* learners
    Questions,    \* published questions
    Types,        \* question types
    QType,        \* the type of each question; no handler changes it
    Languages,    \* code languages
    NSlots,       \* task slots of a day
    MaxDay,       \* bound on the calendar
    Requests,     \* attempt submissions, each of which may write one attempt row
    WithProgress, \* users that have a user_progress row
    NULL

Days  == 1 .. MaxDay
Slots == 1 .. NSlots

\* (question_type, language): with the user, the key of user_type_stat.
Categories == Types \X Languages

\* XP of a correct answer.
XpPerCorrect == 10

NoSlot == 0

\* `category` is the key of the stat row the attempt was counted in.
AttemptRow  == [id : Requests, user : Users, question : Questions,
                category : Categories, correct : BOOLEAN]
StatRow     == [attempts : Nat, corrects : Nat]
\* completed_at and attempt_id are written together: attempt is NULL while open.
TaskRow     == [question : Questions, attempt : Requests \union {NULL}]
ProgressRow == [xp : Nat, streak : Nat, last : Days \union {NoDay}]

NoStat     == [attempts |-> 0, corrects |-> 0]
NoProgress == [xp |-> 0, streak |-> 0, last |-> NoDay]

ASSUME TablesAssumption ==
    /\ NSlots \in Nat \ {0} /\ MaxDay \in Nat \ {0}
    /\ QType \in [Questions -> Types]
    /\ IsFiniteSet(Requests)
    /\ WithProgress \subseteq Users
    /\ NULL \notin Requests /\ NULL \notin TaskRow /\ NULL \notin AttemptRow

Delta(a) == IF a.correct THEN 1 ELSE 0
Gain(a)  == IF a.correct THEN XpPerCorrect ELSE 0

\* Mutant: the sub-select does not ask for completed_at IS NULL.
SlotsAnyState(tasks, q) ==
    {s \in Slots : tasks[s] # NULL /\ tasks[s].question = q}

\* Mutant: the sub-select does not ask for the question.
SlotsAnyQuestion(tasks, q) ==
    {s \in Slots : tasks[s] # NULL /\ tasks[s].attempt = NULL}

\* The open tasks of one day that a question answers.
OpenSlots(tasks, q) ==
    {s \in Slots : /\ tasks[s] # NULL
                   /\ tasks[s].question = q
                   /\ tasks[s].attempt = NULL}

\* One user's tasks after attempt a has completed one of day's, or none.
Completing(tasks, day, s, a) ==
    IF s = NoSlot THEN tasks ELSE [tasks EXCEPT ![day][s].attempt = a.id]

\* The days with at least one task completed.
StartedDays(tasks) ==
    {d \in Days : \E s \in Slots : tasks[d][s] # NULL /\ tasks[d][s].attempt # NULL}

\* Mutant: a day without tasks has none that is open.
CompletedOrEmptyDays(tasks) ==
    {d \in Days : \A s \in Slots : tasks[d][s] # NULL => tasks[d][s].attempt # NULL}

\* completed_days: the days with tasks, all of them completed.
CompletedDays(tasks) ==
    {d \in Days :
        /\ \E s \in Slots : tasks[d][s] # NULL
        /\ \A s \in Slots : tasks[d][s] # NULL => tasks[d][s].attempt # NULL}
=============================================================================
