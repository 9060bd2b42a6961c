------------------------------ MODULE Calendar ------------------------------
(***************************************************************************)
(* GET /calendar of one learner (service/calendar.go): the days of a range *)
(* and then the streak, two reads of daily_task, while home screens add    *)
(* tasks to today, answers complete them, and midnight passes.             *)
(*                                                                         *)
(* daily_task is the counts of each day: of tasks and of completed ones.   *)
(* An answer completes a task of the day its transaction began on, which   *)
(* may be over when it commits.                                            *)
(***************************************************************************)
EXTENDS Streak

CONSTANTS
    NSlots,    \* task slots of a day
    MaxRange,  \* the longest range that may be asked for, in days (366)
    MaxDay     \* bound on the calendar

ASSUME CalendarAssumption == {NSlots, MaxRange, MaxDay} \subseteq Nat \ {0}

Days == 1..MaxDay

VARIABLES
    today,      \* the JST date
    total,      \* tasks of each day
    completed,  \* those of them that are completed
    answering,  \* the day of the answer being recorded, or NoDay
    range,      \* the days a request asked for, {} when there is none
    shown,      \* the days its reply shows as completed
    listedOn,   \* the date when they were read
    unsettled   \* the day of the answer being recorded then, or NoDay

tasks == <<total, completed>>
reply == <<range, shown, listedOn, unsettled>>
vars == <<today, tasks, answering, reply>>

Init ==
    /\ today = 1
    /\ total = [d \in Days |-> 0] /\ completed = [d \in Days |-> 0]
    /\ answering = NoDay
    /\ range = {} /\ shown = {} /\ listedOn = NoDay /\ unsettled = NoDay

\* UpsertDailyTask of GET /home: today gets one more task, even when all of those it
\* had are completed.
Assign ==
    /\ total[today] < NSlots
    /\ total' = [total EXCEPT ![today] = @ + 1]
    /\ UNCHANGED <<today, completed, answering, reply>>

\* RecordAttempt begins: now() stays what it is.
BeginAnswer ==
    /\ answering = NoDay
    /\ answering' = today
    /\ UNCHANGED <<today, tasks, reply>>

\* It commits, with a task of its day completed, or none to complete ...
CommitAnswer ==
    /\ answering # NoDay
    /\ completed[answering] < total[answering]
    /\ completed' = [completed EXCEPT ![answering] = @ + 1]
    /\ answering' = NoDay
    /\ UNCHANGED <<today, total, reply>>

\* ... or leaves the tasks as they are.
EndAnswer ==
    /\ answering # NoDay
    /\ answering' = NoDay
    /\ UNCHANGED <<today, tasks, reply>>

NextDay ==
    /\ today < MaxDay
    /\ today' = today + 1
    /\ UNCHANGED <<tasks, answering, reply>>

-----------------------------------------------------------------------------
\* validDateRange.
ValidRange(from, to) == from <= to /\ to - from + 1 <= MaxRange

\* Mutant: a day counts as completed from its first completed task on.
ShownCompletedFromFirst(d) == total[d] > 0 /\ completed[d] > 0

\* Completed of a domain.CalendarDay.
ShownCompleted(d) == total[d] > 0 /\ total[d] = completed[d]

\* The request, and DailyConsumption.
ListDays(from, to) ==
    /\ range = {}
    /\ ValidRange(from, to)
    /\ range' = from..to
    /\ shown' = {d \in range' : ShownCompleted(d)}
    /\ listedOn' = today /\ unsettled' = answering
    /\ UNCHANGED <<today, tasks, answering>>

\* completed_days of the streak query: GROUP BY yields only days with tasks.
CompletedDays == {d \in Days : total[d] > 0 /\ total[d] = completed[d]}

\* What Streak returns when it is read now, the second half of the reply.
Streak == StreakDays(CompletedDays, today)
Last == LastStudiedOn(CompletedDays)

\* It is read, and the reply is sent.
Reply ==
    /\ range # {}
    /\ range' = {} /\ shown' = {} /\ listedOn' = NoDay /\ unsettled' = NoDay
    /\ UNCHANGED <<today, tasks, answering>>

Next ==
    \/ Assign \/ BeginAnswer \/ CommitAnswer \/ EndAnswer \/ NextDay
    \/ \E from, to \in Days : ListDays(from, to)
    \/ Reply

Spec == Init /\ [][Next]_vars

-----------------------------------------------------------------------------
\* The streak a reader of the calendar would count by hand: walk back from the
\* latest completed day, if it is today or yesterday, until a day is missing.
ByHand(S, d) ==
    IF S = {} \/ Max(S) < d - 1 THEN 0
    ELSE CHOOSE n \in 1..Max(S) :
            /\ (Max(S) - n + 1)..Max(S) \subseteq S
            /\ Max(S) - n \notin S

\* The row_number() arithmetic of the streak query (calendar.go:32-45) computes the
\* number of consecutive completed days, whatever gaps the calendar has.
StreakIsRun == Streak = ByHand(CompletedDays, today)

\* The days of the range that were over when they were read, with no answer of theirs
\* still being recorded.
Settled == {d \in range : d < listedOn /\ d # unsettled}

\* The two reads of one reply are not one snapshot (service/calendar.go:23-27), yet
\* they contradict each other about no settled day, whatever happens between them:
\* the streak runs over days that are shown completed, ends at the latest of them and
\* begins after a day that is not.
CalendarAgrees ==
    \A d \in Settled :
        /\ d \in (Last - Streak + 1)..Last \union {Last} => d \in shown
        /\ d > Last \/ (Streak > 0 /\ d = Last - Streak) => d \notin shown
=============================================================================
