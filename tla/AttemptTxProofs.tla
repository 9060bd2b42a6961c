--------------------------- MODULE AttemptTxProofs ---------------------------
(***************************************************************************)
(* Theorems about AttemptTx, for every number of answers, learners,        *)
(* questions and days, and every interleaving of their statements:         *)
(*   - the tables stay typed, and the counters in step with the attempts;   *)
(*   - completed tasks, streaks and schedules follow from the attempts;     *)
(*   - the statements implement AttemptLedger, one indivisible step each,   *)
(*     and LearnerDay, as GET /home does;                                   *)
(*   - every completed day is credited where no snapshot is left waiting;   *)
(*   - transactions never wait for each other in a circle.                  *)
(***************************************************************************)
EXTENDS AttemptTx, StreakProofs

-----------------------------------------------------------------------------
\* The inductive invariant.  LedgerBalances is not inductive by itself: it holds
\* after a commit only because what the transaction wrote was computed from the
\* committed rows that are still there, which the row locks guarantee.

\* Two transactions never hold the same row.
LocksExclusive ==
    \A r, t \in Requests : r # t =>
        /\ ~(/\ pc[r] \in AfterStat /\ pc[t] \in AfterStat
             /\ req[r].user = req[t].user /\ req[r].category = req[t].category)
        /\ ~(/\ pc[r] \in AfterSrs /\ pc[t] \in AfterSrs
             /\ req[r].user = req[t].user /\ req[r].question = req[t].question)
        /\ ~(/\ pc[r] = "updated" /\ pc[t] = "updated"
             /\ req[r].user = req[t].user)

\* A pending stat row is one more than the committed one.
StatPending ==
    \A r \in Requests : pc[r] \in AfterStat =>
        /\ pStat[r].attempts = stat[req[r].user][req[r].category].attempts + 1
        /\ pStat[r].corrects = stat[req[r].user][req[r].category].corrects
                                   + Delta(req[r])

\* The slot a transaction completes holds an open task for its question.
SlotPending ==
    \A r \in Requests : pSlot[r] # NoSlot =>
        /\ pc[r] \in AfterSrs
        /\ LET task == daily[req[r].user][txDay[r]][pSlot[r]]
           IN  task \in TaskRow /\ task.question = req[r].question
                                /\ task.attempt = NULL

\* Pending xp is the committed xp and the answer's gain; only a learner with a
\* progress row gets that far.
XpPending ==
    \A r \in Requests : pc[r] = "updated" =>
        /\ req[r].user \in WithProgress
        /\ pProg[r].xp = progress[req[r].user].xp + Gain(req[r])

\* Attempt rows are finitely many and come from requests that are done.
AttemptsDone == /\ IsFiniteSet(attempt)
                /\ \A a \in attempt : pc[a.id] = "done"

IInv == /\ TypeOK
        /\ LocksExclusive
        /\ StatPending
        /\ SlotPending
        /\ XpPending
        /\ AttemptsDone
        /\ LedgerBalances

-----------------------------------------------------------------------------
\* Lemmas about the rows.

LEMMA NextIntervalType ==
    ASSUME NEW i \in Nat
    PROVE  NextInterval(i) \in Nat \ {0}
<1>1. i * EasinessNum \in Nat
  BY SrsAssumption
<1>2. \A n \in Nat : RoundDiv(n, EasinessDen) \in Int
  BY SrsAssumption DEF RoundDiv
<1> QED  BY <1>1, <1>2 DEF NextInterval

\* What the srs upsert writes fits the table, unless it overflows.
LEMMA ReviewType ==
    ASSUME NEW row \in SrsRow, NEW correct \in BOOLEAN, NEW day \in Days,
           ~Overflows(row, correct)
    PROVE  Review(row, correct, day) \in SrsRow
<1>1. row.interval \in Nat /\ row.repetitions \in Nat
  BY SrsAssumption DEF SrsRow
<1>2. NextInterval(row.interval) \in Nat \ {0}
  BY <1>1, NextIntervalType
<1>3. correct => NextInterval(row.interval) <= MaxInt4
  BY <1>2, SrsAssumption DEF Overflows
<1> DEFINE i == IF correct THEN NextInterval(row.interval) ELSE 1
<1>4. i \in 0 .. MaxInt4
  BY <1>2, <1>3, SrsAssumption
<1>5. day + i \in Nat
  BY <1>4, SrsAssumption, TablesAssumption DEF Days
<1> QED  BY <1>1, <1>4, <1>5 DEF Review, SrsRow

UserTasks == [Days -> [Slots -> TaskRow \union {NULL}]]

\* Completing an open task keeps the tasks typed.
LEMMA CompletingType ==
    ASSUME NEW tasks \in UserTasks, NEW day \in Days,
           NEW s \in Slots \union {NoSlot}, NEW a \in AttemptRow,
           s # NoSlot => tasks[day][s] \in TaskRow
    PROVE  Completing(tasks, day, s, a) \in UserTasks
<1>1. CASE s = NoSlot
  BY <1>1 DEF Completing
<1>2. CASE s # NoSlot
  <2>1. [tasks[day][s] EXCEPT !.attempt = a.id] \in TaskRow
    BY <1>2 DEF TaskRow, AttemptRow
  <2>2. [tasks[day] EXCEPT ![s].attempt = a.id] \in [Slots -> TaskRow \union {NULL}]
    BY <1>2, <2>1 DEF UserTasks
  <2> QED  BY <1>2, <2>2 DEF Completing, UserTasks
<1> QED  BY <1>1, <1>2

\* The streak query returns a number and a day of the calendar, or none.
LEMMA StreakType ==
    ASSUME NEW S \in SUBSET Days, NEW today_ \in Days
    PROVE  /\ StreakDays(S, today_) \in Nat
           /\ LastStudiedOn(S) \in Days \union {NoDay}
<1>1. S \in SUBSET Int /\ IsFiniteSet(S) /\ today_ \in Int
  <2>1. IsFiniteSet(Days)
    BY TablesAssumption, FS_Interval DEF Days
  <2>2. Days \subseteq Int
    BY TablesAssumption DEF Days
  <2> QED  BY <2>1, <2>2, FS_Subset
<1>2. StreakDays(S, today_) \in Nat
  BY <1>1, StreakCountsRun
<1>3. S # {} => Max(S) \in S
  BY <1>1, MaxExists
<1> QED  BY <1>2, <1>3 DEF LastStudiedOn

-----------------------------------------------------------------------------
\* The counters, the tables behind them and the attempt rows are as before.
LEMMA SameLedger ==
    ASSUME LedgerBalances, UNCHANGED <<attempt, stat, progress>>
    PROVE  LedgerBalances'
BY DEF LedgerBalances, CorrectIn, CountedIn, CorrectOf, AnswersOf

\* Grading an answer touches only the request itself.
LEMMA SubmitInv ==
    ASSUME IInv, NEW r \in Requests, NEW u \in Users, NEW q \in Questions,
           NEW correct \in BOOLEAN, Submit(r, u, q, correct)
    PROVE  IInv'
<1> USE DEF IInv, Submit, Advance, tables, pending
<1>1. TypeOK'
  <2>1. <<QType[q], language[q]>> \in Categories
    BY TablesAssumption DEF TypeOK, Categories
  <2>2. req'[r] \in AttemptRow /\ req'[r].id = r
    BY <2>1 DEF TypeOK, AttemptRow
  <2>3. pc' \in [Requests -> Phases]
    BY DEF TypeOK, Phases
  <2>4. req' \in [Requests -> AttemptRow \union {NULL}]
    BY <2>1 DEF TypeOK, AttemptRow
  <2>5. \A t \in Requests :
           pc'[t] \notin {"idle", "failed"} => req'[t] \in AttemptRow /\ req'[t].id = t
    BY <2>2 DEF TypeOK
  <2> QED  BY <2>3, <2>4, <2>5 DEF TypeOK
<1>2. LocksExclusive'
  BY DEF TypeOK, LocksExclusive, AfterStat, AfterSrs
<1>3. StatPending' /\ XpPending'
  BY DEF TypeOK, StatPending, XpPending, AfterStat
<1>4. SlotPending'
  BY DEF TypeOK, SlotPending, AfterStat, AfterSrs
<1>5. AttemptsDone' /\ LedgerBalances'
  BY SameLedger DEF TypeOK, AttemptsDone, AttemptRow
<1> QED  BY <1>1, <1>2, <1>3, <1>4, <1>5

\* Starting a transaction takes no row.
LEMMA BeginInv ==
    ASSUME IInv, NEW r \in Requests, Begin(r)
    PROVE  IInv'
<1> USE DEF IInv, Begin, Advance, tables, pending
<1>1. TypeOK'
  BY DEF TypeOK, Phases
<1>2. LocksExclusive'
  BY DEF TypeOK, LocksExclusive, AfterStat, AfterSrs
<1>3. StatPending' /\ XpPending'
  BY DEF TypeOK, StatPending, XpPending, AfterStat
<1>4. SlotPending'
  BY DEF TypeOK, SlotPending, AfterStat, AfterSrs
<1>5. AttemptsDone' /\ LedgerBalances'
  BY SameLedger DEF TypeOK, AttemptsDone, AttemptRow
<1> QED  BY <1>1, <1>2, <1>3, <1>4, <1>5

\* Having waited for the stat row, the transaction is its only holder, and its
\* pending row counts on from the committed one.
LEMMA UpsertStatInv ==
    ASSUME IInv, NEW r \in Requests, UpsertStat(r)
    PROVE  IInv'
<1> USE DEF IInv, UpsertStat, Advance, tables, pending
<1>0. req[r] \in AttemptRow
  BY DEF TypeOK
<1>1. TypeOK'
  <2>1. stat[req[r].user][req[r].category] \in StatRow
    BY <1>0 DEF TypeOK, AttemptRow
  <2>2. pStat'[r] \in StatRow
    BY <2>1 DEF TypeOK, StatRow, Delta
  <2>3. pStat' \in [Requests -> StatRow]
    BY <2>2 DEF TypeOK
  <2>4. pc' \in [Requests -> Phases]
    BY DEF TypeOK, Phases
  <2> QED  BY <2>3, <2>4 DEF TypeOK
<1>2. LocksExclusive'
  BY <1>0 DEF TypeOK, LocksExclusive, StatFree, HoldsStat, AfterStat, AfterSrs
<1>3. StatPending' /\ XpPending'
  BY DEF TypeOK, StatPending, XpPending, AfterStat
<1>4. SlotPending'
  BY DEF TypeOK, SlotPending, AfterStat, AfterSrs
<1>5. AttemptsDone' /\ LedgerBalances'
  BY SameLedger DEF TypeOK, AttemptsDone, AttemptRow
<1> QED  BY <1>1, <1>2, <1>3, <1>4, <1>5

\* The same for the srs row.
LEMMA UpsertSrsInv ==
    ASSUME IInv, NEW r \in Requests, UpsertSrs(r)
    PROVE  IInv'
<1> USE DEF IInv, UpsertSrs, Advance, tables, pending
<1>0. req[r] \in AttemptRow
  BY DEF TypeOK
<1>1. TypeOK'
  <2>1. srs[req[r].user][req[r].question] \in SrsRow
    BY <1>0 DEF TypeOK, AttemptRow
  <2>2. Review(srs[req[r].user][req[r].question], req[r].correct, txDay[r]) \in SrsRow
    BY <1>0, <2>1, ReviewType DEF TypeOK, AttemptRow
  <2>3. pSrs' \in [Requests -> SrsRow]
    BY <2>2 DEF TypeOK
  <2>4. pc' \in [Requests -> Phases]
    BY DEF TypeOK, Phases
  <2> QED  BY <2>3, <2>4 DEF TypeOK
<1>2. LocksExclusive'
  BY <1>0 DEF TypeOK, LocksExclusive, SrsFree, HoldsSrs, AfterStat, AfterSrs
<1>3. StatPending' /\ XpPending'
  BY DEF TypeOK, StatPending, XpPending, AfterStat
<1>4. SlotPending'
  BY DEF TypeOK, SlotPending, AfterStat, AfterSrs
<1>5. AttemptsDone' /\ LedgerBalances'
  BY SameLedger DEF TypeOK, AttemptsDone, AttemptRow
<1> QED  BY <1>1, <1>2, <1>3, <1>4, <1>5

\* The slot chosen is open and asks for the answered question.
LEMMA CompleteTaskInv ==
    ASSUME IInv, NEW r \in Requests, CompleteTask(r)
    PROVE  IInv'
<1> USE DEF IInv, CompleteTask, Advance, tables, pending
<1> DEFINE open == OpenSlots(daily[req[r].user][txDay[r]], req[r].question)
<1>0. req[r] \in AttemptRow
  BY DEF TypeOK
<1>1. \/ UNCHANGED pSlot
      \/ \E s \in open : pSlot' = [pSlot EXCEPT ![r] = s]
  OBVIOUS
<1>2. open \subseteq Slots
  BY DEF OpenSlots
<1>3. TypeOK'
  BY <1>1, <1>2 DEF TypeOK, Phases
<1>4. LocksExclusive'
  BY DEF TypeOK, LocksExclusive, AfterStat, AfterSrs
<1>5. StatPending' /\ XpPending'
  BY DEF TypeOK, StatPending, XpPending, AfterStat
<1>6. SlotPending'
  <2>1. daily[req[r].user][txDay[r]] \in [Slots -> TaskRow \union {NULL}]
    BY <1>0 DEF TypeOK, AttemptRow
  <2>2. \A s \in open :
           LET task == daily[req[r].user][txDay[r]][s]
           IN  task \in TaskRow /\ task.question = req[r].question
                                /\ task.attempt = NULL
    BY <2>1 DEF OpenSlots
  <2> HIDE DEF open
  <2> QED  BY <1>1, <1>2, <2>2 DEF TypeOK, SlotPending, AfterStat, AfterSrs
<1>7. AttemptsDone' /\ LedgerBalances'
  BY SameLedger DEF TypeOK, AttemptsDone, AttemptRow
<1> QED  BY <1>3, <1>4, <1>5, <1>6, <1>7

\* The streak of the snapshot is a streak.
LEMMA SnapProgressInv ==
    ASSUME IInv, NEW r \in Requests, SnapProgress(r)
    PROVE  IInv'
<1> USE DEF IInv, SnapProgress, Advance, tables, pending
<1>1. TypeOK'
  <2> DEFINE days == CompletedDays(OwnView(r))
  <2>1. days \in SUBSET Days /\ txDay[r] \in Days
    BY DEF TypeOK, CompletedDays
  <2>2. StreakDays(days, txDay[r]) \in Nat /\ LastStudiedOn(days) \in Days \union {NoDay}
    BY <2>1, StreakType
  <2> HIDE DEF days
  <2>3. pProg' = [pProg EXCEPT ![r] = [xp     |-> 0,
                                       streak |-> StreakDays(days, txDay[r]),
                                       last   |-> LastStudiedOn(days)]]
    BY DEF days
  <2>4. pProg' \in [Requests -> ProgressRow]
    BY <2>2, <2>3 DEF TypeOK, ProgressRow
  <2>5. pc' \in [Requests -> Phases]
    BY DEF TypeOK, Phases
  <2> QED  BY <2>4, <2>5 DEF TypeOK
<1>2. LocksExclusive'
  BY DEF TypeOK, LocksExclusive, AfterStat, AfterSrs
<1>3. StatPending' /\ XpPending'
  BY DEF TypeOK, StatPending, XpPending, AfterStat
<1>4. SlotPending'
  BY DEF TypeOK, SlotPending, AfterStat, AfterSrs
<1>5. AttemptsDone' /\ LedgerBalances'
  BY SameLedger DEF TypeOK, AttemptsDone, AttemptRow
<1> QED  BY <1>1, <1>2, <1>3, <1>4, <1>5

\* Having waited for the progress row, xp counts on from the committed xp.
LEMMA UpdateProgressInv ==
    ASSUME IInv, NEW r \in Requests, UpdateProgress(r)
    PROVE  IInv'
<1> USE DEF IInv, UpdateProgress, Advance, tables, pending
<1>0. req[r] \in AttemptRow
  BY DEF TypeOK
<1>1. TypeOK'
  <2>1. progress[req[r].user].xp + Gain(req[r]) \in Nat
    BY <1>0 DEF TypeOK, AttemptRow, ProgressRow, Gain, XpPerCorrect
  <2>2. pProg' \in [Requests -> ProgressRow]
    BY <2>1 DEF TypeOK, ProgressRow
  <2>3. pc' \in [Requests -> Phases]
    BY DEF TypeOK, Phases
  <2> QED  BY <2>2, <2>3 DEF TypeOK
<1>2. LocksExclusive'
  BY <1>0 DEF TypeOK, LocksExclusive, ProgressFree, HoldsProgress, AfterStat, AfterSrs
<1>3. StatPending' /\ XpPending'
  BY DEF TypeOK, StatPending, XpPending, AfterStat, ProgressRow
<1>4. SlotPending'
  BY DEF TypeOK, SlotPending, AfterStat, AfterSrs
<1>5. AttemptsDone' /\ LedgerBalances'
  BY SameLedger DEF TypeOK, AttemptsDone, AttemptRow
<1> QED  BY <1>1, <1>2, <1>3, <1>4, <1>5

\* Ending a transaction, either way, forgets its pending rows and its locks.
LEMMA FinishType ==
    ASSUME TypeOK, NEW r \in Requests, Finish(r)
    PROVE  /\ today' \in Days /\ language' \in [Questions -> Languages]
           /\ txDay' \in [Requests -> Days]
           /\ pStat' \in [Requests -> StatRow]
           /\ pSrs' \in [Requests -> SrsRow]
           /\ pSlot' \in [Requests -> Slots \union {NoSlot}]
           /\ pProg' \in [Requests -> ProgressRow]
<1>1. 1 \in Days /\ NoStat \in StatRow /\ NoSrs \in SrsRow /\ NoProgress \in ProgressRow
  BY TablesAssumption, SrsAssumption
     DEF Days, NoStat, StatRow, NoSrs, SrsRow, NoProgress, ProgressRow
<1> QED  BY <1>1 DEF TypeOK, Finish

\* A rolled-back transaction leaves the tables as they were.
LEMMA RollbackInv ==
    ASSUME IInv, NEW r \in Requests, Rollback(r),
           pc[r] \in {"graded", "inserted"} \union AfterStat
    PROVE  IInv'
<1> USE DEF IInv, Rollback, tables
<1>1. TypeOK'
  BY FinishType DEF TypeOK, Phases
<1>2. LocksExclusive'
  BY DEF TypeOK, LocksExclusive, AfterStat, AfterSrs
<1>3. StatPending' /\ XpPending'
  BY DEF TypeOK, StatPending, XpPending, AfterStat, Finish
<1>4. SlotPending'
  BY DEF TypeOK, SlotPending, AfterStat, AfterSrs, Finish
<1>5. AttemptsDone'
  BY DEF TypeOK, AttemptsDone, AttemptRow, AfterStat
<1>6. LedgerBalances'
  BY SameLedger
<1> QED  BY <1>1, <1>2, <1>3, <1>4, <1>5, <1>6

\* Committing one answer adds exactly it to each set the counters count.
LEMMA OneMoreAnswer ==
    ASSUME NEW T, NEW S \in SUBSET T, IsFiniteSet(T), NEW a, a \notin T
    PROVE  /\ Cardinality(S) \in Nat
           /\ Cardinality(S \union {a}) = Cardinality(S) + 1
<1>1. IsFiniteSet(S)
  BY FS_Subset
<1> QED  BY <1>1, FS_AddElement, FS_CardinalityType

\* A commit writes rows that count on from the committed ones, together with the
\* attempt they count.
LEMMA CommitInv ==
    ASSUME IInv, NEW r \in Requests, Commit(r)
    PROVE  IInv'
<1> USE DEF IInv
<1> DEFINE a == req[r]
           u == req[r].user
           c == req[r].category
           q == req[r].question
<1>0. /\ a \in AttemptRow /\ a.id = r /\ pc[r] = "updated" /\ req' = req
      /\ u \in Users /\ c \in Categories /\ q \in Questions /\ a.correct \in BOOLEAN
  BY DEF TypeOK, Commit, Advance, AttemptRow
<1>1. /\ pc' = [pc EXCEPT ![r] = "done"]
      /\ attempt' = attempt \union {a}
      /\ stat' = [stat EXCEPT ![u][c] = pStat[r]]
      /\ srs' = [srs EXCEPT ![u][q] = pSrs[r]]
      /\ daily' = [daily EXCEPT ![u] = OwnView(r)]
      /\ progress' = [progress EXCEPT ![u] = pProg[r]]
      /\ Finish(r)
  BY DEF Commit, Advance
<1>2. a \notin attempt
  BY <1>0 DEF AttemptsDone
<1> HIDE DEF a, u, c, q
<1>3. TypeOK'
  <2>1. pc' \in [Requests -> Phases] /\ attempt' \in SUBSET AttemptRow
    BY <1>0, <1>1 DEF TypeOK, Phases
  <2>2. stat' \in [Users -> [Categories -> StatRow]]
    BY <1>0, <1>1 DEF TypeOK
  <2>3. srs' \in [Users -> [Questions -> SrsRow]]
    BY <1>0, <1>1 DEF TypeOK
  <2>4. OwnView(r) \in UserTasks
    <3>1. daily[u] \in UserTasks
      BY <1>0 DEF TypeOK, UserTasks
    <3>2. pSlot[r] # NoSlot => daily[u][txDay[r]][pSlot[r]] \in TaskRow
      BY DEF SlotPending, u
    <3>3. txDay[r] \in Days /\ pSlot[r] \in Slots \union {NoSlot}
      BY DEF TypeOK
    <3>4. Completing(daily[u], txDay[r], pSlot[r], a) \in UserTasks
      BY <1>0, <3>1, <3>2, <3>3, CompletingType
    <3> QED  BY <3>4 DEF OwnView, u, a
  <2>5. daily' \in [Users -> UserTasks]
    BY <1>0, <1>1, <2>4 DEF TypeOK, UserTasks
  <2>6. progress' \in [Users -> ProgressRow]
    BY <1>0, <1>1 DEF TypeOK
  <2>7. \A t \in Requests :
           pc'[t] \notin {"idle", "failed"} => req'[t] \in AttemptRow /\ req'[t].id = t
    BY <1>0, <1>1 DEF TypeOK, a
  <2> QED  BY <1>0, <1>1, <2>1, <2>2, <2>3, <2>5, <2>6, <2>7, FinishType
           DEF TypeOK, UserTasks
<1>4. LocksExclusive'
  BY <1>0, <1>1 DEF TypeOK, LocksExclusive, AfterStat, AfterSrs
<1>5. StatPending'
  <2> SUFFICES ASSUME NEW t \in Requests, pc'[t] \in AfterStat
               PROVE  /\ pStat'[t].attempts
                            = stat'[req[t].user][req[t].category].attempts + 1
                      /\ pStat'[t].corrects
                            = stat'[req[t].user][req[t].category].corrects + Delta(req[t])
    BY <1>0 DEF StatPending
  <2>1. t # r /\ pc[t] \in AfterStat
    BY <1>1 DEF TypeOK, AfterStat
  <2>2. ~(req[t].user = u /\ req[t].category = c)
    BY <1>0, <2>1 DEF LocksExclusive, AfterStat, u, c
  <2>3. req[t].user \in Users /\ req[t].category \in Categories
    BY <2>1 DEF TypeOK, AttemptRow, AfterStat
  <2>4. stat'[req[t].user][req[t].category] = stat[req[t].user][req[t].category]
    BY <1>0, <1>1, <2>2, <2>3 DEF TypeOK
  <2>5. pStat'[t] = pStat[t]
    BY <1>1, <2>1 DEF TypeOK, Finish
  <2> QED  BY <2>1, <2>4, <2>5 DEF StatPending
<1>6. XpPending'
  <2> SUFFICES ASSUME NEW t \in Requests, pc'[t] = "updated"
               PROVE  /\ req[t].user \in WithProgress
                      /\ pProg'[t].xp = progress'[req[t].user].xp + Gain(req[t])
    BY <1>0 DEF XpPending
  <2>1. t # r /\ pc[t] = "updated"
    BY <1>1 DEF TypeOK
  <2>2. req[t].user # u /\ req[t].user \in Users
    BY <1>0, <2>1 DEF LocksExclusive, TypeOK, AttemptRow, u
  <2>3. progress'[req[t].user] = progress[req[t].user] /\ pProg'[t] = pProg[t]
    BY <1>1, <2>1, <2>2 DEF TypeOK, Finish
  <2> QED  BY <2>1, <2>3 DEF XpPending
<1>7. SlotPending'
  <2> SUFFICES ASSUME NEW t \in Requests, pSlot'[t] # NoSlot
               PROVE  /\ pc'[t] \in AfterSrs
                      /\ LET task == daily'[req[t].user][txDay'[t]][pSlot'[t]]
                         IN  task \in TaskRow /\ task.question = req[t].question
                                              /\ task.attempt = NULL
    BY <1>0 DEF SlotPending
  <2>1. t # r /\ pSlot'[t] = pSlot[t] /\ txDay'[t] = txDay[t]
    BY <1>1 DEF TypeOK, Finish
  <2>2. /\ pc[t] \in AfterSrs /\ pc'[t] \in AfterSrs
    BY <1>1, <2>1 DEF TypeOK, SlotPending
  <2> DEFINE old == daily[req[t].user][txDay[t]][pSlot[t]]
             new == daily'[req[t].user][txDay[t]][pSlot[t]]
  <2>3. old \in TaskRow /\ old.question = req[t].question /\ old.attempt = NULL
    BY <2>1 DEF SlotPending
  <2>4. req[t].user \in Users /\ txDay[t] \in Days /\ pSlot[t] \in Slots
    BY <2>1, <2>2 DEF TypeOK, AttemptRow, AfterSrs, AfterStat
  <2>5. CASE req[t].user # u
    BY <1>0, <1>1, <2>1, <2>2, <2>3, <2>4, <2>5 DEF TypeOK
  <2>6. CASE req[t].user = u /\ pSlot[r] = NoSlot
    <3>1. OwnView(r) = daily[u]
      BY <2>6 DEF OwnView, Completing, u
    <3> QED  BY <1>0, <1>1, <2>1, <2>2, <2>3, <3>1 DEF TypeOK
  <2>7. CASE req[t].user = u /\ pSlot[r] # NoSlot
    <3>1. req[t].question # q
      BY <1>0, <2>1, <2>2, <2>7 DEF LocksExclusive, AfterSrs, AfterStat, u, q
    <3>2. daily[u][txDay[r]][pSlot[r]].question = q
      BY <2>7 DEF SlotPending, u, q
    <3>3. ~(txDay[r] = txDay[t] /\ pSlot[r] = pSlot[t])
      BY <2>3, <2>7, <3>1, <3>2
    <3>4. new = OwnView(r)[txDay[t]][pSlot[t]]
      BY <1>0, <1>1, <2>7 DEF TypeOK
    <3>5. OwnView(r) = [daily[u] EXCEPT ![txDay[r]][pSlot[r]].attempt = r]
      BY <1>0, <2>7 DEF OwnView, Completing, u, a
    <3>6. daily[u] \in [Days -> [Slots -> TaskRow \union {NULL}]] /\ txDay[r] \in Days
      BY <1>0 DEF TypeOK
    <3>7. new = old
      BY <2>4, <2>7, <3>3, <3>4, <3>5, <3>6
    <3> QED  BY <2>1, <2>2, <2>3, <3>7
  <2> QED  BY <2>5, <2>6, <2>7
<1>8. AttemptsDone'
  BY <1>0, <1>1, FS_AddElement DEF TypeOK, AttemptsDone, AttemptRow
<1>9. LedgerBalances'
  <2>3. \A b \in attempt' : b.user \in WithProgress
    BY <1>0, <1>1 DEF LedgerBalances, XpPending, a
  <2> SUFFICES ASSUME NEW v \in Users
               PROVE  /\ progress'[v].xp = XpPerCorrect * Cardinality(CorrectOf(v)')
                      /\ \A k \in Categories :
                           /\ stat'[v][k].attempts = Cardinality(CountedIn(v, k)')
                           /\ stat'[v][k].corrects = Cardinality(CorrectIn(v, k)')
    BY <2>3 DEF LedgerBalances
  <2>0. IsFiniteSet(attempt)
    BY TablesAssumption DEF AttemptsDone
  <2>1. CASE v # u
    <3>1. CorrectOf(v)' = CorrectOf(v)
      BY <1>1, <2>1 DEF CorrectOf, AnswersOf, u, a
    <3>2. \A k \in Categories : /\ CountedIn(v, k)' = CountedIn(v, k)
                                /\ CorrectIn(v, k)' = CorrectIn(v, k)
      BY <1>1, <2>1 DEF CountedIn, CorrectIn, AnswersOf, u, a
    <3>3. progress'[v] = progress[v] /\ stat'[v] = stat[v]
      BY <1>0, <1>1, <2>0, <2>1 DEF TypeOK
    <3> QED  BY <3>1, <3>2, <3>3 DEF LedgerBalances
  <2>2. CASE v = u
    <3>1. progress'[v].xp = XpPerCorrect * Cardinality(CorrectOf(v)')
      <4>1. progress'[v].xp = progress[v].xp + Gain(a)
        BY <1>0, <1>1, <2>0, <2>2 DEF TypeOK, XpPending, a, u
      <4>2. progress[v].xp = XpPerCorrect * Cardinality(CorrectOf(v))
        BY DEF LedgerBalances
      <4>3. CorrectOf(v) \in SUBSET attempt
        BY DEF CorrectOf, AnswersOf
      <4>4. CASE a.correct
        <5>1. CorrectOf(v)' = CorrectOf(v) \union {a}
          BY <1>1, <2>2, <4>4 DEF CorrectOf, AnswersOf, u, a
        <5>2. /\ Cardinality(CorrectOf(v)) \in Nat
              /\ Cardinality(CorrectOf(v)') = Cardinality(CorrectOf(v)) + 1
          BY <1>2, <2>0, <4>3, <5>1, OneMoreAnswer
        <5> QED  BY <4>1, <4>2, <4>4, <5>2 DEF Gain, XpPerCorrect
      <4>5. CASE ~a.correct
        <5>1. CorrectOf(v)' = CorrectOf(v)
          BY <1>1, <4>5 DEF CorrectOf, AnswersOf
        <5>2. Cardinality(CorrectOf(v)) \in Nat
          BY <1>2, <2>0, <4>3, OneMoreAnswer
        <5> QED  BY <4>1, <4>2, <4>5, <5>1, <5>2 DEF Gain, XpPerCorrect
      <4> QED  BY <4>4, <4>5
    <3>2. ASSUME NEW k \in Categories, k # c
          PROVE  /\ stat'[v][k].attempts = Cardinality(CountedIn(v, k)')
                 /\ stat'[v][k].corrects = Cardinality(CorrectIn(v, k)')
      <4>1. CountedIn(v, k)' = CountedIn(v, k) /\ CorrectIn(v, k)' = CorrectIn(v, k)
        BY <1>1, <3>2 DEF CountedIn, CorrectIn, AnswersOf, c, a
      <4>2. stat'[v][k] = stat[v][k]
        BY <1>0, <1>1, <2>0, <3>2 DEF TypeOK
      <4> QED  BY <4>1, <4>2 DEF LedgerBalances
    <3>3. ASSUME NEW k \in Categories, k = c
          PROVE  /\ stat'[v][k].attempts = Cardinality(CountedIn(v, k)')
                 /\ stat'[v][k].corrects = Cardinality(CorrectIn(v, k)')
      <4>1. stat'[v][k] = pStat[r]
        BY <1>0, <1>1, <2>0, <2>2, <3>3 DEF TypeOK
      <4>2. /\ pStat[r].attempts = Cardinality(CountedIn(v, k)) + 1
            /\ pStat[r].corrects = Cardinality(CorrectIn(v, k)) + Delta(a)
        BY <1>0, <2>2, <3>3 DEF StatPending, LedgerBalances, AfterStat, a, u, c
      <4>3. CountedIn(v, k) \in SUBSET attempt /\ CorrectIn(v, k) \in SUBSET attempt
        BY DEF CountedIn, CorrectIn, AnswersOf
      <4>4. CountedIn(v, k)' = CountedIn(v, k) \union {a}
        BY <1>1, <2>2, <3>3 DEF CountedIn, AnswersOf, u, c, a
      <4>5. Cardinality(CountedIn(v, k)') = Cardinality(CountedIn(v, k)) + 1
        BY <1>2, <2>0, <4>3, <4>4, OneMoreAnswer
      <4>6. CASE a.correct
        <5>1. CorrectIn(v, k)' = CorrectIn(v, k) \union {a}
          BY <1>1, <2>2, <3>3, <4>6 DEF CorrectIn, CountedIn, AnswersOf, u, c, a
        <5>2. Cardinality(CorrectIn(v, k)') = Cardinality(CorrectIn(v, k)) + 1
          BY <1>2, <2>0, <4>3, <5>1, OneMoreAnswer
        <5> QED  BY <4>1, <4>2, <4>5, <4>6, <5>2 DEF Delta
      <4>7. CASE ~a.correct
        <5>1. CorrectIn(v, k)' = CorrectIn(v, k)
          BY <1>1, <4>7 DEF CorrectIn, CountedIn, AnswersOf
        <5>2. Cardinality(CorrectIn(v, k)) \in Nat
          BY <1>2, <2>0, <4>3, OneMoreAnswer
        <5> QED  BY <4>1, <4>2, <4>5, <4>7, <5>1, <5>2 DEF Delta
      <4> QED  BY <4>6, <4>7
    <3> QED  BY <3>1, <3>2, <3>3
  <2> QED  BY <2>1, <2>2
<1> QED  BY <1>3, <1>4, <1>5, <1>6, <1>7, <1>8, <1>9

-----------------------------------------------------------------------------
\* The statements of other handlers.

\* Adding a task to an empty slot disturbs no transaction.
LEMMA AssignTaskInv ==
    ASSUME IInv, NEW u \in Users, NEW s \in Slots, NEW q \in Questions,
           AssignTask(u, s, q)
    PROVE  IInv'
<1> USE DEF IInv, AssignTask, pending
<1>0. [question |-> q, attempt |-> NULL] \in TaskRow
  BY DEF TaskRow
<1>1. TypeOK'
  BY <1>0 DEF TypeOK
<1>2. LocksExclusive'
  BY DEF LocksExclusive
<1>3. StatPending' /\ XpPending'
  BY DEF StatPending, XpPending
<1>4. SlotPending'
  <2> SUFFICES ASSUME NEW r \in Requests, pSlot[r] # NoSlot
               PROVE  /\ pc[r] \in AfterSrs
                      /\ daily'[req[r].user][txDay[r]][pSlot[r]]
                            = daily[req[r].user][txDay[r]][pSlot[r]]
    BY DEF SlotPending
  <2>1. pc[r] \in AfterSrs /\ daily[req[r].user][txDay[r]][pSlot[r]] \in TaskRow
    BY DEF SlotPending
  <2>2. ~(req[r].user = u /\ txDay[r] = today /\ pSlot[r] = s)
    BY <2>1, TablesAssumption
  <2>3. req[r].user \in Users /\ txDay[r] \in Days /\ pSlot[r] \in Slots
    BY <2>1 DEF TypeOK, AttemptRow, AfterSrs, AfterStat
  <2> QED  BY <2>1, <2>2, <2>3 DEF TypeOK
<1>5. AttemptsDone' /\ LedgerBalances'
  BY SameLedger DEF AttemptsDone
<1> QED  BY <1>1, <1>2, <1>3, <1>4, <1>5

\* Neither does a change of a question's language, or midnight.
LEMMA PatchLanguageInv ==
    ASSUME IInv, NEW q \in Questions, NEW l \in Languages, PatchLanguage(q, l)
    PROVE  IInv'
<1> USE DEF IInv, PatchLanguage, tables, pending
<1>1. TypeOK'
  BY DEF TypeOK
<1>2. LocksExclusive' /\ StatPending' /\ XpPending' /\ SlotPending'
  BY DEF LocksExclusive, StatPending, XpPending, SlotPending
<1>3. AttemptsDone' /\ LedgerBalances'
  BY SameLedger DEF AttemptsDone
<1> QED  BY <1>1, <1>2, <1>3

LEMMA NextDayInv ==
    ASSUME IInv, NextDay
    PROVE  IInv'
<1> USE DEF IInv, NextDay, tables, pending
<1>1. TypeOK'
  BY TablesAssumption DEF TypeOK, Days
<1>2. LocksExclusive' /\ StatPending' /\ XpPending' /\ SlotPending'
  BY DEF LocksExclusive, StatPending, XpPending, SlotPending
<1>3. AttemptsDone' /\ LedgerBalances'
  BY SameLedger DEF AttemptsDone
<1> QED  BY <1>1, <1>2, <1>3

LEMMA StutterInv ==
    ASSUME IInv, UNCHANGED vars
    PROVE  IInv'
<1> USE DEF IInv, vars, tables, pending
<1>1. TypeOK'
  BY DEF TypeOK
<1>2. LocksExclusive' /\ StatPending' /\ XpPending' /\ SlotPending'
  BY DEF LocksExclusive, StatPending, XpPending, SlotPending
<1>3. AttemptsDone' /\ LedgerBalances'
  BY SameLedger DEF AttemptsDone
<1> QED  BY <1>1, <1>2, <1>3

-----------------------------------------------------------------------------
\* The empty database satisfies the invariant.
LEMMA InitInv == Init => IInv
<1> SUFFICES ASSUME Init PROVE IInv
  OBVIOUS
<1> USE DEF Init
<1>1. TypeOK
  <2>1. 1 \in Days /\ NoStat \in StatRow /\ NoSrs \in SrsRow /\ NoProgress \in ProgressRow
    BY TablesAssumption, SrsAssumption
       DEF Days, NoStat, StatRow, NoSrs, SrsRow, NoProgress, ProgressRow
  <2> QED  BY <2>1 DEF TypeOK, Phases
<1>2. LocksExclusive /\ StatPending /\ XpPending /\ SlotPending
  BY DEF LocksExclusive, StatPending, XpPending, SlotPending, AfterStat, AfterSrs
<1>3. AttemptsDone
  BY FS_EmptySet DEF AttemptsDone
<1>4. LedgerBalances
  <2>1. \A u \in Users, c \in Categories :
           CorrectOf(u) = {} /\ CountedIn(u, c) = {} /\ CorrectIn(u, c) = {}
    BY DEF CorrectOf, CountedIn, CorrectIn, AnswersOf
  <2>2. \A u \in Users : CorrectOf(u) = {}
    BY DEF CorrectOf, AnswersOf
  <2>3. \A u \in Users : progress[u].xp = 0
    BY DEF NoProgress
  <2>4. \A u \in Users, c \in Categories :
           stat[u][c].attempts = 0 /\ stat[u][c].corrects = 0
    BY DEF NoStat
  <2>5. Cardinality({}) = 0
    BY FS_EmptySet
  <2> HIDE DEF Init
  <2>6. ASSUME NEW u \in Users
        PROVE  progress[u].xp = XpPerCorrect * Cardinality(CorrectOf(u))
    <3>1. Cardinality(CorrectOf(u)) = 0
      BY <2>2, <2>5
    <3> QED  BY <2>3, <3>1 DEF XpPerCorrect
  <2>7. ASSUME NEW u \in Users, NEW c \in Categories
        PROVE  /\ stat[u][c].attempts = Cardinality(CountedIn(u, c))
               /\ stat[u][c].corrects = Cardinality(CorrectIn(u, c))
    <3>1. Cardinality(CountedIn(u, c)) = 0 /\ Cardinality(CorrectIn(u, c)) = 0
      BY <2>1, <2>5
    <3> QED  BY <2>4, <3>1
  <2>8. \A a \in attempt : a.user \in WithProgress
    BY DEF Init
  <2> QED  BY <2>6, <2>7, <2>8 DEF LedgerBalances
<1> QED  BY <1>1, <1>2, <1>3, <1>4 DEF IInv

LEMMA NextInv == IInv /\ [Next]_vars => IInv'
<1> SUFFICES ASSUME IInv, [Next]_vars PROVE IInv'
  OBVIOUS
<1>1. ASSUME NEW r \in Requests, NEW u \in Users, NEW q \in Questions,
             NEW correct \in BOOLEAN, Submit(r, u, q, correct)
      PROVE  IInv'
  BY <1>1, SubmitInv
<1>2. ASSUME NEW r \in Requests, Step(r)
      PROVE  IInv'
  <2>1. CASE Begin(r)          BY <2>1, BeginInv
  <2>2. CASE UpsertStat(r)     BY <2>2, UpsertStatInv
  <2>3. CASE UpsertSrs(r)      BY <2>3, UpsertSrsInv
  <2>4. CASE SrsOverflow(r)    BY <2>4, RollbackInv DEF SrsOverflow, AfterStat
  <2>5. CASE CompleteTask(r)   BY <2>5, CompleteTaskInv
  <2>6. CASE SnapProgress(r)   BY <2>6, SnapProgressInv
  <2>7. CASE UpdateProgress(r) BY <2>7, UpdateProgressInv
  <2>8. CASE ProgressMissing(r) BY <2>8, RollbackInv DEF ProgressMissing, AfterStat
  <2>9. CASE Commit(r)         BY <2>9, CommitInv
  <2> QED  BY <1>2, <2>1, <2>2, <2>3, <2>4, <2>5, <2>6, <2>7, <2>8, <2>9 DEF Step
<1>3. ASSUME NEW r \in Requests, Fail(r)
      PROVE  IInv'
  BY <1>3, RollbackInv DEF Fail
<1>4. CASE Environment
  <2>1. ASSUME NEW u \in Users, NEW s \in Slots, NEW q \in Questions,
               AssignTask(u, s, q)
        PROVE  IInv'
    BY <2>1, AssignTaskInv
  <2>2. ASSUME NEW q \in Questions, NEW l \in Languages, PatchLanguage(q, l)
        PROVE  IInv'
    BY <2>2, PatchLanguageInv
  <2>3. CASE NextDay  BY <2>3, NextDayInv
  <2> QED  BY <1>4, <2>1, <2>2, <2>3 DEF Environment
<1>5. CASE UNCHANGED vars
  BY <1>5, StutterInv
<1> QED  BY <1>1, <1>2, <1>3, <1>4, <1>5 DEF Next

\* The strengthened invariant holds in every reachable state.
LEMMA Inductive == Spec => []IInv
BY InitInv, NextInv, PTL DEF Spec

\* Every column and every pending row keeps its type in every behaviour: no
\* interval beyond int4 is ever stored, whatever the answers.
THEOREM TypeCorrect == Spec => []TypeOK
<1>1. IInv => TypeOK
  BY DEF IInv
<1> QED  BY <1>1, Inductive, PTL

\* No interleaving and no rollback loses or invents an increment: xp and the
\* per-category counters are exactly what the committed attempts add up to.
THEOREM Balanced == Spec => []LedgerBalances
<1>1. IInv => LedgerBalances
  BY DEF IInv
<1> QED  BY <1>1, Inductive, PTL

-----------------------------------------------------------------------------
\* An answer is counted under its question's type.
CategoryFits ==
    \A r \in Requests : pc[r] \notin {"idle", "failed"} =>
        req[r].category[1] = QType[req[r].question]

\* A pending schedule is the committed one, reviewed once.
SrsPending ==
    \A r \in Requests : pc[r] \in AfterSrs =>
        LET row == srs[req[r].user][req[r].question]
        IN  /\ ~Overflows(row, req[r].correct)
            /\ pSrs[r] = Review(row, req[r].correct, txDay[r])

\* No transaction and no task is of a day still to come.
DaysCome ==
    /\ \A r \in Requests : txDay[r] <= today
    /\ \A u \in Users, d \in Days, s \in Slots : daily[u][d][s] # NULL => d <= today

\* The streak of a progress row is that of these days.
StreakOf(row, days, day) ==
    row.streak = StreakDays(days, day) /\ row.last = LastStudiedOn(days)

\* The streak in hand is that of some of the days the transaction sees worked on: its
\* snapshot may be older than tasks completed by others meanwhile.
StreakPending ==
    \A r \in Requests : pc[r] \in {"snapped", "updated"} =>
        \E days \in SUBSET StartedDays(OwnView(r)) : StreakOf(pProg[r], days, txDay[r])

\* Where the rows come from: what the refinement and the invariants about tasks and
\* streaks rest on, next to IInv.
Provenance == /\ CategoryFits /\ SrsPending
              /\ DaysCome /\ StreakPending /\ TasksBacked /\ StreakBacked

\* No answer has taken its snapshot of daily_task and waits for the user_progress row of
\* its learner while another one, about to complete a task of theirs, holds that row.
SnapshotsFresh ==
    \A r, t \in Requests :
        pc[r] = "snapped" /\ pc[t] = "updated" => req[r].user # req[t].user

\* With one connection there is one transaction at a time.
OneAtATime == \A r, t \in InTx : r = t

\* The last_studied_on in hand has reached every day its transaction sees completed.
CreditPending ==
    \A r \in Requests : pc[r] \in {"snapped", "updated"} =>
        \A d \in CompletedDays(OwnView(r)) : d <= pProg[r].last

\* The stored one has, whoever is in a transaction.
Credited ==
    \A u \in WithProgress : \A d \in CompletedDays(daily[u]) : d <= progress[u].last

\* DayCredited follows from Credited; the two are inductive under SnapshotsFresh.
CreditInv == CreditPending /\ Credited

-----------------------------------------------------------------------------
\* Completing a task adds its day to those worked on, and none else.
LEMMA WorkedDays ==
    ASSUME NEW tasks \in UserTasks, NEW day \in Days,
           NEW s \in Slots \union {NoSlot}, NEW a \in AttemptRow,
           s # NoSlot => tasks[day][s] \in TaskRow
    PROVE  StartedDays(Completing(tasks, day, s, a)) =
               StartedDays(tasks) \union (IF s = NoSlot THEN {} ELSE {day})
<1>1. CASE s = NoSlot
  BY <1>1 DEF Completing
<1>2. CASE s # NoSlot
  <2> DEFINE after == Completing(tasks, day, s, a)
             row == [tasks[day][s] EXCEPT !.attempt = a.id]
  <2>1. row \in TaskRow /\ row.attempt = a.id /\ a.id # NULL /\ row # NULL
    BY <1>2, TablesAssumption DEF TaskRow, AttemptRow
  <2>2. after = [tasks EXCEPT ![day] = [tasks[day] EXCEPT ![s] = row]]
    BY <1>2 DEF Completing
  <2>3. after[day][s] = row
    BY <1>2, <2>2 DEF UserTasks
  <2>4. \A d \in Days, t \in Slots : ~(d = day /\ t = s) => after[d][t] = tasks[d][t]
    BY <1>2, <2>2 DEF UserTasks
  <2> HIDE DEF after, row
  <2>5. day \in StartedDays(after)
    BY <1>2, <2>1, <2>3 DEF StartedDays
  <2>6. \A d \in Days : d # day => (d \in StartedDays(after) <=> d \in StartedDays(tasks))
    BY <1>2, <2>4 DEF StartedDays
  <2>7. StartedDays(after) \subseteq Days /\ StartedDays(tasks) \subseteq Days
    BY DEF StartedDays
  <2> QED  BY <1>2, <2>5, <2>6, <2>7 DEF after
<1> QED  BY <1>1, <1>2

\* A completed day has a completed task.
LEMMA CompletedAreStarted ==
    ASSUME NEW tasks
    PROVE  CompletedDays(tasks) \subseteq StartedDays(tasks)
BY DEF CompletedDays, StartedDays

\* The streak of a set of days is a run of that set.
LEMMA StreakRunIn ==
    ASSUME NEW days \in SUBSET Days, NEW day \in Days
    PROVE  LET n == StreakDays(days, day)
               l == LastStudiedOn(days)
           IN  /\ (l - n + 1) .. l \subseteq days
               /\ l \in days \union {NoDay}
<1> DEFINE n == StreakDays(days, day)
           l == LastStudiedOn(days)
<1>1. days \in SUBSET Int /\ IsFiniteSet(days) /\ day \in Int
  <2>1. IsFiniteSet(Days) /\ Days \subseteq Int
    BY TablesAssumption, FS_Interval DEF Days
  <2> QED  BY <2>1, FS_Subset
<1>2. days # {} => Max(days) \in days
  BY <1>1, MaxExists
<1>3. l \in days \union {NoDay}
  BY <1>2 DEF LastStudiedOn
<1>4. n \in Nat /\ (n > 0 => (l - n + 1) .. l \subseteq days)
  BY <1>1, StreakCountsRun
<1> HIDE DEF n, l
<1>5. l \in Int
  BY <1>1, <1>3 DEF NoDay
<1>6. n = 0 => (l - n + 1) .. l = {}
  BY <1>5
<1>7. (l - n + 1) .. l \subseteq days
  BY <1>4, <1>6
<1> QED  BY <1>3, <1>7 DEF n, l

-----------------------------------------------------------------------------
\* Which steps write daily_task and the other tables.
LEMMA TableSteps ==
    ASSUME [Next]_vars
    PROVE  \/ \E r \in Requests : Commit(r)
           \/ \E u \in Users, s \in Slots, q \in Questions : AssignTask(u, s, q)
           \/ UNCHANGED tables
BY DEF Next, Step, Environment, vars, Submit, Begin, UpsertStat, UpsertSrs, SrsOverflow,
       CompleteTask, SnapProgress, UpdateProgress, ProgressMissing, Fail, Rollback,
       PatchLanguage, NextDay

\* Time does not go back.
LEMMA TodayGrows ==
    ASSUME TypeOK, [Next]_vars
    PROVE  today' \in Days /\ today \in Days /\ today <= today'
<1>1. today \in Days /\ today \in Int
  BY TablesAssumption DEF TypeOK, Days
<1>2. today' = today \/ NextDay
  BY DEF Next, Step, Environment, vars, Submit, Begin, UpsertStat, UpsertSrs, SrsOverflow,
       CompleteTask, SnapProgress, UpdateProgress, ProgressMissing, Fail, Rollback, Finish,
       Commit, PatchLanguage, AssignTask
<1>3. NextDay => today' \in Days /\ today' = today + 1
  BY <1>1, TablesAssumption DEF NextDay, Days
<1> QED  BY <1>1, <1>2, <1>3

\* Its own step apart, nothing that a request has in hand changes.
Keeps(r) == /\ pc'[r] = pc[r] /\ req'[r] = req[r] /\ txDay'[r] = txDay[r]
            /\ pSrs'[r] = pSrs[r] /\ pSlot'[r] = pSlot[r] /\ pProg'[r] = pProg[r]

\* What a step does to a request: its own statement, its failure, or nothing.
LEMMA OwnStepOrNone ==
    ASSUME TypeOK, [Next]_vars, NEW r \in Requests
    PROVE  \/ \E u \in Users, q \in Questions, correct \in BOOLEAN :
                  Submit(r, u, q, correct)
           \/ Step(r)
           \/ Fail(r)
           \/ Keeps(r)
<1> USE DEF Keeps, TypeOK, Advance, pending
<1>1. ASSUME NEW t \in Requests \ {r}, NEW u \in Users, NEW q \in Questions,
             NEW correct \in BOOLEAN, Submit(t, u, q, correct)
      PROVE  Keeps(r)
  BY <1>1 DEF Submit
<1>2. ASSUME NEW t \in Requests \ {r}, Rollback(t)
      PROVE  Keeps(r)
  BY <1>2 DEF Rollback, Finish
<1>3. ASSUME NEW t \in Requests \ {r}, Step(t)
      PROVE  Keeps(r)
  <2>1. CASE Begin(t)  BY <2>1 DEF Begin
  <2>2. CASE UpsertStat(t)  BY <2>2 DEF UpsertStat
  <2>3. CASE UpsertSrs(t)  BY <2>3 DEF UpsertSrs
  <2>4. CASE CompleteTask(t)  BY <2>4 DEF CompleteTask
  <2>5. CASE SnapProgress(t)
    <3>1. \E row : pProg' = [pProg EXCEPT ![t] = row]
      BY <2>5 DEF SnapProgress
    <3> QED  BY <2>5, <3>1 DEF SnapProgress
  <2>6. CASE UpdateProgress(t)  BY <2>6 DEF UpdateProgress
  <2>7. CASE Commit(t)  BY <2>7 DEF Commit, Finish
  <2> QED  BY <1>2, <1>3, <2>1, <2>2, <2>3, <2>4, <2>5, <2>6, <2>7
           DEF Step, SrsOverflow, ProgressMissing
<1>4. Environment \/ UNCHANGED vars => Keeps(r)
  BY DEF Environment, AssignTask, PatchLanguage, NextDay, vars
<1> QED  BY <1>1, <1>2, <1>3, <1>4 DEF Next, Fail

-----------------------------------------------------------------------------
\* While it has the schedule of a question in hand, the committed one is as it was.
LEMMA SrsHeld ==
    ASSUME IInv, [Next]_vars, NEW r \in Requests, pc[r] \in AfterSrs, Keeps(r)
    PROVE  srs'[req[r].user][req[r].question] = srs[req[r].user][req[r].question]
<1> USE DEF IInv
<1>0. req[r] \in AttemptRow
  BY DEF TypeOK, AfterSrs, AfterStat
<1>1. ASSUME NEW t \in Requests, Commit(t)
      PROVE  srs'[req[r].user][req[r].question] = srs[req[r].user][req[r].question]
  <2>1. t # r /\ pc[t] \in AfterSrs /\ req[t] \in AttemptRow
    BY <1>1 DEF Commit, Advance, Keeps, TypeOK, AfterSrs, AfterStat
  <2>2. ~(req[r].user = req[t].user /\ req[r].question = req[t].question)
    BY <2>1 DEF LocksExclusive
  <2>3. srs' = [srs EXCEPT ![req[t].user][req[t].question] = pSrs[t]]
    BY <1>1 DEF Commit
  <2> QED  BY <1>0, <2>1, <2>2, <2>3 DEF TypeOK, AttemptRow
<1>2. ASSUME NEW u \in Users, NEW s \in Slots, NEW q \in Questions, AssignTask(u, s, q)
      PROVE  srs' = srs
  BY <1>2 DEF AssignTask
<1> QED  BY <1>1, <1>2, TableSteps DEF tables

\* The slot whose task r completes, if any.
Completes(r, d, s) == pSlot[r] # NoSlot /\ d = txDay[r] /\ s = pSlot[r]

\* What a transaction at its end has for its user's tasks: the slot it completes was
\* open, and asked for its question.
LEMMA CompletedSlot ==
    ASSUME IInv, NEW r \in Requests, Commit(r), NEW d \in Days, NEW s \in Slots,
           Completes(r, d, s)
    PROVE  /\ daily[req[r].user][d][s] \in TaskRow
           /\ daily[req[r].user][d][s].question = req[r].question
           /\ daily[req[r].user][d][s].attempt = NULL
           /\ OwnView(r)[d][s] = [question |-> req[r].question, attempt |-> r]
           /\ OwnView(r)[d][s] \in TaskRow
<1> USE DEF IInv, Completes
<1> DEFINE u == req[r].user
           tasks == daily[u]
           row == [tasks[d][s] EXCEPT !.attempt = r]
<1>1. req[r] \in AttemptRow /\ req[r].id = r
  BY DEF Commit, Advance, TypeOK
<1>2. u \in Users /\ tasks \in UserTasks
  BY <1>1 DEF TypeOK, AttemptRow, UserTasks
<1>3. /\ tasks[d][s] \in TaskRow
      /\ tasks[d][s].attempt = NULL
      /\ tasks[d][s].question = req[r].question
  BY DEF SlotPending
<1>4. OwnView(r) = [tasks EXCEPT ![d] = [tasks[d] EXCEPT ![s] = row]]
  BY <1>1 DEF OwnView, Completing
<1>5. row = [question |-> req[r].question, attempt |-> r] /\ row \in TaskRow
  BY <1>3 DEF TaskRow
<1> HIDE DEF row
<1>6. OwnView(r)[d][s] = row
  BY <1>2, <1>4 DEF UserTasks
<1> QED  BY <1>3, <1>5, <1>6

\* The others are as they were.
LEMMA OtherSlots ==
    ASSUME IInv, NEW r \in Requests, Commit(r), NEW d \in Days, NEW s \in Slots,
           ~Completes(r, d, s)
    PROVE  OwnView(r)[d][s] = daily[req[r].user][d][s]
<1> DEFINE u == req[r].user
           tasks == daily[u]
<1>1. req[r] \in AttemptRow /\ req[r].id = r
  BY DEF Commit, Advance, IInv, TypeOK
<1>2. u \in Users /\ tasks \in UserTasks
  BY <1>1 DEF IInv, TypeOK, AttemptRow, UserTasks
<1>3. CASE pSlot[r] = NoSlot
  BY <1>3 DEF OwnView, Completing
<1>4. CASE pSlot[r] # NoSlot
  <2> DEFINE row == [tasks[txDay[r]][pSlot[r]] EXCEPT !.attempt = req[r].id]
  <2>1. OwnView(r) = [tasks EXCEPT ![txDay[r]] = [tasks[txDay[r]] EXCEPT ![pSlot[r]] = row]]
    BY <1>4 DEF OwnView, Completing
  <2>2. ~(d = txDay[r] /\ s = pSlot[r])
    BY <1>4 DEF Completes
  <2> HIDE DEF row
  <2> QED  BY <1>2, <2>1, <2>2 DEF UserTasks
<1> QED  BY <1>3, <1>4

\* What a commit does to the tasks.
LEMMA CommitDaily ==
    ASSUME IInv, NEW r \in Requests, Commit(r)
    PROVE  /\ req[r] \in AttemptRow /\ req[r].id = r /\ req'[r] = req[r]
           /\ req[r].user \in Users
           /\ daily' = [daily EXCEPT ![req[r].user] = OwnView(r)]
BY DEF IInv, Commit, Advance, TypeOK, AttemptRow

\* No statement rewrites a task's question or the attempt that completed it.
LEMMA TasksKept ==
    ASSUME IInv, [Next]_vars, NEW u \in Users, NEW d \in Days, NEW s \in Slots,
           daily[u][d][s] # NULL
    PROVE  LET old == daily[u][d][s]
               new == daily'[u][d][s]
           IN  /\ new # NULL /\ new.question = old.question
               /\ old.attempt # NULL => new = old
<1> DEFINE old == daily[u][d][s]
           new == daily'[u][d][s]
<1>1. ASSUME NEW r \in Requests, Commit(r)
      PROVE  /\ new # NULL /\ new.question = old.question
             /\ old.attempt # NULL => new = old
  <2>1. daily' = [daily EXCEPT ![req[r].user] = OwnView(r)]
    BY <1>1, CommitDaily
  <2>2. CASE u # req[r].user
    <3>1. new = old
      BY <2>1, <2>2 DEF IInv, TypeOK
    <3> QED  BY <3>1
  <2>3. CASE u = req[r].user
    <3>1. new = OwnView(r)[d][s]
      BY <2>1, <2>3 DEF IInv, TypeOK
    <3>2. CASE Completes(r, d, s)
      <4>1. new = [question |-> req[r].question, attempt |-> r] /\ new \in TaskRow
        BY <1>1, <3>1, <3>2, CompletedSlot
      <4>2. old.attempt = NULL /\ old.question = req[r].question
        BY <1>1, <2>3, <3>2, CompletedSlot
      <4> QED  BY <4>1, <4>2, TablesAssumption
    <3>3. CASE ~Completes(r, d, s)
      <4>1. new = old
        BY <1>1, <2>3, <3>1, <3>3, OtherSlots
      <4> QED  BY <4>1
    <3> QED  BY <3>2, <3>3
  <2> QED  BY <2>2, <2>3
<1>2. ASSUME NEW v \in Users, NEW t \in Slots, NEW q \in Questions, AssignTask(v, t, q)
      PROVE  new = old
  BY <1>2 DEF AssignTask, IInv, TypeOK
<1> QED  BY <1>1, <1>2, TableSteps DEF tables

\* Days worked on stay so.
LEMMA StartedGrow ==
    ASSUME IInv, [Next]_vars, NEW u \in Users
    PROVE  StartedDays(daily[u]) \subseteq StartedDays(daily'[u])
BY TasksKept DEF StartedDays

\* What a transaction sees of the days worked on grows too, until it is over.
LEMMA OwnViewGrows ==
    ASSUME IInv, [Next]_vars, NEW r \in Requests, pc[r] \in AfterSrs, Keeps(r)
    PROVE  StartedDays(OwnView(r)) \subseteq StartedDays(OwnView(r)')
<1> USE DEF IInv
<1> DEFINE u == req[r].user
<1>1. /\ req[r] \in AttemptRow /\ u \in Users /\ txDay[r] \in Days
      /\ pSlot[r] \in Slots \union {NoSlot}
  BY DEF TypeOK, AttemptRow, AfterSrs, AfterStat
<1>2. daily[u] \in UserTasks
  BY <1>1 DEF TypeOK, UserTasks
<1>3. IInv'
  BY NextInv
<1>4. daily'[u] \in UserTasks
  BY <1>1, <1>3 DEF TypeOK, UserTasks
<1>5. pSlot[r] # NoSlot => daily[u][txDay[r]][pSlot[r]] \in TaskRow
  BY DEF SlotPending
<1>6. pSlot[r] # NoSlot => daily'[u][txDay[r]][pSlot[r]] \in TaskRow
  BY <1>3 DEF SlotPending, Keeps
<1>7. OwnView(r)' = Completing(daily'[u], txDay[r], pSlot[r], req[r])
  BY DEF OwnView, Keeps
<1>8. OwnView(r) = Completing(daily[u], txDay[r], pSlot[r], req[r])
  BY DEF OwnView
<1> HIDE DEF IInv, u
<1>9. StartedDays(OwnView(r)) = StartedDays(daily[u]) \union
            (IF pSlot[r] = NoSlot THEN {} ELSE {txDay[r]})
  <2>1. StartedDays(Completing(daily[u], txDay[r], pSlot[r], req[r])) =
            StartedDays(daily[u]) \union (IF pSlot[r] = NoSlot THEN {} ELSE {txDay[r]})
    BY ONLY <1>1, <1>2, <1>5, WorkedDays
  <2> QED  BY <1>8, <2>1
<1>10. StartedDays(OwnView(r)') = StartedDays(daily'[u]) \union
            (IF pSlot[r] = NoSlot THEN {} ELSE {txDay[r]})
  <2>1. StartedDays(Completing(daily'[u], txDay[r], pSlot[r], req[r])) =
            StartedDays(daily'[u]) \union (IF pSlot[r] = NoSlot THEN {} ELSE {txDay[r]})
    BY ONLY <1>1, <1>4, <1>6, WorkedDays
  <2> QED  BY <1>7, <2>1
<1>11. StartedDays(daily[u]) \subseteq StartedDays(daily'[u])
  BY <1>1, StartedGrow
<1> QED  BY <1>9, <1>10, <1>11

-----------------------------------------------------------------------------
\* One lemma per part of the invariant.

\* CategoryFits is preserved.
LEMMA CategoryStep ==
    ASSUME IInv, Provenance, [Next]_vars
    PROVE  CategoryFits'
<1> SUFFICES ASSUME NEW r \in Requests, pc'[r] \notin {"idle", "failed"}
             PROVE  req'[r].category[1] = QType[req'[r].question]
  BY DEF CategoryFits
<1> USE DEF IInv, Provenance, CategoryFits, TypeOK
<1>1. ASSUME NEW u \in Users, NEW q \in Questions, NEW correct \in BOOLEAN,
             Submit(r, u, q, correct)
      PROVE  req'[r].category[1] = QType[req'[r].question]
  BY <1>1 DEF Submit
<1>2. CASE Step(r)
  <2>1. pc[r] \notin {"idle", "failed"} /\ req'[r] = req[r]
    BY <1>2 DEF Step, Begin, UpsertStat, UpsertSrs, SrsOverflow, CompleteTask, SnapProgress,
                UpdateProgress, ProgressMissing, Commit, Rollback, Advance
  <2> QED  BY <2>1
<1>3. CASE Fail(r)
  BY <1>3 DEF Fail, Rollback
<1>4. CASE Keeps(r)
  BY <1>4 DEF Keeps
<1> QED  BY <1>1, <1>2, <1>3, <1>4, OwnStepOrNone

\* SrsPending is preserved: the row is locked from its upsert on.
LEMMA SrsStep ==
    ASSUME IInv, Provenance, [Next]_vars
    PROVE  SrsPending'
<1> SUFFICES ASSUME NEW r \in Requests, pc'[r] \in AfterSrs
             PROVE  LET row == srs'[req'[r].user][req'[r].question]
                    IN  /\ ~Overflows(row, req'[r].correct)
                        /\ pSrs'[r] = Review(row, req'[r].correct, txDay'[r])
  BY DEF SrsPending
<1> USE DEF IInv, Provenance, SrsPending, TypeOK, AfterSrs, AfterStat
<1>1. ASSUME NEW u \in Users, NEW q \in Questions, NEW correct \in BOOLEAN,
             Submit(r, u, q, correct)
      PROVE  FALSE
  BY <1>1 DEF Submit, Advance
<1>2. CASE Step(r)
  <2>1. CASE UpsertSrs(r)
    BY <2>1 DEF UpsertSrs, Advance, tables
  <2>2. CASE CompleteTask(r) \/ SnapProgress(r) \/ UpdateProgress(r)
    <3>1. /\ pc[r] \in AfterSrs /\ srs' = srs /\ req' = req
          /\ txDay' = txDay /\ pSrs' = pSrs
      BY <2>2 DEF CompleteTask, SnapProgress, UpdateProgress, Advance, tables
    <3> QED  BY <3>1
  <2> QED  BY <1>2, <2>1, <2>2 DEF Step, Begin, UpsertStat, SrsOverflow, ProgressMissing, Commit,
                                   Rollback, Advance
<1>3. CASE Fail(r)
  BY <1>3 DEF Fail, Rollback
<1>4. CASE Keeps(r)
  <2>1. srs'[req[r].user][req[r].question] = srs[req[r].user][req[r].question]
    BY <1>4, SrsHeld DEF Keeps
  <2> QED  BY <1>4, <2>1 DEF Keeps
<1> QED  BY <1>1, <1>2, <1>3, <1>4, OwnStepOrNone

\* DaysCome is preserved: a transaction's day is that of its BEGIN.
LEMMA DaysStep ==
    ASSUME IInv, Provenance, [Next]_vars
    PROVE  DaysCome'
<1>1. today' \in Int /\ today \in Int /\ today <= today'
  BY TodayGrows, TablesAssumption DEF IInv, Days
<1>2. ASSUME NEW r \in Requests
      PROVE  txDay'[r] <= today'
  <2>0. txDay[r] \in Int /\ txDay[r] <= today /\ 1 <= today
    BY TablesAssumption DEF DaysCome, Provenance, IInv, TypeOK, Days
  <2>1. txDay'[r] \in {txDay[r], today, 1}
    <3>1. ASSUME NEW u \in Users, NEW q \in Questions, NEW correct \in BOOLEAN,
                 Submit(r, u, q, correct)
          PROVE  txDay'[r] = txDay[r]
      BY <3>1 DEF Submit, pending
    <3>2. CASE Step(r)
      BY <3>2 DEF Step, Begin, UpsertStat, UpsertSrs, SrsOverflow, CompleteTask, SnapProgress,
                  UpdateProgress, ProgressMissing, Commit, Rollback, Finish, pending, IInv, TypeOK
    <3>3. CASE Fail(r)
      BY <3>3 DEF Fail, Rollback, Finish, IInv, TypeOK
    <3>4. CASE Keeps(r)
      BY <3>4 DEF Keeps
    <3> QED  BY <3>1, <3>2, <3>3, <3>4, OwnStepOrNone DEF IInv
  <2> QED  BY <1>1, <2>0, <2>1
<1>3. ASSUME NEW u \in Users, NEW d \in Days, NEW s \in Slots, daily'[u][d][s] # NULL
      PROVE  d <= today'
  <2>0. d \in Int
    BY TablesAssumption DEF Days
  <2>1. daily[u][d][s] # NULL => d <= today
    BY DEF Provenance, DaysCome
  <2>2. ASSUME NEW r \in Requests, Commit(r)
        PROVE  daily[u][d][s] # NULL
    <3>1. daily' = [daily EXCEPT ![req[r].user] = OwnView(r)]
      BY <2>2, CommitDaily
    <3>2. CASE u # req[r].user
      BY <1>3, <3>1, <3>2 DEF IInv, TypeOK
    <3>3. CASE u = req[r].user
      <4>1. OwnView(r)[d][s] # NULL
        BY <1>3, <3>1, <3>3 DEF IInv, TypeOK
      <4>2. Completes(r, d, s) => daily[req[r].user][d][s] \in TaskRow
        BY <2>2, CompletedSlot
      <4>3. ~Completes(r, d, s) => OwnView(r)[d][s] = daily[req[r].user][d][s]
        BY <2>2, OtherSlots
      <4> QED  BY <3>3, <4>1, <4>2, <4>3, TablesAssumption
    <3> QED  BY <3>2, <3>3
  <2>3. ASSUME NEW v \in Users, NEW t \in Slots, NEW q \in Questions, AssignTask(v, t, q)
        PROVE  daily[u][d][s] # NULL \/ d = today
    BY <1>3, <2>3 DEF AssignTask, IInv, TypeOK
  <2> QED  BY <1>1, <1>3, <2>0, <2>1, <2>2, <2>3, TableSteps DEF tables
<1> QED  BY <1>2, <1>3 DEF DaysCome

\* StreakPending is preserved: completed tasks stay completed.
LEMMA StreakPendingStep ==
    ASSUME IInv, Provenance, [Next]_vars
    PROVE  StreakPending'
<1> SUFFICES ASSUME NEW r \in Requests, pc'[r] \in {"snapped", "updated"}
             PROVE  \E days \in SUBSET StartedDays(OwnView(r)') :
                        StreakOf(pProg'[r], days, txDay'[r])
  BY DEF StreakPending, StreakOf
<1>0. TypeOK /\ StreakPending
  BY DEF IInv, Provenance
<1>1. ASSUME NEW u \in Users, NEW q \in Questions, NEW correct \in BOOLEAN,
             Submit(r, u, q, correct)
      PROVE  FALSE
  BY <1>0, <1>1 DEF Submit, Advance, TypeOK
<1>2. CASE Step(r)
  <2>1. CASE SnapProgress(r)
    <3>1. OwnView(r)' = OwnView(r) /\ txDay' = txDay
      BY <2>1 DEF SnapProgress, OwnView, tables
    <3> DEFINE days == CompletedDays(OwnView(r))
    <3>2. days \subseteq StartedDays(OwnView(r))
      BY CompletedAreStarted
    <3>3. pProg'[r] = [xp |-> 0, streak |-> StreakDays(days, txDay[r]),
                       last |-> LastStudiedOn(days)]
      BY <1>0, <2>1 DEF SnapProgress, TypeOK
    <3> HIDE DEF days
    <3>4. StreakOf(pProg'[r], days, txDay'[r])
      BY <3>1, <3>3 DEF StreakOf
    <3> QED  BY <3>1, <3>2, <3>4
  <2>2. CASE UpdateProgress(r)
    <3>1. OwnView(r)' = OwnView(r) /\ txDay' = txDay
      BY <2>2 DEF UpdateProgress, OwnView, tables
    <3>2. pProg'[r].streak = pProg[r].streak /\ pProg'[r].last = pProg[r].last
      BY <1>0, <2>2 DEF UpdateProgress, TypeOK, ProgressRow
    <3>3. PICK days \in SUBSET StartedDays(OwnView(r)) : StreakOf(pProg[r], days, txDay[r])
      BY <1>0, <2>2 DEF UpdateProgress, Advance, StreakPending, StreakOf
    <3> QED  BY <3>1, <3>2, <3>3 DEF StreakOf
  <2> QED  BY <1>0, <1>2, <2>1, <2>2
           DEF Step, Begin, UpsertStat, UpsertSrs, SrsOverflow, CompleteTask, ProgressMissing,
               Commit, Rollback, Advance, TypeOK
<1>3. CASE Fail(r)
  BY <1>0, <1>3 DEF Fail, Rollback, TypeOK
<1>4. CASE Keeps(r)
  <2>1. pc[r] \in {"snapped", "updated"} /\ pProg'[r] = pProg[r] /\ txDay'[r] = txDay[r]
    BY <1>4 DEF Keeps
  <2>2. PICK days \in SUBSET StartedDays(OwnView(r)) : StreakOf(pProg[r], days, txDay[r])
    BY <1>0, <2>1 DEF StreakPending, StreakOf
  <2>3. StartedDays(OwnView(r)) \subseteq StartedDays(OwnView(r)')
    BY <1>4, <2>1, OwnViewGrows DEF AfterSrs, AfterStat
  <2> QED  BY <2>1, <2>2, <2>3
<1> QED  BY <1>0, <1>1, <1>2, <1>3, <1>4, OwnStepOrNone

\* A commit backs the task it completes, with an attempt that is new; nothing else
\* completes a task.
LEMMA BackedStep ==
    ASSUME IInv, Provenance, [Next]_vars
    PROVE  TasksBacked'
<1>0. TypeOK /\ AttemptsDone /\ TasksBacked
  BY DEF IInv, Provenance
<1>1. ASSUME NEW r \in Requests, Commit(r)
      PROVE  TasksBacked'
  <2> DEFINE u == req[r].user
             mine(t) == t[1] = u /\ Completes(r, t[2], t[3])
  <2>1. /\ daily' = [daily EXCEPT ![u] = OwnView(r)]
        /\ attempt' = attempt \union {req[r]} /\ req[r].id = r /\ u \in Users
    BY <1>1, CommitDaily DEF Commit
  <2>2. \A a \in attempt : a.id # r
    BY <1>0, <1>1 DEF AttemptsDone, Commit, Advance
  <2>3. ASSUME NEW t \in DoneTasks', mine(t)
        PROVE  /\ AttemptOf(t)' = r
               /\ daily'[t[1]][t[2]][t[3]].question = req[r].question
    <3>1. t \in Users \X Days \X Slots
      BY DEF DoneTasks
    <3>2. daily'[t[1]][t[2]][t[3]] = OwnView(r)[t[2]][t[3]]
      BY <1>0, <2>1, <2>3, <3>1 DEF TypeOK
    <3>3. OwnView(r)[t[2]][t[3]] = [question |-> req[r].question, attempt |-> r]
      BY <1>1, <2>3, <3>1, CompletedSlot
    <3> QED  BY <3>2, <3>3 DEF AttemptOf
  <2>4. ASSUME NEW t \in DoneTasks', ~mine(t)
        PROVE  /\ t \in DoneTasks
               /\ daily'[t[1]][t[2]][t[3]] = daily[t[1]][t[2]][t[3]]
               /\ AttemptOf(t)' = AttemptOf(t)
    <3>1. t \in Users \X Days \X Slots
      BY DEF DoneTasks
    <3>2. daily'[t[1]][t[2]][t[3]] = daily[t[1]][t[2]][t[3]]
      <4>1. CASE t[1] # u
        BY <1>0, <2>1, <3>1, <4>1 DEF TypeOK
      <4>2. CASE t[1] = u
        <5>1. OwnView(r)[t[2]][t[3]] = daily[u][t[2]][t[3]]
          BY <1>1, <2>4, <3>1, <4>2, OtherSlots
        <5> QED  BY <1>0, <2>1, <3>1, <4>2, <5>1 DEF TypeOK
      <4> QED  BY <4>1, <4>2
    <3> QED  BY <2>4, <3>1, <3>2 DEF DoneTasks, AttemptOf
  <2>5. ASSUME NEW t \in DoneTasks', ~mine(t)
        PROVE  AttemptOf(t)' # r
    <3>1. PICK a \in attempt : a.id = AttemptOf(t)
      BY <1>0, <2>4, <2>5 DEF TasksBacked
    <3> QED  BY <2>2, <2>4, <2>5, <3>1
  <2>6. ASSUME NEW t \in DoneTasks'
        PROVE  \E a \in attempt' : /\ a.id = AttemptOf(t)'
                                   /\ a.user = t[1]
                                   /\ a.question = daily'[t[1]][t[2]][t[3]].question
    <3>1. CASE mine(t)
      BY <2>1, <2>3, <2>6, <3>1
    <3>2. CASE ~mine(t)
      <4>1. PICK a \in attempt : /\ a.id = AttemptOf(t) /\ a.user = t[1]
                                 /\ a.question = daily[t[1]][t[2]][t[3]].question
        BY <1>0, <2>4, <2>6, <3>2 DEF TasksBacked
      <4> QED  BY <2>1, <2>4, <2>6, <3>2, <4>1
    <3> QED  BY <3>1, <3>2
  <2>7. ASSUME NEW t \in DoneTasks', NEW w \in DoneTasks', t # w
        PROVE  AttemptOf(t)' # AttemptOf(w)'
    <3>1. t \in Users \X Days \X Slots /\ w \in Users \X Days \X Slots
      BY DEF DoneTasks
    <3>2. CASE mine(t) /\ mine(w)
      BY <2>7, <3>1, <3>2 DEF Completes
    <3>3. CASE mine(t) /\ ~mine(w)
      BY <2>3, <2>5, <3>3
    <3>4. CASE ~mine(t) /\ mine(w)
      BY <2>3, <2>5, <3>4
    <3>5. CASE ~mine(t) /\ ~mine(w)
      <4>1. AttemptOf(t) # AttemptOf(w)
        BY <1>0, <2>4, <2>7, <3>5 DEF TasksBacked
      <4> QED  BY <2>4, <3>5, <4>1
    <3> QED  BY <3>2, <3>3, <3>4, <3>5
  <2> QED  BY <2>6, <2>7 DEF TasksBacked
<1>2. ASSUME NEW v \in Users, NEW s \in Slots, NEW q \in Questions, AssignTask(v, s, q)
      PROVE  TasksBacked'
  <2>1. attempt' = attempt
    BY <1>2 DEF AssignTask
  <2>2. daily'[v][today][s].attempt = NULL /\ v \in Users /\ today \in Days
    BY <1>0, <1>2 DEF AssignTask, TypeOK
  <2>3. \A u \in Users, d \in Days, t \in Slots :
           ~(u = v /\ d = today /\ t = s) => daily'[u][d][t] = daily[u][d][t]
    BY <1>0, <1>2 DEF AssignTask, TypeOK
  <2>4. \A t \in DoneTasks' : /\ t \in DoneTasks
                              /\ daily'[t[1]][t[2]][t[3]] = daily[t[1]][t[2]][t[3]]
    BY <2>2, <2>3 DEF DoneTasks
  <2>5. \A t \in DoneTasks' : AttemptOf(t)' = AttemptOf(t)
    BY <2>4 DEF AttemptOf
  <2>6. ASSUME NEW t \in DoneTasks'
        PROVE  \E a \in attempt' : /\ a.id = AttemptOf(t)'
                                   /\ a.user = t[1]
                                   /\ a.question = daily'[t[1]][t[2]][t[3]].question
    <3>1. PICK a \in attempt : /\ a.id = AttemptOf(t) /\ a.user = t[1]
                               /\ a.question = daily[t[1]][t[2]][t[3]].question
      BY <1>0, <2>4, <2>6 DEF TasksBacked
    <3> QED  BY <2>1, <2>4, <2>5, <2>6, <3>1
  <2>7. \A t, w \in DoneTasks' : t # w => AttemptOf(t)' # AttemptOf(w)'
    BY <1>0, <2>4, <2>5 DEF TasksBacked
  <2> QED  BY <2>6, <2>7 DEF TasksBacked
<1>3. ASSUME UNCHANGED tables
      PROVE  TasksBacked'
  BY <1>0, <1>3 DEF TasksBacked, DoneTasks, AttemptOf, tables
<1> QED  BY <1>1, <1>2, <1>3, TableSteps

\* A commit stores the streak it has in hand, next to the task that counts for it.
LEMMA StreakStep ==
    ASSUME IInv, Provenance, [Next]_vars
    PROVE  StreakBacked'
<1>0. TypeOK /\ StreakBacked
  BY DEF IInv, Provenance
<1>1. today' \in Int /\ today \in Int /\ today <= today' /\ NoDay <= today'
  BY <1>0, TodayGrows, TablesAssumption DEF Days, NoDay
<1>2. ASSUME NEW u \in Users, progress'[u] = progress[u]
      PROVE  /\ progress'[u].last <= today'
             /\ (progress'[u].last - progress'[u].streak + 1) .. progress'[u].last
                    \subseteq StartedDays(daily'[u])
  <2>1. progress[u].last \in Int
    BY <1>0, TablesAssumption DEF TypeOK, ProgressRow, Days, NoDay
  <2> QED  BY <1>0, <1>1, <1>2, <2>1, StartedGrow DEF StreakBacked
<1>3. ASSUME NEW r \in Requests, Commit(r), NEW u \in Users, u = req[r].user
      PROVE  /\ progress'[u].last <= today'
             /\ (progress'[u].last - progress'[u].streak + 1) .. progress'[u].last
                    \subseteq StartedDays(daily'[u])
  <2>1. progress'[u] = pProg[r] /\ daily'[u] = OwnView(r) /\ txDay[r] \in Days
    BY <1>0, <1>3 DEF Commit, TypeOK
  <2>2. PICK days \in SUBSET StartedDays(OwnView(r)) : StreakOf(pProg[r], days, txDay[r])
    BY <1>3 DEF Commit, Advance, Provenance, StreakPending, StreakOf
  <2>3. days \in SUBSET Days
    BY DEF StartedDays
  <2>4. /\ (pProg[r].last - pProg[r].streak + 1) .. pProg[r].last \subseteq days
        /\ pProg[r].last \in days \union {NoDay}
    BY <2>1, <2>2, <2>3, StreakRunIn DEF StreakOf
  <2>5. \A d \in StartedDays(daily'[u]) : d <= today'
    BY DaysStep DEF DaysCome, StartedDays
  <2> QED  BY <1>1, <2>1, <2>4, <2>5
<1>4. ASSUME NEW r \in Requests, Commit(r), NEW u \in Users, u # req[r].user
      PROVE  progress'[u] = progress[u]
  BY <1>0, <1>4 DEF Commit, TypeOK
<1>5. ASSUME NEW v \in Users, NEW s \in Slots, NEW q \in Questions, AssignTask(v, s, q)
      PROVE  progress' = progress
  BY <1>5 DEF AssignTask
<1>6. ASSUME NEW u \in Users
      PROVE  \/ progress'[u] = progress[u]
             \/ \E r \in Requests : Commit(r) /\ u = req[r].user
  BY <1>4, <1>5, TableSteps DEF tables
<1> QED  BY <1>2, <1>3, <1>6 DEF StreakBacked

-----------------------------------------------------------------------------
\* An empty database needs no provenance.
LEMMA InitProvenance == Init => Provenance
<1> SUFFICES ASSUME Init PROVE Provenance
  OBVIOUS
<1> USE DEF Init
<1>1. CategoryFits /\ SrsPending /\ StreakPending
  BY DEF CategoryFits, SrsPending, StreakPending, AfterSrs, AfterStat
<1>2. DaysCome
  BY DEF DaysCome
<1>3. TasksBacked
  BY DEF TasksBacked, DoneTasks
<1>4. StreakBacked
  BY DEF StreakBacked, NoProgress, NoDay
<1> QED  BY <1>1, <1>2, <1>3, <1>4 DEF Provenance

\* Every step preserves it.
LEMMA NextProvenance == IInv /\ Provenance /\ [Next]_vars => Provenance'
BY CategoryStep, SrsStep, DaysStep, StreakPendingStep, BackedStep, StreakStep
   DEF Provenance

\* Both invariants hold in every reachable state.
LEMMA Grounded == Spec => [](IInv /\ Provenance)
BY InitInv, NextInv, InitProvenance, NextProvenance, PTL DEF Spec

\* A completed task names a committed attempt of its own user at its own question, and
\* no attempt completes two tasks, whatever answers and assignments interleave.
THEOREM TasksHaveAttempts == Spec => []TasksBacked
<1>1. Provenance => TasksBacked
  BY DEF Provenance
<1> QED  BY <1>1, Grounded, PTL

\* A stored streak is a run of days worked on, up to a last_studied_on that has come,
\* even when concurrent answers did not see each other's completions.
THEOREM StreaksWorked == Spec => []StreakBacked
<1>1. Provenance => StreakBacked
  BY DEF Provenance
<1> QED  BY <1>1, Grounded, PTL

\* No statement of any handler changes a task's question, or a completed task at all.
THEOREM NoTaskRewritten == Spec => TaskKept
<1>1. ASSUME IInv, [Next]_vars
      PROVE  [\A u \in Users, d \in Days, s \in Slots :
                 LET old == daily[u][d][s]
                     new == daily'[u][d][s]
                 IN  old # NULL =>
                        /\ new # NULL /\ new.question = old.question
                        /\ old.attempt # NULL => new = old]_daily
  BY <1>1, TasksKept
<1> QED  BY <1>1, Inductive, PTL DEF Spec, TaskKept

-----------------------------------------------------------------------------
\* The specification of recording is written over the same tables: its operators, read
\* through the refinement, are those of the model.
LEMMA SameRows ==
    /\ Ledger!AttemptRow = AttemptRow
    /\ Ledger!Days = Days /\ Ledger!Slots = Slots
    /\ Ledger!NoSlot = NoSlot
BY DEF Ledger!AttemptRow, AttemptRow, Ledger!Categories, Categories, Ledger!Days, Days,
       Ledger!Slots, Slots, Ledger!NoSlot, NoSlot

\* The same for the readings of daily_task,
LEMMA SameTasks ==
    ASSUME NEW tasks, NEW q
    PROVE /\ Ledger!OpenSlots(tasks, q) = OpenSlots(tasks, q)
          /\ Ledger!StartedDays(tasks) = StartedDays(tasks)
BY DEF Ledger!OpenSlots, OpenSlots, Ledger!StartedDays, StartedDays, Ledger!Days, Days,
       Ledger!Slots, Slots

\* for the completion of a task,
LEMMA SameCompleting ==
    ASSUME NEW tasks, NEW day, NEW s, NEW a
    PROVE Ledger!Completing(tasks, day, s, a) = Completing(tasks, day, s, a)
BY DEF Ledger!Completing, Completing, Ledger!NoSlot, NoSlot

\* for the schedule,
LEMMA SameReview ==
    ASSUME NEW row, NEW correct, NEW day
    PROVE /\ Ledger!Review(row, correct, day) = Review(row, correct, day)
          /\ Ledger!Overflows(row, correct) = Overflows(row, correct)
<1>1. \A i : Ledger!NextInterval(i) = NextInterval(i)
  BY DEF Ledger!NextInterval, NextInterval, Ledger!RoundDiv, RoundDiv
<1> QED  BY <1>1 DEF Ledger!Review, Review, Ledger!Overflows, Overflows

\* for the streak
LEMMA SameStreak ==
    ASSUME NEW days, NEW day
    PROVE /\ Ledger!StreakDays(days, day) = StreakDays(days, day)
          /\ Ledger!LastStudiedOn(days) = LastStudiedOn(days)
<1>1. \A S : Ledger!Max(S) = Max(S)
  BY Zenon DEF Ledger!Max, Max
<1>2. Ledger!LastStudiedOn(days) = LastStudiedOn(days)
  BY <1>1 DEF Ledger!LastStudiedOn, LastStudiedOn, Ledger!NoDay, NoDay
<1>3. \A S : Ledger!Cardinality(S) = Cardinality(S)
  BY Zenon DEF Ledger!Cardinality, Cardinality, Ledger!IsFiniteSet, IsFiniteSet
<1>5. \A S, d : Ledger!Grp(S, d) = Grp(S, d)
  BY <1>3 DEF Ledger!Grp, Grp, Ledger!RowNumber, RowNumber
<1>4. \A S : Ledger!LatestIsland(S) = LatestIsland(S)
  BY <1>1, <1>5 DEF Ledger!LatestIsland, LatestIsland
<1> QED  BY <1>2, <1>3, <1>4 DEF Ledger!StreakDays, StreakDays

\* and for the increments.
LEMMA SameAmounts ==
    ASSUME NEW a
    PROVE Ledger!Delta(a) = Delta(a) /\ Ledger!Gain(a) = Gain(a)
BY DEF Ledger!Delta, Delta, Ledger!Gain, Gain, Ledger!XpPerCorrect, XpPerCorrect

-----------------------------------------------------------------------------
\* One commit does at once what its statements had prepared one after another.

\* The attempt is new, of a day that has come, and counted under its question's type.
LEMMA CommitRows ==
    ASSUME IInv, Provenance, NEW r \in Requests, Commit(r),
           NEW CONSTANT a, a = req[r], NEW CONSTANT day, day = txDay[r]
    PROVE  /\ a \in AttemptRow /\ a.id = r /\ day \in Days /\ day <= today
           /\ \A b \in attempt : b.id # a.id
           /\ a.category[1] = QType[a.question]
           /\ attempt' = attempt \union {a}
           /\ UNCHANGED <<today, language>>
<1>1. pc[r] = "updated" /\ attempt' = attempt \union {a} /\ UNCHANGED <<today, language>>
  BY DEF Commit, Advance, Finish
<1> QED  BY <1>1 DEF IInv, Provenance, TypeOK, AttemptsDone, CategoryFits, DaysCome

\* The counters go up by the answer,
LEMMA CommitCounts ==
    ASSUME IInv, NEW r \in Requests, Commit(r), NEW CONSTANT a, a = req[r]
    PROVE  Ledger!CountStat(a)
<1> DEFINE row == stat[a.user][a.category]
<1>1. pc[r] = "updated" /\ stat' = [stat EXCEPT ![a.user][a.category] = pStat[r]]
  BY DEF Commit, Advance
<1>2. pStat[r] \in StatRow
  BY DEF IInv, TypeOK
<1>3. pStat[r].attempts = row.attempts + 1 /\ pStat[r].corrects = row.corrects + Delta(a)
  BY <1>1 DEF IInv, StatPending, AfterStat
<1>4. pStat[r] = [attempts |-> row.attempts + 1, corrects |-> row.corrects + Delta(a)]
  BY <1>2, <1>3 DEF StatRow
<1> QED  BY <1>1, <1>4, SameAmounts DEF Ledger!CountStat

\* its question is scheduled once more,
LEMMA CommitSchedules ==
    ASSUME IInv, Provenance, NEW r \in Requests, Commit(r),
           NEW CONSTANT a, a = req[r], NEW CONSTANT day, day = txDay[r]
    PROVE  Ledger!ScheduleSrs(a, day)
<1>1. pc[r] = "updated" /\ srs' = [srs EXCEPT ![a.user][a.question] = pSrs[r]]
  BY DEF Commit, Advance
<1>2. /\ ~Overflows(srs[a.user][a.question], a.correct)
      /\ pSrs[r] = Review(srs[a.user][a.question], a.correct, day)
  BY <1>1 DEF Provenance, SrsPending, AfterSrs, AfterStat
<1> DEFINE row == srs[a.user][a.question]
<1>3. /\ Ledger!Review(row, a.correct, day) = Review(row, a.correct, day)
      /\ Ledger!Overflows(row, a.correct) = Overflows(row, a.correct)
  BY ONLY SameReview
<1>4. /\ ~Ledger!Overflows(row, a.correct)
      /\ srs' = [srs EXCEPT ![a.user][a.question] = Ledger!Review(row, a.correct, day)]
  BY <1>1, <1>2, <1>3
<1> QED  BY <1>4 DEF Ledger!ScheduleSrs

\* an open task it answers is completed, or none,
LEMMA CommitCredits ==
    ASSUME IInv, NEW r \in Requests, Commit(r),
           NEW CONSTANT a, a = req[r], NEW CONSTANT day, day = txDay[r]
    PROVE  Ledger!CreditTask(a, day)
<1>1. daily' = [daily EXCEPT ![a.user] = Completing(daily[a.user], day, pSlot[r], a)]
  BY DEF Commit, OwnView
<1>2. pSlot[r] \in Slots \union {NoSlot}
  BY DEF IInv, TypeOK
<1>3. pSlot[r] # NoSlot => pSlot[r] \in OpenSlots(daily[a.user][day], a.question)
  BY <1>2, TablesAssumption DEF IInv, SlotPending, OpenSlots
<1>4. pSlot[r] \in Ledger!OpenSlots(daily[a.user][day], a.question) \union {Ledger!NoSlot}
  BY <1>3, SameTasks, SameRows
<1>5. daily' = [daily EXCEPT ![a.user] =
                    Ledger!Completing(daily[a.user], day, pSlot[r], a)]
  BY <1>1, SameCompleting
<1> QED  BY <1>4, <1>5 DEF Ledger!CreditTask

\* and xp and streak are brought up to date.
LEMMA CommitProgresses ==
    ASSUME IInv, Provenance, NEW r \in Requests, Commit(r),
           NEW CONSTANT a, a = req[r], NEW CONSTANT day, day = txDay[r]
    PROVE  Ledger!CreditProgress(a, day)
<1>1. pc[r] = "updated" /\ progress' = [progress EXCEPT ![a.user] = pProg[r]]
  BY DEF Commit, Advance
<1>2. a.user \in WithProgress
  BY <1>1 DEF IInv, XpPending
<1>3. daily'[a.user] = OwnView(r)
  BY CommitDaily DEF IInv, TypeOK
<1>4. PICK days \in SUBSET StartedDays(OwnView(r)) : StreakOf(pProg[r], days, day)
  BY <1>1 DEF Provenance, StreakPending, StreakOf
<1>5. pProg[r].xp = progress[a.user].xp + Gain(a) /\ pProg[r] \in ProgressRow
  BY <1>1 DEF IInv, XpPending, TypeOK
<1>6. pProg[r] = [xp     |-> progress[a.user].xp + Ledger!Gain(a),
                  streak |-> Ledger!StreakDays(days, day),
                  last   |-> Ledger!LastStudiedOn(days)]
  BY <1>4, <1>5, SameAmounts, SameStreak DEF StreakOf, ProgressRow
<1>7. days \in SUBSET Ledger!StartedDays(daily'[a.user])
  BY <1>3, <1>4, SameTasks
<1> QED  BY <1>1, <1>2, <1>6, <1>7 DEF Ledger!CreditProgress

\* Together: the one step that the specification calls Record.
LEMMA CommitRecords ==
    ASSUME IInv, Provenance, NEW r \in Requests, Commit(r)
    PROVE  \E a \in Ledger!AttemptRow, day \in 1 .. today : Ledger!Record(a, day)
<1>1. PICK a : a = req[r]
  OBVIOUS
<1>2. PICK day : day = txDay[r]
  OBVIOUS
<1>3. Ledger!Record(a, day)
  BY <1>1, <1>2, CommitRows, CommitCounts, CommitSchedules, CommitCredits, CommitProgresses
     DEF Ledger!Record
<1>4. day \in 1 .. today /\ a \in Ledger!AttemptRow
  BY <1>1, <1>2, CommitRows, SameRows, TablesAssumption DEF IInv, TypeOK, Days
<1> QED  BY <1>3, <1>4

-----------------------------------------------------------------------------
\* The initial states are those of the specification.
LEMMA LedgerInit == Init => Ledger!Init
BY DEF Init, Ledger!Init, Ledger!NoStat, NoStat, Ledger!Categories, Categories,
       Ledger!NoSrs, NoSrs, Ledger!Days, Days, Ledger!Slots, Slots,
       Ledger!NoProgress, NoProgress, Ledger!NoDay, NoDay

\* Every step is one of the specification's, or leaves the tables alone.
LEMMA LedgerNext ==
    ASSUME IInv, Provenance, [Next]_vars
    PROVE  [Ledger!Next]_(Ledger!vars)
<1>1. ASSUME NEW r \in Requests, Commit(r)
      PROVE  Ledger!Next
  BY <1>1, CommitRecords DEF Ledger!Next
<1>2. ASSUME NEW u \in Users, NEW s \in Slots, NEW q \in Questions, AssignTask(u, s, q)
      PROVE  Ledger!Next
  <2>1. Ledger!Assign(u, s, q)
    BY <1>2 DEF AssignTask, Ledger!Assign
  <2> QED  BY <2>1, SameRows DEF Ledger!Next
<1>3. ASSUME NEW q \in Questions, NEW l \in Languages, PatchLanguage(q, l)
      PROVE  Ledger!Next
  BY <1>3 DEF PatchLanguage, Ledger!PatchLanguage, Ledger!Next, tables
<1>4. NextDay => Ledger!Next
  BY DEF NextDay, Ledger!NextDay, Ledger!Next, tables
<1>5. ASSUME NEW r \in Requests, NEW u \in Users, NEW q \in Questions,
             NEW correct \in BOOLEAN, Submit(r, u, q, correct)
      PROVE  UNCHANGED Ledger!vars
  BY <1>5 DEF Submit, Ledger!vars, tables
<1>6. ASSUME NEW r \in Requests, Step(r), ~Commit(r)
      PROVE  UNCHANGED Ledger!vars
  BY <1>6 DEF Step, Begin, UpsertStat, UpsertSrs, SrsOverflow, CompleteTask, SnapProgress,
              UpdateProgress, ProgressMissing, Rollback, Finish, Ledger!vars, tables
<1>7. ASSUME NEW r \in Requests, Fail(r)
      PROVE  UNCHANGED Ledger!vars
  BY <1>7 DEF Fail, Rollback, Finish, Ledger!vars, tables
<1>8. UNCHANGED vars => UNCHANGED Ledger!vars
  BY DEF vars, Ledger!vars, tables
<1> QED  BY <1>1, <1>2, <1>3, <1>4, <1>5, <1>6, <1>7, <1>8 DEF Next, Environment

\* Statement by statement, interleaved, blocked, failed or rolled back: to whoever reads
\* the tables, every answer is recorded in one step, with all that derives from it.
THEOREM RecordsAtOnce == Spec => LedgerSpec
BY LedgerInit, LedgerNext, Grounded, PTL DEF Spec, Ledger!Spec, LedgerSpec

-----------------------------------------------------------------------------
\* The rows of today's tasks, one column each of what LearnerDay tells apart.
DayRow == [user : Users, slot : Slots, question : Questions, done : BOOLEAN]

\* Where a slot's task stays, so do its rows.
LEMMA RowsStay ==
    ASSUME today' = today, NEW t \in DayRow,
           daily'[t.user][today][t.slot] = daily[t.user][today][t.slot]
    PROVE  t \in TodayTasks' <=> t \in TodayTasks
BY DEF TodayTasks, DayRow

\* An insert of GET /home assigns a task.
LEMMA AssignIsAssign ==
    ASSUME TypeOK, NEW u \in Users, NEW s \in Slots, NEW q \in Questions,
           AssignTask(u, s, q)
    PROVE  Day!Assign(u, s, q)
<1> DEFINE row == [question |-> q, attempt |-> NULL]
           mine == Day!Task(u, s, q, FALSE)
<1>1. today \in Days /\ today' = today /\ attempt' = attempt
  BY DEF TypeOK, AssignTask
<1>2. row \in TaskRow /\ row.attempt = NULL /\ row.question = q
  BY DEF TaskRow
<1>3. daily'[u][today][s] = row /\ daily[u][today][s] = NULL
  BY <1>1 DEF AssignTask, TypeOK
<1>4. \A v \in Users, t \in Slots : ~(v = u /\ t = s) =>
          daily'[v][today][t] = daily[v][today][t]
  BY <1>1 DEF AssignTask, TypeOK
<1> HIDE DEF row
<1>5. ASSUME NEW t \in DayRow, ~(t.user = u /\ t.slot = s)
      PROVE  t \in TodayTasks' <=> t \in TodayTasks
  BY <1>1, <1>4, <1>5, RowsStay DEF DayRow
<1>6. ASSUME NEW t \in DayRow, t.user = u, t.slot = s
      PROVE  t \in TodayTasks' <=> t = mine
  <2>1. row # NULL
    BY <1>2, TablesAssumption
  <2>2. t \in TodayTasks' <=> q = t.question /\ ~t.done
    BY <1>1, <1>2, <1>3, <1>6, <2>1 DEF TodayTasks, DayRow
  <2>3. t = mine <=> t.user = u /\ t.slot = s /\ t.question = q /\ ~t.done
    BY DEF DayRow, Day!Task
  <2> QED  BY <1>6, <2>2, <2>3
<1>7. \A t \in TodayTasks : t.user = u => t.slot # s
  BY <1>3 DEF TodayTasks
<1>8. mine \in DayRow /\ mine.user = u /\ mine.slot = s
  BY DEF DayRow, Day!Task
<1>9. TodayTasks \subseteq DayRow /\ TodayTasks' \subseteq DayRow
  BY DEF TodayTasks, DayRow
<1> HIDE DEF mine
<1>10. TodayTasks' = TodayTasks \union {mine}
  BY <1>5, <1>6, <1>7, <1>8, <1>9
<1> QED  BY <1>1, <1>7, <1>10 DEF Day!Assign, mine

\* A commit records its answer, and completes an open task of the question or none.
LEMMA CommitIsAnswer ==
    ASSUME IInv, NEW r \in Requests, Commit(r)
    PROVE  Day!Answer(req[r].user, req[r].question)
<1> DEFINE u == req[r].user
           q == req[r].question
           s == pSlot[r]
<1>1. /\ u \in Users /\ q \in Questions /\ today \in Days
      /\ today' = today /\ attempt' = attempt \union {req[r]}
  BY CommitDaily DEF IInv, TypeOK, Commit, Finish, AttemptRow
<1>2. {<<a.user, a.question>> : a \in attempt'}
          = {<<a.user, a.question>> : a \in attempt} \union {<<u, q>>}
  BY <1>1
<1>3. \A v \in Users, t \in Slots : daily'[v][today][t] =
          IF v = u THEN OwnView(r)[today][t] ELSE daily[v][today][t]
  BY <1>1, CommitDaily DEF IInv, TypeOK
<1>4. \A v \in Users, t \in Slots : ~(v = u /\ Completes(r, today, t)) =>
          daily'[v][today][t] = daily[v][today][t]
  BY <1>1, <1>3, OtherSlots
<1>5. TodayTasks \subseteq DayRow /\ TodayTasks' \subseteq DayRow
  BY DEF TodayTasks, DayRow
<1>6. CASE ~Completes(r, today, s)
  <2>1. \A t \in Slots : ~Completes(r, today, t)
    BY <1>6 DEF Completes
  <2>2. ASSUME NEW t \in DayRow
        PROVE  t \in TodayTasks' <=> t \in TodayTasks
    BY <1>1, <1>4, <2>1, RowsStay DEF DayRow
  <2>3. TodayTasks' = TodayTasks
    BY <1>5, <2>2
  <2> QED  BY <1>2, <2>3 DEF Day!Answer
<1>7. CASE Completes(r, today, s)
  <2> DEFINE open == Day!Task(u, s, q, FALSE)
             done == Day!Task(u, s, q, TRUE)
  <2>1. s \in Slots
    BY <1>7 DEF Completes, IInv, TypeOK
  <2>2. /\ daily[u][today][s] \in TaskRow
        /\ daily[u][today][s].question = q /\ daily[u][today][s].attempt = NULL
        /\ OwnView(r)[today][s] = [question |-> q, attempt |-> r]
        /\ OwnView(r)[today][s] \in TaskRow
    BY <1>1, <1>7, <2>1, CompletedSlot
  <2>3. daily'[u][today][s] = [question |-> q, attempt |-> r]
    BY <1>1, <1>3, <2>1, <2>2
  <2>4. r # NULL
    BY TablesAssumption
  <2> HIDE DEF u, q, s
  <2>5. ASSUME NEW t \in DayRow, ~(t.user = u /\ t.slot = s)
        PROVE  t \in TodayTasks' <=> t \in TodayTasks
    <3>1. t.user \in Users /\ t.slot \in Slots
      BY DEF DayRow
    <3>2. daily'[t.user][today][t.slot] = daily[t.user][today][t.slot]
      BY <1>4, <2>5, <3>1 DEF Completes, s
    <3> QED  BY <1>1, <3>2, RowsStay
  <2>6. ASSUME NEW t \in DayRow, t.user = u, t.slot = s
        PROVE  t \in TodayTasks <=> t = open
    <3>1. u \in Users /\ q \in Questions
      BY <1>1 DEF u, q
    <3>2. daily[u][today][s] # NULL
      BY <2>2, TablesAssumption
    <3>3. t \in TodayTasks <=> q = t.question /\ ~t.done
      BY <2>2, <2>6, <3>2 DEF TodayTasks, DayRow
    <3>4. t = open <=> t.user = u /\ t.slot = s /\ t.question = q /\ ~t.done
      BY <2>1, <3>1 DEF DayRow, Day!Task
    <3> QED  BY <2>6, <3>3, <3>4
  <2>7. ASSUME NEW t \in DayRow, t.user = u, t.slot = s
        PROVE  t \in TodayTasks' <=> t = done
    <3>1. [question |-> q, attempt |-> r] # NULL
      BY <2>2, TablesAssumption
    <3>2. t \in TodayTasks' <=> q = t.question /\ t.done
      BY <1>1, <2>3, <2>4, <2>7, <3>1 DEF TodayTasks, DayRow
    <3>3. u \in Users /\ q \in Questions
      BY <1>1 DEF u, q
    <3>4. t = done <=> t.user = u /\ t.slot = s /\ t.question = q /\ t.done
      BY <2>1, <3>3 DEF DayRow, Day!Task
    <3> QED  BY <2>7, <3>2, <3>4
  <2>8. /\ open \in DayRow /\ open.user = u /\ open.slot = s
        /\ done \in DayRow /\ done.user = u /\ done.slot = s
    BY <1>1, <2>1 DEF DayRow, Day!Task
  <2> HIDE DEF open, done
  <2>9. open \in TodayTasks /\ TodayTasks' = (TodayTasks \ {open}) \union {done}
    BY <1>5, <2>5, <2>6, <2>7, <2>8
  <2> QED  BY <1>2, <2>1, <2>9 DEF Day!Answer, open, done, u, q, s
<1> QED  BY <1>6, <1>7

\* A new day has no tasks yet: none is assigned to a day still to come.
LEMMA MidnightIsNewDay ==
    ASSUME TypeOK, DaysCome, NextDay
    PROVE  Day!NewDay
<1>1. /\ today' = today + 1 /\ today \in Int /\ today' \in Days
      /\ daily' = daily /\ attempt' = attempt
  BY TablesAssumption DEF TypeOK, NextDay, tables, Days
<1>2. \A u \in Users, s \in Slots : daily[u][today'][s] = NULL
  BY <1>1 DEF DaysCome
<1>3. TodayTasks' = {}
  BY <1>1, <1>2 DEF TodayTasks
<1> QED  BY <1>1, <1>3 DEF Day!NewDay

\* Every step of AttemptTx is a step of LearnerDay, or none.
LEMMA DayNext ==
    ASSUME IInv, Provenance, [Next]_vars
    PROVE  [Day!Next]_(Day!vars)
<1>1. ASSUME NEW r \in Requests, Commit(r)
      PROVE  Day!Next
  <2>1. Day!Answer(req[r].user, req[r].question)
    BY <1>1, CommitIsAnswer
  <2>2. req[r].user \in Users /\ req[r].question \in Questions
    BY <1>1, CommitDaily DEF AttemptRow
  <2>3. \E u \in Users, q \in Questions : Day!Answer(u, q)
    BY <2>1, <2>2 DEF Day!Answer
  <2> QED  BY <2>3 DEF Day!Next
<1>2. ASSUME NEW u \in Users, NEW s \in Slots, NEW q \in Questions, AssignTask(u, s, q)
      PROVE  Day!Next
  BY <1>2, AssignIsAssign DEF Day!Next, IInv
<1>3. CASE NextDay
  BY <1>3, MidnightIsNewDay DEF Day!Next, IInv, Provenance
<1>4. CASE UNCHANGED <<today, daily, attempt>>
  BY <1>4 DEF Day!vars, TodayTasks
<1>5. \/ \E r \in Requests : Commit(r)
      \/ \E u \in Users, s \in Slots, q \in Questions : AssignTask(u, s, q)
      \/ NextDay
      \/ UNCHANGED <<today, daily, attempt>>
  BY DEF Next, Step, Environment, vars, tables, Submit, Begin, UpsertStat, UpsertSrs,
         SrsOverflow, CompleteTask, SnapProgress, UpdateProgress, ProgressMissing, Fail,
         Rollback, Finish, PatchLanguage
<1> QED  BY <1>1, <1>2, <1>3, <1>4, <1>5

\* What the transactions do to the tasks of today, however they interleave, is what
\* LearnerDay says: an answer completes an open task of today that asks its question, or
\* none, and only an assignment and midnight change the list otherwise.  HomeTasks, which
\* takes answers in one step, is shown to implement the same (attempt.go:78-87, home.go:31).
THEOREM TransactionsAreLearnerDay == Spec => DaySpec
<1>1. Init => Day!Init
  BY TablesAssumption DEF Init, Day!Init, TodayTasks, Days
<1>2. IInv /\ Provenance /\ [Next]_vars => [Day!Next]_(Day!vars)
  BY DayNext
<1> QED  BY <1>1, <1>2, Grounded, PTL DEF Spec, DaySpec, Day!Spec

-----------------------------------------------------------------------------
\* A task completed by an attempt.
CompletedBy(task, a) == [task EXCEPT !.attempt = a.id]

\* What completing a task leaves in each slot.
LEMMA CompletingAt ==
    ASSUME NEW tasks \in UserTasks, NEW day \in Days, NEW s \in Slots \union {NoSlot},
           NEW a \in AttemptRow, NEW d \in Days, NEW t \in Slots
    PROVE  Completing(tasks, day, s, a)[d][t] =
               IF s # NoSlot /\ d = day /\ t = s THEN CompletedBy(tasks[d][t], a)
               ELSE tasks[d][t]
<1>1. CASE s = NoSlot
  BY <1>1 DEF Completing
<1>2. CASE s # NoSlot
  <2> DEFINE row == [tasks[day][s] EXCEPT !.attempt = a.id]
  <2>1. Completing(tasks, day, s, a) = [tasks EXCEPT ![day] = [tasks[day] EXCEPT ![s] = row]]
    BY <1>2 DEF Completing
  <2>2. d = day /\ t = s => row = CompletedBy(tasks[d][t], a)
    BY DEF CompletedBy
  <2> HIDE DEF row
  <2>3. Completing(tasks, day, s, a)[d][t] = IF d = day /\ t = s THEN row ELSE tasks[d][t]
    BY <1>2, <2>1 DEF UserTasks
  <2> QED  BY <1>2, <2>2, <2>3
<1> QED  BY <1>1, <1>2

\* It takes nothing from other slots.
LEMMA CompletingAlike ==
    ASSUME NEW x \in UserTasks, NEW y \in UserTasks, NEW day \in Days,
           NEW s \in Slots \union {NoSlot}, NEW a \in AttemptRow,
           NEW d \in Days, NEW t \in Slots, x[d][t] = y[d][t]
    PROVE  Completing(x, day, s, a)[d][t] = Completing(y, day, s, a)[d][t]
BY CompletingAt

\* A task more, still open, completes no day.
LEMMA NewTaskOpen ==
    ASSUME NEW tasks \in UserTasks, NEW after \in UserTasks,
           NEW day \in Days, NEW s \in Slots,
           after[day][s] # NULL, after[day][s].attempt = NULL,
           \A d \in Days, t \in Slots : ~(d = day /\ t = s) => after[d][t] = tasks[d][t]
    PROVE  CompletedDays(after) \subseteq CompletedDays(tasks)
<1>1. ASSUME NEW d \in CompletedDays(after)
      PROVE  d \in CompletedDays(tasks)
  <2>1. d \in Days /\ d # day
    BY <1>1 DEF CompletedDays
  <2>2. \A t \in Slots : after[d][t] = tasks[d][t]
    BY <2>1
  <2> QED  BY <1>1, <2>1, <2>2 DEF CompletedDays
<1> QED  BY <1>1

\* A task assigned completes no day, neither for its user nor, in a transaction of that
\* user's, for what it sees.
LEMMA AssignCompletesNone ==
    ASSUME IInv, NEW u \in Users, NEW s \in Slots, NEW q \in Questions, AssignTask(u, s, q),
           NEW v \in Users, NEW day \in Days, NEW t \in Slots \union {NoSlot},
           NEW a \in AttemptRow, t # NoSlot => daily[v][day][t] \in TaskRow
    PROVE  CompletedDays(Completing(daily'[v], day, t, a)) \subseteq
               CompletedDays(Completing(daily[v], day, t, a))
<1> DEFINE task == [question |-> q, attempt |-> NULL]
           before == Completing(daily[v], day, t, a)
           after  == Completing(daily'[v], day, t, a)
<1>1. daily[v] \in UserTasks /\ daily'[v] \in UserTasks /\ today \in Days
  <2>1. IInv'
    BY NextInv DEF Next, Environment
  <2> QED  BY <2>1 DEF IInv, TypeOK, UserTasks
<1>2. CASE v # u
  BY <1>2 DEF AssignTask, IInv, TypeOK
<1>3. CASE v = u
  <2>0. /\ day \in Days /\ t \in Slots \union {NoSlot} /\ a \in AttemptRow
        /\ before \in UserTasks /\ after \in UserTasks
    <3>1. t # NoSlot => daily[v][day][t] \in TaskRow /\ daily'[v][day][t] \in TaskRow
      <4>1. t # NoSlot => daily[v][day][t] # NULL /\ daily'[v][day][t] # NULL
        BY TasksKept, TablesAssumption DEF Next, Environment
      <4> QED  BY <1>1, <4>1 DEF UserTasks
    <3>2. before \in UserTasks
      BY ONLY <1>1, <3>1, CompletingType, day \in Days, t \in Slots \union {NoSlot},
              a \in AttemptRow
    <3>3. after \in UserTasks
      BY ONLY <1>1, <3>1, CompletingType, day \in Days, t \in Slots \union {NoSlot},
              a \in AttemptRow
    <3> QED  BY <3>2, <3>3
  <2>1. /\ daily'[v][today][s] = task
        /\ daily[v][today][s] = NULL
        /\ \A d \in Days, w \in Slots : ~(d = today /\ w = s) => daily'[v][d][w] = daily[v][d][w]
    BY <1>1, <1>3 DEF AssignTask, IInv, TypeOK
  <2>2. ~(t # NoSlot /\ today = day /\ s = t)
    BY <2>1, TablesAssumption
  <2>3. after[today][s] = task
    <3>1. after[today][s] = IF t # NoSlot /\ today = day /\ s = t
                            THEN CompletedBy(daily'[v][today][s], a)
                            ELSE daily'[v][today][s]
      BY <1>1, CompletingAt
    <3> QED  BY <2>1, <2>2, <3>1
  <2>4. task # NULL /\ task.attempt = NULL
    BY TablesAssumption DEF TaskRow
  <2>5. ASSUME NEW d \in Days, NEW w \in Slots, ~(d = today /\ w = s)
        PROVE  after[d][w] = before[d][w]
    <3>1. daily'[v][d][w] = daily[v][d][w]
      BY <2>1, <2>5
    <3> QED  BY ONLY <1>1, <2>0, <3>1, CompletingAlike, d \in Days, w \in Slots
  <2> HIDE DEF after, before, task
  <2>6. after[today][s] # NULL /\ after[today][s].attempt = NULL
    BY <2>3, <2>4
  <2>7. \A d \in Days, w \in Slots : ~(d = today /\ w = s) => after[d][w] = before[d][w]
    BY <2>5
  <2>8. CompletedDays(after) \subseteq CompletedDays(before)
    BY ONLY <1>1, <2>0, <2>6, <2>7, NewTaskOpen, s \in Slots
  <2> QED  BY <2>8 DEF after, before
<1> QED  BY <1>2, <1>3

\* The same of the committed tasks alone.
LEMMA AssignUncredits ==
    ASSUME IInv, NEW u \in Users, NEW s \in Slots, NEW q \in Questions, AssignTask(u, s, q),
           NEW v \in Users
    PROVE  CompletedDays(daily'[v]) \subseteq CompletedDays(daily[v])
<1>1. daily[v] \in UserTasks /\ daily'[v] \in UserTasks /\ today \in Days
  <2>1. IInv'
    BY NextInv DEF Next, Environment
  <2> QED  BY <2>1 DEF IInv, TypeOK, UserTasks
<1>2. CASE v # u
  BY <1>2 DEF AssignTask, IInv, TypeOK
<1>3. CASE v = u
  <2>1. /\ daily'[v][today][s] = [question |-> q, attempt |-> NULL]
        /\ \A d \in Days, w \in Slots : ~(d = today /\ w = s) => daily'[v][d][w] = daily[v][d][w]
    BY <1>1, <1>3 DEF AssignTask, IInv, TypeOK
  <2>2. daily'[v][today][s] # NULL /\ daily'[v][today][s].attempt = NULL
    BY <2>1, TablesAssumption DEF TaskRow
  <2> QED  BY ONLY <1>1, <2>1, <2>2, NewTaskOpen, s \in Slots
<1> QED  BY <1>2, <1>3

-----------------------------------------------------------------------------
\* OneAtATime is preserved: pool.Begin waits for the connection.
LEMMA OneAtATimeStep ==
    ASSUME PoolSize = 1, IInv, OneAtATime, [Next]_vars
    PROVE  OneAtATime'
<1> USE DEF IInv
<1>1. ASSUME NEW r \in Requests, Begin(r)
      PROVE  OneAtATime'
  <2>1. InTx = {}
    <3>1. IsFiniteSet(InTx)
      BY TablesAssumption, FS_Subset DEF InTx
    <3>2. Cardinality(InTx) = 0
      BY <1>1, <3>1, FS_CardinalityType DEF Begin
    <3> QED  BY <3>1, <3>2, FS_EmptySet
  <2>2. InTx' \subseteq {r}
    BY <1>1, <2>1 DEF Begin, Advance, InTx, TypeOK
  <2> QED  BY <2>2 DEF OneAtATime
<1>2. ASSUME ~(\E r \in Requests : Begin(r))
      PROVE  InTx' \subseteq InTx
  <2>1. ASSUME NEW r \in Requests, r \in InTx'
        PROVE  r \in InTx
    <3>1. pc'[r] \in AfterStat \union {"inserted"} /\ pc \in [Requests -> Phases]
      BY <2>1 DEF InTx, TypeOK
    <3>2. ASSUME NEW u \in Users, NEW q \in Questions, NEW correct \in BOOLEAN,
                 Submit(r, u, q, correct)
          PROVE  FALSE
      BY <3>1, <3>2 DEF Submit, Advance, AfterStat
    <3>3. CASE Step(r)
      BY <1>2, <3>1, <3>3 DEF Step, UpsertStat, UpsertSrs, SrsOverflow, CompleteTask, SnapProgress,
              UpdateProgress, ProgressMissing, Commit, Rollback, Advance, InTx, AfterStat
    <3>4. CASE Fail(r)
      BY <3>1, <3>4 DEF Fail, Rollback, AfterStat
    <3>5. CASE Keeps(r)
      BY <3>1, <3>5 DEF Keeps, InTx
    <3> QED  BY <3>2, <3>3, <3>4, <3>5, OwnStepOrNone
  <2> QED  BY <2>1 DEF InTx
<1>3. ASSUME ~(\E r \in Requests : Begin(r))
      PROVE  OneAtATime'
  BY <1>2, <1>3 DEF OneAtATime
<1> QED  BY <1>1, <1>3

\* CreditPending is preserved: no other transaction completes the learner's tasks
\* meanwhile, and a task assigned meanwhile only makes a day less complete.
LEMMA CreditPendingStep ==
    ASSUME IInv, SnapshotsFresh, CreditPending, [Next]_vars
    PROVE  CreditPending'
<1> SUFFICES ASSUME NEW r \in Requests, pc'[r] \in {"snapped", "updated"},
                    NEW d \in CompletedDays(OwnView(r)')
             PROVE  d <= pProg'[r].last
  BY DEF CreditPending
<1>0. TypeOK
  BY DEF IInv
<1>1. ASSUME NEW u \in Users, NEW q \in Questions, NEW correct \in BOOLEAN,
             Submit(r, u, q, correct)
      PROVE  FALSE
  BY <1>0, <1>1 DEF Submit, Advance, TypeOK
<1>2. CASE Step(r)
  <2>1. CASE SnapProgress(r)
    <3>1. OwnView(r)' = OwnView(r) /\ txDay' = txDay
      BY <2>1 DEF SnapProgress, OwnView, tables
    <3> DEFINE days == CompletedDays(OwnView(r))
    <3>2. pProg'[r].last = LastStudiedOn(days)
      BY <1>0, <2>1 DEF SnapProgress, TypeOK
    <3>3. d \in days
      BY <3>1
    <3>4. days \in SUBSET Int /\ IsFiniteSet(days)
      <4>1. IsFiniteSet(Days) /\ Days \subseteq Int
        BY TablesAssumption, FS_Interval DEF Days
      <4>2. days \subseteq Days
        BY DEF CompletedDays
      <4> HIDE DEF days
      <4> QED  BY <4>1, <4>2, FS_Subset
    <3> HIDE DEF days
    <3> QED  BY <3>2, <3>3, <3>4, MaxExists DEF LastStudiedOn
  <2>2. CASE UpdateProgress(r)
    <3>1. OwnView(r)' = OwnView(r)
      BY <2>2 DEF UpdateProgress, OwnView, tables
    <3>2. pProg'[r].last = pProg[r].last
      BY <1>0, <2>2 DEF UpdateProgress, TypeOK, ProgressRow
    <3> QED  BY <1>0, <2>2, <3>1, <3>2 DEF UpdateProgress, Advance, CreditPending
  <2> QED  BY <1>0, <1>2, <2>1, <2>2
           DEF Step, Begin, UpsertStat, UpsertSrs, SrsOverflow, CompleteTask, ProgressMissing,
               Commit, Rollback, Advance, TypeOK
<1>3. CASE Fail(r)
  BY <1>0, <1>3 DEF Fail, Rollback, TypeOK
<1>4. CASE Keeps(r)
  <2>1. /\ pc[r] \in {"snapped", "updated"} /\ pProg'[r] = pProg[r]
        /\ OwnView(r)' = Completing(daily'[req[r].user], txDay[r], pSlot[r], req[r])
    BY <1>4 DEF Keeps, OwnView
  <2>2. /\ req[r] \in AttemptRow /\ req[r].user \in Users /\ txDay[r] \in Days
        /\ pSlot[r] \in Slots \union {NoSlot}
        /\ pSlot[r] # NoSlot => daily[req[r].user][txDay[r]][pSlot[r]] \in TaskRow
    BY <2>1 DEF IInv, TypeOK, AttemptRow, SlotPending
  <2>3. ASSUME NEW t \in Requests, Commit(t)
        PROVE  OwnView(r)' = OwnView(r)
    <3>1. pc[t] = "updated" /\ r # t
      BY <1>0, <1>4, <2>3 DEF Commit, Advance, Keeps, TypeOK
    <3>2. req[r].user # req[t].user
      BY <2>1, <3>1 DEF SnapshotsFresh, IInv, LocksExclusive
    <3>3. daily' = [daily EXCEPT ![req[t].user] = OwnView(t)]
      BY <2>3, CommitDaily
    <3>4. daily'[req[r].user] = daily[req[r].user]
      BY <1>0, <2>2, <3>2, <3>3 DEF TypeOK
    <3> QED  BY <2>1, <3>4 DEF OwnView
  <2>4. ASSUME NEW u \in Users, NEW s \in Slots, NEW q \in Questions, AssignTask(u, s, q)
        PROVE  CompletedDays(OwnView(r)') \subseteq CompletedDays(OwnView(r))
    BY <2>1, <2>2, <2>4, AssignCompletesNone DEF OwnView
  <2>5. UNCHANGED tables => OwnView(r)' = OwnView(r)
    BY <2>1 DEF OwnView, tables
  <2>6. CompletedDays(OwnView(r)') \subseteq CompletedDays(OwnView(r))
    BY <2>3, <2>4, <2>5, TableSteps
  <2> QED  BY <2>1, <2>6 DEF CreditPending
<1> QED  BY <1>0, <1>1, <1>2, <1>3, <1>4, OwnStepOrNone

\* Credited is preserved: a commit stores tasks and last_studied_on together.
LEMMA CreditedStep ==
    ASSUME IInv, CreditPending, Credited, [Next]_vars
    PROVE  Credited'
<1> SUFFICES ASSUME NEW u \in WithProgress, NEW d \in CompletedDays(daily'[u])
             PROVE  d <= progress'[u].last
  BY DEF Credited
<1>0. TypeOK /\ u \in Users
  BY TablesAssumption DEF IInv
<1>1. ASSUME NEW r \in Requests, Commit(r)
      PROVE  d <= progress'[u].last
  <2>1. daily' = [daily EXCEPT ![req[r].user] = OwnView(r)]
    BY <1>1, CommitDaily
  <2>2. progress' = [progress EXCEPT ![req[r].user] = pProg[r]] /\ pc[r] = "updated"
    BY <1>1 DEF Commit, Advance
  <2>3. CASE u = req[r].user
    BY <1>0, <2>1, <2>2, <2>3 DEF CreditPending, TypeOK
  <2>4. CASE u # req[r].user
    BY <1>0, <2>1, <2>2, <2>4 DEF Credited, TypeOK
  <2> QED  BY <2>3, <2>4
<1>2. ASSUME NEW v \in Users, NEW s \in Slots, NEW q \in Questions, AssignTask(v, s, q)
      PROVE  d <= progress'[u].last
  <2>1. d \in CompletedDays(daily[u])
    BY <1>0, <1>2, AssignUncredits
  <2> QED  BY <1>2, <2>1 DEF Credited, AssignTask
<1>3. CASE UNCHANGED tables
  BY <1>3 DEF Credited, tables
<1> QED  BY <1>1, <1>2, <1>3, TableSteps

\* Nobody is in a transaction and no day is completed.
LEMMA InitCredit == Init => CreditInv /\ OneAtATime
<1> SUFFICES ASSUME Init PROVE CreditInv /\ OneAtATime
  OBVIOUS
<1>1. InTx = {}
  BY DEF Init, InTx, AfterStat
<1>2. Credited
  <2>1. ASSUME NEW u \in WithProgress, NEW d \in CompletedDays(daily[u])
        PROVE  FALSE
    BY <2>1, TablesAssumption DEF Init, CompletedDays
  <2> QED  BY <2>1 DEF Credited
<1> QED  BY <1>1, <1>2 DEF CreditInv, OneAtATime, CreditPending, Init

\* Every completed day is credited to the streak, whatever the size of the pool, unless an
\* answer waits for its learner's progress row with its snapshot already taken: the days
\* uncredited that the run with two connections finds have this cause and no other
\* (attempt.go:90-125).
THEOREM FreshSnapshotsCredit == Spec /\ []SnapshotsFresh => []DayCredited
<1>1. IInv /\ SnapshotsFresh /\ CreditInv /\ [Next]_vars => CreditInv'
  BY CreditPendingStep, CreditedStep DEF CreditInv
<1>2. IInv /\ CreditInv => DayCredited
  <2> SUFFICES ASSUME IInv, CreditInv, NEW u \in WithProgress, NEW d \in CompletedDays(daily[u])
               PROVE  progress[u].last >= d
    BY DEF DayCredited
  <2>1. d <= progress[u].last
    BY DEF CreditInv, Credited
  <2>2. d \in Int /\ progress[u].last \in Int
    BY TablesAssumption DEF CompletedDays, IInv, TypeOK, ProgressRow, Days, NoDay
  <2> QED  BY <2>1, <2>2
<1>3. Init => CreditInv
  BY InitCredit
<1> QED  BY <1>1, <1>2, <1>3, Inductive, PTL DEF Spec

\* With a pool of one connection there is no other transaction to wait for, so every
\* completed day is credited.
THEOREM SerialCredits ==
    ASSUME PoolSize = 1
    PROVE  Spec => []DayCredited
<1>1. IInv /\ OneAtATime /\ [Next]_vars => OneAtATime'
  BY OneAtATimeStep
<1>2. OneAtATime => SnapshotsFresh
  <2> SUFFICES ASSUME OneAtATime, NEW r \in Requests, NEW t \in Requests,
                      pc[r] = "snapped", pc[t] = "updated"
               PROVE  FALSE
    BY DEF SnapshotsFresh
  <2> QED  BY DEF OneAtATime, InTx, AfterStat
<1>3. Init => OneAtATime
  BY InitCredit
<1>4. Spec => []SnapshotsFresh
  BY <1>1, <1>2, <1>3, Inductive, PTL DEF Spec
<1> QED  BY <1>4, FreshSnapshotsCredit, PTL

\* With questions of one category only, the answers of a learner already wait for each
\* other at the user_type_stat row, before any snapshot: every completed day is credited
\* whatever the size of the pool.  Only the second category of question lets two answers of
\* one learner overlap where it matters (attempt.go:38-50, 90-125).
THEOREM OneCategoryCredits ==
    ASSUME \A c, e \in Categories : c = e
    PROVE  Spec => []DayCredited
<1>1. IInv => SnapshotsFresh
  <2> SUFFICES ASSUME IInv, NEW r \in Requests, NEW t \in Requests,
                      pc[r] = "snapped", pc[t] = "updated", req[r].user = req[t].user
               PROVE  FALSE
    BY DEF SnapshotsFresh
  <2>1. pc[r] \in AfterStat /\ pc[t] \in AfterStat
    BY DEF AfterStat
  <2>2. req[r] \in AttemptRow /\ req[t] \in AttemptRow
    BY DEF IInv, TypeOK
  <2>3. req[r].category = req[t].category
    BY <2>2 DEF AttemptRow
  <2> QED  BY <2>1, <2>3 DEF IInv, LocksExclusive
<1>2. Spec => []SnapshotsFresh
  BY <1>1, Inductive, PTL
<1> QED  BY <1>2, FreshSnapshotsCredit, PTL

-----------------------------------------------------------------------------
\* Waiting for each other.  Transaction t has updated this row of daily_task.
HoldsTask(t, u, d, s) ==
    pSlot[t] # NoSlot /\ pSlot[t] = s /\ req[t].user = u /\ txDay[t] = d

\* A transaction about to complete a task finds the rows it may update unlocked, which
\* is why CompleteTask has no wait in it.
TaskRowsFree ==
    \A r \in Requests : pc[r] = "scheduled" =>
        LET u == req[r].user
        IN  \A t \in Requests \ {r},
               s \in OpenSlots(daily[u][txDay[r]], req[r].question) :
                   ~HoldsTask(t, u, txDay[r], s)

\* No task is completed by two transactions at once.
TaskRowsApart ==
    \A r, t \in Requests : r # t /\ pSlot[r] # NoSlot =>
        ~HoldsTask(t, req[r].user, txDay[r], pSlot[r])

\* The statement of r that comes next waits for a connection or a row of another's.
Waits(r) ==
    \/ pc[r] = "graded" /\ Cardinality(InTx) >= PoolSize
    \/ pc[r] = "inserted" /\ ~StatFree(r)
    \/ pc[r] = "counted" /\ ~SrsFree(r)
    \/ pc[r] = "snapped" /\ ~ProgressFree(r)

Pending == {r \in Requests : pc[r] = "graded"} \union InTx

\* Not everyone who has yet to be answered is waiting.
NobodyStuck == Pending # {} => \E r \in Pending : ~Waits(r)

\* A transaction with a task in hand holds the schedule of the question it asks.
LEMMA TaskOwners ==
    ASSUME IInv, NEW r \in Requests, pc[r] \in AfterSrs, NEW t \in Requests \ {r},
           NEW s, HoldsTask(t, req[r].user, txDay[r], s),
           daily[req[r].user][txDay[r]][s].question = req[r].question
    PROVE  FALSE
<1>1. pc[t] \in AfterSrs /\ req[t].question = req[r].question /\ req[t].user = req[r].user
  BY DEF IInv, SlotPending, HoldsTask
<1> QED  BY <1>1 DEF IInv, LocksExclusive

\* Two answers never contend for a row of daily_task: the slot that one may complete asks
\* the question whose srs_state row it holds, so any other that could have it locked is
\* still waiting for that row.  The UPDATE between the two upserts that do wait adds no
\* edge to the order in which transactions wait for each other (attempt.go:53-87).
THEOREM TasksNeedNoLock == Spec => [](TaskRowsFree /\ TaskRowsApart)
<1>1. IInv => TaskRowsFree
  <2> SUFFICES ASSUME IInv, NEW r \in Requests, pc[r] = "scheduled",
                      NEW t \in Requests \ {r},
                      NEW s \in OpenSlots(daily[req[r].user][txDay[r]], req[r].question),
                      HoldsTask(t, req[r].user, txDay[r], s)
               PROVE  FALSE
    BY DEF TaskRowsFree
  <2>1. pc[r] \in AfterSrs
    BY DEF AfterSrs, AfterStat
  <2>2. daily[req[r].user][txDay[r]][s].question = req[r].question
    BY DEF OpenSlots
  <2> QED  BY <2>1, <2>2, TaskOwners
<1>2. IInv => TaskRowsApart
  <2> SUFFICES ASSUME IInv, NEW r \in Requests, NEW t \in Requests, r # t,
                      pSlot[r] # NoSlot, HoldsTask(t, req[r].user, txDay[r], pSlot[r])
               PROVE  FALSE
    BY DEF TaskRowsApart
  <2>1. /\ pc[r] \in AfterSrs
        /\ daily[req[r].user][txDay[r]][pSlot[r]].question = req[r].question
    BY DEF IInv, SlotPending
  <2> QED  BY <2>1, TaskOwners
<1> QED  BY <1>1, <1>2, Inductive, PTL

\* Whoever holds what a statement waits for is at a later statement: the rows are always
\* taken in the order stat, srs, progress, after the connection.  So however many answers
\* share rows, and however small the pool, one of those still to be answered does not wait:
\* the safety half of Terminates, for any number of answers (attempt.go:14-125).
THEOREM SomeAnswerGoesOn == Spec => []NobodyStuck
<1>1. TypeOK => NobodyStuck
  <2> SUFFICES ASSUME TypeOK, Pending # {}
               PROVE  \E r \in Pending : ~Waits(r)
    BY DEF NobodyStuck
  <2>1. CASE \E r \in InTx : pc[r] \in {"scheduled", "tasked", "updated"}
    BY <2>1 DEF Waits, Pending
  <2>2. CASE /\ \A r \in InTx : pc[r] \notin {"scheduled", "tasked", "updated"}
             /\ \E r \in InTx : pc[r] = "snapped"
    <3>1. \A r \in Requests : ProgressFree(r)
      BY <2>2 DEF ProgressFree, HoldsProgress, InTx, AfterStat
    <3> QED  BY <2>2, <3>1 DEF Waits, Pending, InTx
  <2>3. CASE /\ \A r \in InTx : pc[r] \in {"inserted", "counted"}
             /\ \E r \in InTx : pc[r] = "counted"
    <3>1. \A r \in Requests : SrsFree(r)
      BY <2>3 DEF SrsFree, HoldsSrs, InTx, AfterSrs, AfterStat
    <3> QED  BY <2>3, <3>1 DEF Waits, Pending, InTx
  <2>4. CASE InTx # {} /\ \A r \in InTx : pc[r] = "inserted"
    <3>1. \A r \in Requests : StatFree(r)
      BY <2>4 DEF StatFree, HoldsStat, InTx, AfterStat
    <3> QED  BY <2>4, <3>1 DEF Waits, Pending, InTx
  <2>5. CASE InTx = {}
    <3>1. Cardinality(InTx) = 0
      BY <2>5, FS_EmptySet
    <3> QED  BY <2>5, <3>1, PoolAssumption DEF Waits, Pending
  <2>6. \A r \in InTx : pc[r] \in {"inserted", "counted", "scheduled", "tasked",
                                   "snapped", "updated"}
    BY DEF InTx, AfterStat
  <2> QED  BY <2>1, <2>2, <2>3, <2>4, <2>5, <2>6
<1> QED  BY <1>1, TypeCorrect, PTL

-----------------------------------------------------------------------------
\* A set of naturals up to a bound has a least element.
LEMMA MinExists ==
    ASSUME NEW n \in Nat, NEW S \in SUBSET (0 .. n), S # {}
    PROVE  \E m \in S : \A e \in S : m <= e
<1> DEFINE T == {-e : e \in S}
<1>1. IsFiniteSet(T)
  <2>1. IsFiniteSet(-n .. 0)
    BY FS_Interval
  <2>2. T \subseteq -n .. 0
    OBVIOUS
  <2> HIDE DEF T
  <2> QED  BY <2>1, <2>2, FS_Subset
<1>2. T \in SUBSET Int /\ T # {}
  <2>1. PICK e \in S : TRUE
    OBVIOUS
  <2>2. -e \in T
    BY <2>1
  <2>3. \A x \in S : -x \in Int
    OBVIOUS
  <2> QED  BY <2>2, <2>3
<1>3. PICK t \in T : \A e \in T : e <= t
  BY <1>1, <1>2, MaxExists
<1>4. PICK m \in S : t = -m
  BY <1>3
<1>5. ASSUME NEW e \in S
      PROVE  m <= e
  <2>1. -e \in T
    OBVIOUS
  <2>2. e \in Int /\ m \in Int /\ -e <= -m
    BY <1>3, <1>4, <2>1
  <2> QED  BY <2>2
<1> QED  BY <1>5

\* g is the intervals of the first n repetitions.
IntervalsUpTo(g, n) ==
    g = [m \in 0 .. n |-> IF m = 0 THEN 0 ELSE NextInterval(g[m - 1])]

\* They exist for every n: a least n without them would follow one that has them.
LEMMA IntervalsExist ==
    ASSUME NEW n \in Nat
    PROVE  \E g : IntervalsUpTo(g, n)
<1> DEFINE bad == {k \in 0 .. n : ~ \E g : IntervalsUpTo(g, k)}
<1>1. SUFFICES ASSUME bad # {} PROVE FALSE
  OBVIOUS
<1>2. bad \in SUBSET (0 .. n)
  OBVIOUS
<1>3. PICK b \in bad : \A k \in bad : b <= k
  <2> HIDE DEF bad
  <2> QED  BY <1>1, <1>2, MinExists
<1>4. b \in 0 .. n /\ ~ \E g : IntervalsUpTo(g, b)
  OBVIOUS
<1>5. CASE b = 0
  <2> DEFINE h == [m \in 0 .. 0 |-> 0]
  <2>1. h = [m \in 0 .. 0 |-> IF m = 0 THEN 0 ELSE NextInterval(h[m - 1])]
    OBVIOUS
  <2> HIDE DEF h
  <2> QED  BY <1>4, <1>5, <2>1 DEF IntervalsUpTo
<1>6. CASE b # 0
  <2>1. b - 1 \in 0 .. n /\ b - 1 \notin bad
    BY <1>3, <1>4, <1>6
  <2>2. PICK g : IntervalsUpTo(g, b - 1)
    BY <2>1
  <2> DEFINE h == [m \in 0 .. b |-> IF m < b THEN g[m] ELSE NextInterval(g[b - 1])]
  <2>3. \A m \in 0 .. b - 1 : g[m] = IF m = 0 THEN 0 ELSE NextInterval(g[m - 1])
    BY <2>2 DEF IntervalsUpTo
  <2>4. \A m \in 0 .. b - 1 : h[m] = g[m]
    BY <1>4
  <2>5. h[b] = NextInterval(g[b - 1])
    BY <1>4
  <2>6. DOMAIN h = 0 .. b /\ h = [m \in 0 .. b |-> h[m]]
    OBVIOUS
  <2> HIDE DEF h
  <2>7. ASSUME NEW m \in 0 .. b
        PROVE  h[m] = IF m = 0 THEN 0 ELSE NextInterval(h[m - 1])
    <3>1. CASE m = b
      <4>1. b - 1 \in 0 .. b - 1
        BY <1>4, <1>6
      <4> QED  BY <1>6, <2>4, <2>5, <3>1, <4>1
    <3>2. CASE m # b
      <4>1. m \in 0 .. b - 1 /\ (m # 0 => m - 1 \in 0 .. b - 1)
        BY <1>4, <3>2
      <4> QED  BY <2>3, <2>4, <4>1
    <3> QED  BY <3>1, <3>2
  <2>8. IntervalsUpTo(h, b)
    BY <2>6, <2>7 DEF IntervalsUpTo
  <2> QED  BY <1>4, <2>8
<1> QED  BY <1>5, <1>6

\* IntervalAfter is what its recursive definition says.
LEMMA IntervalSteps ==
    /\ IntervalAfter[0] = 0
    /\ \A n \in 0 .. Cardinality(Requests) :
          IntervalAfter[n + 1] = NextInterval(IntervalAfter[n])
<1> DEFINE N == Cardinality(Requests) + 1
<1>1. N \in Nat
  BY TablesAssumption, FS_CardinalityType
<1>2. IntervalAfter = CHOOSE g : g = [n \in 0 .. N |-> IF n = 0 THEN 0 ELSE NextInterval(g[n - 1])]
  BY Zenon DEF IntervalAfter
<1>3. IntervalsUpTo(IntervalAfter, N)
  BY <1>1, <1>2, IntervalsExist DEF IntervalsUpTo
<1> HIDE DEF N
<1>4. \A n \in 0 .. N :
         IntervalAfter[n] = IF n = 0 THEN 0 ELSE NextInterval(IntervalAfter[n - 1])
  BY <1>3 DEF IntervalsUpTo
<1>5. 0 \in 0 .. N /\ \A n \in 0 .. N - 1 : n + 1 \in 0 .. N /\ n + 1 # 0 /\ (n + 1) - 1 = n
  BY <1>1
<1>6. ASSUME NEW n \in 0 .. N - 1
      PROVE  IntervalAfter[n + 1] = NextInterval(IntervalAfter[n])
  BY <1>4, <1>5
<1>7. N - 1 = Cardinality(Requests)
  BY TablesAssumption, FS_CardinalityType DEF N
<1> QED  BY <1>4, <1>5, <1>6, <1>7

-----------------------------------------------------------------------------
\* The right ones among some answers.
Right(mine) == {a \in mine : a.correct}

\* What SrsFollows says of one row, from the answers it stands for.
RowFollows(row, mine, now) ==
    IF mine = {} THEN row = NoSrs
    ELSE /\ row.due - row.interval \in 1 .. now
         /\ IF Right(mine) = mine
            THEN /\ row.repetitions = Cardinality(mine)
                 /\ row.interval = IntervalAfter[row.repetitions]
            ELSE /\ row.repetitions <= Cardinality(Right(mine))
                 /\ row.interval = IntervalAfter[row.repetitions + 1]

\* SrsFollows, row by row.
LEMMA SameFollows ==
    SrsFollows <=>
        \A u \in Users, q \in Questions :
            RowFollows(srs[u][q], {a \in AnswersOf(u) : a.question = q}, today)
BY DEF SrsFollows, RowFollows, Right

\* One answer more keeps a row in step with its answers.
LEMMA OneMoreReview ==
    ASSUME NEW mine, IsFiniteSet(mine), Cardinality(mine) < Cardinality(Requests),
           NEW a, a \notin mine, a.correct \in BOOLEAN,
           NEW row \in SrsRow, NEW now \in Nat, NEW day \in 1 .. now,
           RowFollows(row, mine, now)
    PROVE  RowFollows(Review(row, a.correct, day), mine \union {a}, now)
<1> DEFINE N     == Cardinality(Requests)
           more  == mine \union {a}
           n     == row.repetitions
           after == Review(row, a.correct, day)
           c     == Cardinality(mine)
           k     == Cardinality(Right(mine))
<1>1. /\ N \in Nat /\ c \in Nat /\ k \in Nat /\ k <= c /\ c < N
      /\ Right(mine) # mine => k < c
      /\ IsFiniteSet(Right(mine))
  <2>1. Right(mine) \subseteq mine
    BY DEF Right
  <2>2. IsFiniteSet(Right(mine)) /\ k <= c /\ (k = c => Right(mine) = mine)
    BY <2>1, FS_Subset
  <2>3. N \in Nat /\ c \in Nat /\ k \in Nat
    BY <2>2, TablesAssumption, FS_CardinalityType
  <2> QED  BY <2>2, <2>3
<1>2. IsFiniteSet(more) /\ Cardinality(more) = c + 1 /\ more # {}
  BY FS_AddElement
<1>3. n \in Nat /\ row.interval \in Nat
  BY SrsAssumption DEF SrsRow
<1>4. a.correct => Right(more) = Right(mine) \union {a} /\ a \notin Right(mine)
  BY DEF Right
<1>5. a.correct => Cardinality(Right(more)) = k + 1
  BY <1>1, <1>4, FS_AddElement
<1>6. ~a.correct => Right(more) = Right(mine) /\ Right(more) # more
  BY DEF Right
<1>7. a.correct => (Right(more) = more <=> Right(mine) = mine)
  BY DEF Right
<1>8. /\ a.correct => after.repetitions = n + 1 /\ after.interval = NextInterval(row.interval)
      /\ ~a.correct => after.repetitions = 0 /\ after.interval = 1
      /\ after.due - after.interval = day
  <2> DEFINE i == IF a.correct THEN NextInterval(row.interval) ELSE 1
  <2>1. i \in Int
    BY <1>3, NextIntervalType
  <2> HIDE DEF i
  <2>2. after = [interval |-> i, repetitions |-> IF a.correct THEN n + 1 ELSE 0,
                 due |-> day + i]
    BY DEF Review, i
  <2>3. after.interval = i /\ after.due - after.interval = day
    BY <2>1, <2>2
  <2> QED  BY <2>2, <2>3 DEF i
<1>9. /\ IntervalAfter[0] = 0
      /\ \A m \in 0 .. N : IntervalAfter[m + 1] = NextInterval(IntervalAfter[m])
  BY IntervalSteps
<1>10. IntervalAfter[0 + 1] = 1
  BY <1>1, <1>9 DEF NextInterval
<1>11. CASE ~a.correct
  <2> HIDE DEF N, more, n, after, c, k
  <2>1. after.repetitions <= Cardinality(Right(more)) /\ Right(more) # more
    BY <1>1, <1>6, <1>8, <1>11 DEF k
  <2>2. after.interval = IntervalAfter[after.repetitions + 1]
    BY <1>8, <1>10, <1>11
  <2>3. after.due - after.interval \in 1 .. now
    BY <1>8
  <2>4. RowFollows(after, more, now)
    BY <1>2, <2>1, <2>2, <2>3 DEF RowFollows
  <2> QED  BY <2>4 DEF after, more
<1>12. CASE a.correct /\ mine = {}
  <2>1. n = 0 /\ row.interval = 0 /\ c = 0 /\ Right(mine) = mine
    BY <1>12, FS_EmptySet DEF RowFollows, NoSrs, Right
  <2> HIDE DEF N, more, n, after, c, k
  <2>2. after.repetitions = 1 /\ after.interval = IntervalAfter[1] /\ Cardinality(more) = 1
    BY <1>1, <1>2, <1>8, <1>9, <1>12, <2>1
  <2> QED  BY <1>2, <1>7, <1>8, <1>12, <2>1, <2>2 DEF RowFollows, after, more
<1>13. CASE a.correct /\ mine # {}
  <2>1. /\ Right(mine) = mine => n = c /\ row.interval = IntervalAfter[n]
        /\ Right(mine) # mine => n <= k /\ row.interval = IntervalAfter[n + 1]
    BY <1>13 DEF RowFollows
  <2>2. n \in 0 .. N /\ (Right(mine) # mine => n + 1 \in 0 .. N)
    BY <1>1, <1>3, <2>1
  <2> HIDE DEF N, more, n, after, c, k
  <2>3. CASE Right(mine) = mine
    <3>1. after.repetitions = Cardinality(more) /\ after.interval = IntervalAfter[n + 1]
      BY <1>2, <1>8, <1>9, <1>13, <2>1, <2>2, <2>3
    <3> QED  BY <1>2, <1>7, <1>8, <1>13, <2>3, <3>1 DEF RowFollows, after, more
  <2>4. CASE Right(mine) # mine
    <3>1. after.repetitions = n + 1 /\ n + 1 <= Cardinality(Right(more))
      BY <1>1, <1>3, <1>5, <1>8, <1>13, <2>1, <2>4
    <3>2. after.interval = IntervalAfter[(n + 1) + 1]
      BY <1>8, <1>9, <1>13, <2>1, <2>2, <2>4
    <3> QED  BY <1>2, <1>7, <1>8, <1>13, <2>4, <3>1, <3>2 DEF RowFollows, after, more
  <2> QED  BY <2>3, <2>4
<1> QED  BY <1>11, <1>12, <1>13

-----------------------------------------------------------------------------
\* An attempt row is what its request recorded.
AttemptsOwn == \A a \in attempt : a = req[a.id]

\* AttemptsOwn is preserved: a request that is done stays as it is.
LEMMA AttemptsOwnStep ==
    ASSUME IInv, AttemptsOwn, [Next]_vars
    PROVE  AttemptsOwn'
<1>1. ASSUME NEW a \in attempt
      PROVE  a = req'[a.id]
  <2>1. a.id \in Requests /\ pc[a.id] = "done"
    BY DEF IInv, TypeOK, AttemptsDone, AttemptRow
  <2>2. Keeps(a.id)
    <3>1. ASSUME NEW u \in Users, NEW q \in Questions, NEW correct \in BOOLEAN
          PROVE  ~Submit(a.id, u, q, correct)
      BY <2>1 DEF Submit, Advance
    <3>2. ~Step(a.id) /\ ~Fail(a.id)
      BY <2>1 DEF Step, Begin, UpsertStat, UpsertSrs, SrsOverflow, CompleteTask, SnapProgress,
                  UpdateProgress, ProgressMissing, Commit, Fail, Advance, AfterStat
    <3> QED  BY <2>1, <3>1, <3>2, OwnStepOrNone DEF IInv
  <2> QED  BY <2>2 DEF Keeps, AttemptsOwn
<1>2. ASSUME NEW r \in Requests, Commit(r)
      PROVE  AttemptsOwn'
  <2>1. attempt' = attempt \union {req[r]} /\ req' = req /\ req[r].id = r
    BY <1>2, CommitDaily DEF Commit
  <2> QED  BY <1>1, <2>1 DEF AttemptsOwn
<1>3. ASSUME attempt' = attempt
      PROVE  AttemptsOwn'
  BY <1>1, <1>3 DEF AttemptsOwn
<1> QED  BY <1>2, <1>3, TableSteps DEF AssignTask, tables

\* A request writes one attempt at most.
LEMMA FewAttempts ==
    ASSUME IInv, AttemptsOwn
    PROVE  /\ IsFiniteSet(attempt)
           /\ \A S \in SUBSET attempt : \A r \in Requests :
                 (\A a \in S : a.id # r) => Cardinality(S) < Cardinality(Requests)
<1>1. IsFiniteSet(attempt)
  BY DEF IInv, AttemptsDone
<1>2. ASSUME NEW S \in SUBSET attempt, NEW r \in Requests, \A a \in S : a.id # r
      PROVE  Cardinality(S) < Cardinality(Requests)
  <2> DEFINE f == [a \in S |-> a.id]
  <2>1. f \in Injection(S, Requests \ {r})
    <3>1. f \in [S -> Requests \ {r}]
      BY <1>2 DEF IInv, TypeOK, AttemptRow
    <3>2. \A a, b \in S : f[a] = f[b] => a = b
      BY DEF AttemptsOwn
    <3> HIDE DEF f
    <3> QED  BY <3>1, <3>2 DEF Injection, IsInjective
  <2>2. IsFiniteSet(Requests \ {r}) /\ Cardinality(Requests \ {r}) = Cardinality(Requests) - 1
    BY TablesAssumption, FS_RemoveElement
  <2>3. Cardinality(S) <= Cardinality(Requests \ {r})
    BY <2>1, <2>2, FS_Injection
  <2>4. IsFiniteSet(S)
    BY <1>1, FS_Subset
  <2>5. Cardinality(S) \in Nat /\ Cardinality(Requests) \in Nat
    BY <2>4, TablesAssumption, FS_CardinalityType
  <2> QED  BY <2>2, <2>3, <2>5
<1> QED  BY <1>1, <1>2

-----------------------------------------------------------------------------
\* SrsFollows is preserved: only a commit touches a schedule, and by one review.
LEMMA SrsFollowsStep ==
    ASSUME IInv, Provenance, AttemptsOwn, SrsFollows, [Next]_vars
    PROVE  SrsFollows'
<1> DEFINE mine(u, q) == {a \in AnswersOf(u) : a.question = q}
<1>0. TypeOK /\ today \in Nat /\ today' \in Nat /\ today <= today'
  BY TodayGrows, TablesAssumption DEF IInv, Days
<1>1. \A u \in Users, q \in Questions : RowFollows(srs[u][q], mine(u, q), today)
  BY SameFollows
<1>2. \A u \in Users, q \in Questions : RowFollows(srs[u][q], mine(u, q), today')
  <2> SUFFICES ASSUME NEW u \in Users, NEW q \in Questions
               PROVE  RowFollows(srs[u][q], mine(u, q), today')
    OBVIOUS
  <2>1. RowFollows(srs[u][q], mine(u, q), today) /\ srs[u][q] \in SrsRow
    BY <1>0, <1>1 DEF TypeOK
  <2> HIDE DEF mine
  <2>2. \A n : n \in 1 .. today => n \in 1 .. today'
    BY <1>0
  <2> QED  BY <2>1, <2>2 DEF RowFollows
<1>3. ASSUME NEW r \in Requests, Commit(r), NEW u \in Users, NEW q \in Questions
      PROVE  RowFollows(srs'[u][q], mine(u, q)', today')
  <2>1. /\ req[r] \in AttemptRow /\ req[r].id = r /\ attempt' = attempt \union {req[r]}
        /\ pc[r] = "updated" /\ txDay[r] \in Days /\ txDay[r] <= today
    BY <1>3, CommitDaily DEF Commit, Advance, IInv, TypeOK, Provenance, DaysCome
  <2>2. srs' = [srs EXCEPT ![req[r].user][req[r].question] = pSrs[r]]
    BY <1>3 DEF Commit
  <2>3. req[r].user \in Users /\ req[r].question \in Questions /\ req[r].correct \in BOOLEAN
    BY <2>1 DEF AttemptRow
  <2>4. CASE u = req[r].user /\ q = req[r].question
    <3> DEFINE row == srs[u][q]
               a   == req[r]
    <3>1. mine(u, q)' = mine(u, q) \union {a}
      BY <2>1, <2>4 DEF AnswersOf
    <3>2. /\ ~Overflows(row, a.correct)
          /\ srs'[u][q] = Review(row, a.correct, txDay[r])
          /\ row \in SrsRow
      BY <1>0, <2>1, <2>2, <2>3, <2>4 DEF Provenance, SrsPending, AfterSrs, AfterStat, TypeOK
    <3>3. mine(u, q) \in SUBSET attempt /\ \A b \in attempt : b.id # r
      BY <2>1 DEF AnswersOf, IInv, AttemptsDone
    <3>4. IsFiniteSet(mine(u, q)) /\ Cardinality(mine(u, q)) < Cardinality(Requests)
          /\ a \notin mine(u, q)
      BY <2>1, <3>3, FewAttempts, FS_Subset
    <3>5. txDay[r] \in 1 .. today'
      BY <1>0, <2>1, TablesAssumption DEF Days
    <3>6. RowFollows(row, mine(u, q), today')
      BY <1>2
    <3> HIDE DEF mine, a, row
    <3>7. RowFollows(Review(row, a.correct, txDay[r]), mine(u, q) \union {a}, today')
      BY ONLY <1>0, <2>3, <3>2, <3>4, <3>5, <3>6, OneMoreReview DEF a
    <3> QED  BY <3>1, <3>2, <3>7
  <2>5. CASE ~(u = req[r].user /\ q = req[r].question)
    <3>1. mine(u, q)' = mine(u, q)
      BY <2>1, <2>5 DEF AnswersOf
    <3>2. srs'[u][q] = srs[u][q]
      BY <1>0, <2>2, <2>3, <2>5 DEF TypeOK
    <3> QED  BY <1>2, <3>1, <3>2
  <2> QED  BY <2>4, <2>5
<1>4. ASSUME attempt' = attempt, srs' = srs, NEW u \in Users, NEW q \in Questions
      PROVE  RowFollows(srs'[u][q], mine(u, q)', today')
  <2>1. mine(u, q)' = mine(u, q)
    BY <1>4 DEF AnswersOf
  <2> QED  BY <1>2, <1>4, <2>1
<1>5. \A u \in Users, q \in Questions : RowFollows(srs'[u][q], mine(u, q)', today')
  BY <1>3, <1>4, TableSteps DEF AssignTask, tables
<1> QED  BY <1>5 DEF SrsFollows, RowFollows, Right

\* Repetitions, interval and due date of every schedule follow from the learner's own
\* answers to the question, whatever was answered concurrently.
THEOREM SchedulesFollow == Spec => []SrsFollows
<1>1. Init => AttemptsOwn
  BY DEF Init, AttemptsOwn
<1>2. Init => SrsFollows
  BY DEF Init, SrsFollows, AnswersOf
<1>3. IInv /\ Provenance /\ AttemptsOwn /\ SrsFollows /\ [Next]_vars
          => AttemptsOwn' /\ SrsFollows'
  BY AttemptsOwnStep, SrsFollowsStep
<1> QED  BY <1>1, <1>2, <1>3, Grounded, PTL DEF Spec
=============================================================================
