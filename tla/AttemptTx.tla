------------------------------ MODULE AttemptTx ------------------------------
(***************************************************************************)
(* Submitting answers: service/attempt.go grades an answer, and            *)
(* repository/attempt.go records it and everything derived from it in one  *)
(* PostgreSQL transaction at READ COMMITTED, one statement after another.  *)
(* Requests run concurrently.  Next to them run the statements of other    *)
(* handlers that touch the same rows: the daily task insert of GET /home,  *)
(* and the admin's change of a question's language.                       *)
(*                                                                         *)
(* The table variables hold committed rows.  What a transaction has        *)
(* written and not committed is in its pending row (pStat, pSrs, pSlot,    *)
(* pProg); a row written stays locked until the transaction ends, so who   *)
(* holds which row lock is read off the control state.  A failed statement, *)
(* a cancelled request or a failed commit rolls back.                      *)
(***************************************************************************)
EXTENDS LearnerTables

CONSTANT PoolSize    \* connections of the pool

ASSUME PoolAssumption == PoolSize \in Nat \ {0}

VARIABLES
    today,     \* the JST date
    language,  \* question.code_language
    attempt,   \* table attempt
    stat,      \* table user_type_stat, NoStat where there is no row
    srs,       \* table srs_state, NoSrs where there is no row
    daily,     \* table daily_task by (user, activity_date, slot_no), or NULL
    progress,  \* table user_progress, for the users in WithProgress
    pc,        \* how far each request is
    req,       \* the graded answer each request is recording, or NULL
    txDay,     \* jstToday of its transaction: now() is fixed at BEGIN
    pStat, pSrs, pSlot, pProg   \* its uncommitted rows

tables == <<attempt, stat, srs, daily, progress>>
pending == <<txDay, pStat, pSrs, pSlot, pProg>>
vars == <<today, language, tables, pc, req, pending>>

Phases == {"idle", "graded", "inserted", "counted", "scheduled", "tasked",
           "snapped", "updated", "done", "failed"}

AfterStat == {"counted", "scheduled", "tasked", "snapped", "updated"}
AfterSrs  == AfterStat \ {"counted"}

\* The transactions that hold a connection.
InTx == {r \in Requests : pc[r] \in AfterStat \union {"inserted"}}

-----------------------------------------------------------------------------
\* Mutant: the lock is the session's, and outlives the transaction.
HoldsStatOn(r, u, c) ==
    pc[r] \in AfterStat \union {"done"} /\ req[r].user = u /\ req[r].category = c

\* Row locks, held from the statement that writes the row to the end of the
\* transaction.
HoldsStat(r, u, c)  == pc[r] \in AfterStat /\ req[r].user = u /\ req[r].category = c
HoldsSrs(r, u, q)   == pc[r] \in AfterSrs /\ req[r].user = u /\ req[r].question = q
HoldsProgress(r, u) == pc[r] = "updated" /\ req[r].user = u

StatFree(r) ==
    \A t \in Requests \ {r} : ~HoldsStat(t, req[r].user, req[r].category)

SrsFree(r) ==
    \A t \in Requests \ {r} : ~HoldsSrs(t, req[r].user, req[r].question)

ProgressFree(r) ==
    \A t \in Requests \ {r} : ~HoldsProgress(t, req[r].user)

\* Request r moves on by one statement.
Advance(r, from, to) ==
    /\ pc[r] = from
    /\ pc' = [pc EXCEPT ![r] = to]

-----------------------------------------------------------------------------
Init ==
    /\ today = 1
    /\ language \in [Questions -> Languages]
    /\ attempt = {}
    /\ stat = [u \in Users |-> [c \in Categories |-> NoStat]]
    /\ srs = [u \in Users |-> [q \in Questions |-> NoSrs]]
    /\ daily = [u \in Users |-> [d \in Days |-> [s \in Slots |-> NULL]]]
    /\ progress = [u \in Users |-> NoProgress]
    /\ pc = [r \in Requests |-> "idle"]
    /\ req = [r \in Requests |-> NULL]
    /\ txDay = [r \in Requests |-> 1]
    /\ pStat = [r \in Requests |-> NoStat]
    /\ pSrs = [r \in Requests |-> NoSrs]
    /\ pSlot = [r \in Requests |-> NoSlot]
    /\ pProg = [r \in Requests |-> NoProgress]

\* Attempt.Submit up to RecordAttempt: the question is read and the answer graded.
\* The question's language is the one read now, whatever is stored later.
Submit(r, u, q, correct) ==
    /\ Advance(r, "idle", "graded")
    /\ req' = [req EXCEPT ![r] = [id |-> r, user |-> u, question |-> q,
                                  category |-> <<QType[q], language[q]>>,
                                  correct |-> correct]]
    /\ UNCHANGED <<today, language, tables, pending>>

\* pool.Begin waits for a connection; then the attempt row is inserted.
Begin(r) ==
    /\ Advance(r, "graded", "inserted")
    /\ Cardinality(InTx) < PoolSize
    /\ txDay' = [txDay EXCEPT ![r] = today]
    /\ UNCHANGED <<today, language, tables, req, pStat, pSrs, pSlot, pProg>>

\* INSERT INTO user_type_stat ... ON CONFLICT DO UPDATE: waits for another
\* transaction's row, inserted or updated, then adds to the committed one.
UpsertStat(r) ==
    /\ Advance(r, "inserted", "counted")
    /\ StatFree(r)
    /\ LET row == stat[req[r].user][req[r].category]
       IN  pStat' = [pStat EXCEPT ![r] = [attempts |-> row.attempts + 1,
                                          corrects |-> row.corrects + Delta(req[r])]]
    /\ UNCHANGED <<today, language, tables, req, txDay, pSrs, pSlot, pProg>>

\* Mutant: the schedule is computed without waiting for the row.
UpsertSrsNoWait(r) ==
    /\ Advance(r, "counted", "scheduled")
    /\ LET row == srs[req[r].user][req[r].question]
       IN  /\ ~Overflows(row, req[r].correct)
           /\ pSrs' = [pSrs EXCEPT ![r] = Review(row, req[r].correct, txDay[r])]
    /\ UNCHANGED <<today, language, tables, req, txDay, pStat, pSlot, pProg>>

\* INSERT INTO srs_state ... ON CONFLICT DO UPDATE.
UpsertSrs(r) ==
    /\ Advance(r, "counted", "scheduled")
    /\ SrsFree(r)
    /\ LET row == srs[req[r].user][req[r].question]
       IN  /\ ~Overflows(row, req[r].correct)
           /\ pSrs' = [pSrs EXCEPT ![r] = Review(row, req[r].correct, txDay[r])]
    /\ UNCHANGED <<today, language, tables, req, txDay, pStat, pSlot, pProg>>

\* UPDATE daily_task: the lowest open slot, if any (pgx.ErrNoRows is no error).
\* It never waits: only an attempt of the same user on the same question could
\* hold the row, and that one holds the srs row too.
CompleteTask(r) ==
    /\ Advance(r, "scheduled", "tasked")
    /\ LET open == OpenSlots(daily[req[r].user][txDay[r]], req[r].question)
       IN  \/ open = {} /\ UNCHANGED pSlot
           \/ \E s \in open : /\ \A t \in open : s <= t
                              /\ pSlot' = [pSlot EXCEPT ![r] = s]
    /\ UNCHANGED <<today, language, tables, req, txDay, pStat, pSrs, pProg>>

\* daily_task of r's user as r sees it: committed rows, and its own update.
OwnView(r) == Completing(daily[req[r].user], txDay[r], pSlot[r], req[r])

\* Mutant: the streak is computed before the task is completed.
SnapProgressTooSoon(r) ==
    /\ Advance(r, "tasked", "snapped")
    /\ LET days == CompletedDays(daily[req[r].user])
       IN  pProg' = [pProg EXCEPT ![r] = [xp     |-> 0,
                                          streak |-> StreakDays(days, txDay[r]),
                                          last   |-> LastStudiedOn(days)]]
    /\ UNCHANGED <<today, language, tables, req, txDay, pStat, pSrs, pSlot>>

\* The progress statement takes its snapshot, and the CTE reads daily_task in it.
SnapProgress(r) ==
    /\ Advance(r, "tasked", "snapped")
    /\ LET days == CompletedDays(OwnView(r))
       IN  pProg' = [pProg EXCEPT ![r] = [xp     |-> 0,
                                          streak |-> StreakDays(days, txDay[r]),
                                          last   |-> LastStudiedOn(days)]]
    /\ UNCHANGED <<today, language, tables, req, txDay, pStat, pSrs, pSlot>>

\* Mutant: xp is read without waiting for the row.
UpdateProgressNoWait(r) ==
    /\ Advance(r, "snapped", "updated")
    /\ req[r].user \in WithProgress
    /\ pProg' = [pProg EXCEPT ![r].xp = progress[req[r].user].xp + Gain(req[r])]
    /\ UNCHANGED <<today, language, tables, req, txDay, pStat, pSrs, pSlot>>

\* The same statement gets the row, after the transaction that held it ended: p.xp
\* is the latest one, `calculated` is not read again.
UpdateProgress(r) ==
    /\ Advance(r, "snapped", "updated")
    /\ ProgressFree(r)
    /\ req[r].user \in WithProgress
    /\ pProg' = [pProg EXCEPT ![r].xp = progress[req[r].user].xp + Gain(req[r])]
    /\ UNCHANGED <<today, language, tables, req, txDay, pStat, pSrs, pSlot>>

\* The request is answered and its transaction leaves no pending row behind.
Finish(r) ==
    /\ txDay' = [txDay EXCEPT ![r] = 1]
    /\ pStat' = [pStat EXCEPT ![r] = NoStat]
    /\ pSrs' = [pSrs EXCEPT ![r] = NoSrs]
    /\ pSlot' = [pSlot EXCEPT ![r] = NoSlot]
    /\ pProg' = [pProg EXCEPT ![r] = NoProgress]
    /\ UNCHANGED <<today, language>>

\* tx.Commit: every row becomes visible at once.  "done" says that the commit took
\* place, whether or not its acknowledgement and the reply arrive: an error that the
\* client is given does not tell it that nothing was recorded (ApiServer!Break).
Commit(r) ==
    LET u == req[r].user
    IN  /\ Advance(r, "updated", "done")
        /\ attempt' = attempt \union {req[r]}
        /\ stat' = [stat EXCEPT ![u][req[r].category] = pStat[r]]
        /\ srs' = [srs EXCEPT ![u][req[r].question] = pSrs[r]]
        /\ daily' = [daily EXCEPT ![u] = OwnView(r)]
        /\ progress' = [progress EXCEPT ![u] = pProg[r]]
        /\ Finish(r)
        /\ UNCHANGED req

\* Mutant: the attempt row is written outside the transaction and survives.
RollbackKeepsAttempt(r) ==
    /\ pc' = [pc EXCEPT ![r] = "failed"]
    /\ attempt' = attempt \union {req[r]}
    /\ req' = [req EXCEPT ![r] = NULL]
    /\ Finish(r)
    /\ UNCHANGED <<stat, srs, daily, progress>>

\* An error is returned, and the deferred Rollback drops pending rows and locks.
Rollback(r) ==
    /\ pc' = [pc EXCEPT ![r] = "failed"]
    /\ req' = [req EXCEPT ![r] = NULL]
    /\ Finish(r)
    /\ UNCHANGED tables

\* The interval of the srs upsert does not fit its column: the statement fails.
SrsOverflow(r) ==
    /\ pc[r] = "counted"
    /\ SrsFree(r)
    /\ Overflows(srs[req[r].user][req[r].question], req[r].correct)
    /\ Rollback(r)

\* Mutant: no row is no error, as it is none to the completion of a task.
ProgressMissingIgnored(r) ==
    /\ Advance(r, "snapped", "updated")
    /\ req[r].user \notin WithProgress
    /\ UNCHANGED <<today, language, tables, req, pending>>

\* There is no user_progress row: RETURNING yields no row, an error to Scan.
ProgressMissing(r) ==
    /\ pc[r] = "snapped"
    /\ req[r].user \notin WithProgress
    /\ Rollback(r)

\* Any statement, or the commit, may fail, and the client may go away.
Fail(r) ==
    /\ pc[r] \in {"graded", "inserted"} \union AfterStat
    /\ Rollback(r)

-----------------------------------------------------------------------------
\* Mutant: ON CONFLICT DO UPDATE SET question_id = EXCLUDED.question_id.
AssignTaskOverwrites(u, s, q) ==
    /\ daily' = [daily EXCEPT ![u][today][s] = [question |-> q, attempt |-> NULL]]
    /\ UNCHANGED <<today, language, attempt, stat, srs, progress, pc, req, pending>>

\* UpsertDailyTask of GET /home: a question for one of today's slots, whose
\* row is left alone when there is one.
AssignTask(u, s, q) ==
    /\ daily[u][today][s] = NULL
    /\ daily' = [daily EXCEPT ![u][today][s] = [question |-> q, attempt |-> NULL]]
    /\ UNCHANGED <<today, language, attempt, stat, srs, progress, pc, req, pending>>

\* An admin's PATCH of a question's code_language.
PatchLanguage(q, l) ==
    /\ l # language[q]
    /\ language' = [language EXCEPT ![q] = l]
    /\ UNCHANGED <<today, tables, pc, req, pending>>

\* Midnight in Japan.
NextDay ==
    /\ today < MaxDay
    /\ today' = today + 1
    /\ UNCHANGED <<language, tables, pc, req, pending>>

\* What a request does by itself, once submitted.
Step(r) ==
    \/ Begin(r)
    \/ UpsertStat(r)
    \/ UpsertSrs(r)
    \/ SrsOverflow(r)
    \/ CompleteTask(r)
    \/ SnapProgress(r)
    \/ UpdateProgress(r)
    \/ ProgressMissing(r)
    \/ Commit(r)

Environment ==
    \/ \E u \in Users, s \in Slots, q \in Questions : AssignTask(u, s, q)
    \/ \E q \in Questions, l \in Languages : PatchLanguage(q, l)
    \/ NextDay

Next ==
    \/ \E r \in Requests :
          \/ \E u \in Users, q \in Questions, correct \in BOOLEAN :
                Submit(r, u, q, correct)
          \/ Step(r)
          \/ Fail(r)
    \/ Environment

Spec == Init /\ [][Next]_vars

\* PostgreSQL runs every statement that need not wait for a lock, and wakes the
\* ones that waited.  Nothing is assumed of clients, admins, failures or the clock.
FairSpec == Spec /\ \A r \in Requests : WF_vars(Step(r))

-----------------------------------------------------------------------------
TypeOK ==
    /\ today \in Days
    /\ language \in [Questions -> Languages]
    /\ attempt \in SUBSET AttemptRow
    /\ stat \in [Users -> [Categories -> StatRow]]
    /\ srs \in [Users -> [Questions -> SrsRow]]
    /\ daily \in [Users -> [Days -> [Slots -> TaskRow \union {NULL}]]]
    /\ progress \in [Users -> ProgressRow]
    /\ pc \in [Requests -> Phases]
    /\ req \in [Requests -> AttemptRow \union {NULL}]
    /\ \A r \in Requests :
          pc[r] \notin {"idle", "failed"} => req[r] \in AttemptRow /\ req[r].id = r
    /\ txDay \in [Requests -> Days]
    /\ pStat \in [Requests -> StatRow]
    /\ pSrs \in [Requests -> SrsRow]
    /\ pSlot \in [Requests -> Slots \union {NoSlot}]
    /\ pProg \in [Requests -> ProgressRow]

AnswersOf(u)        == {a \in attempt : a.user = u}
CorrectOf(u)        == {a \in AnswersOf(u) : a.correct}
CountedIn(u, c)     == {a \in AnswersOf(u) : a.category = c}
CorrectIn(u, c)     == {a \in CountedIn(u, c) : a.correct}

\* The counters that are only ever incremented agree with the attempt table at
\* every moment: no increment is lost between concurrent transactions, none is
\* left by a transaction that rolled back (attempt.go:14-125).  A learner without a
\* progress row has nothing counted: its answers fail and leave no attempt behind
\* either, right or wrong (attempt.go:108-122).
LedgerBalances ==
    /\ \A a \in attempt : a.user \in WithProgress
    /\ \A u \in Users :
          /\ progress[u].xp = XpPerCorrect * Cardinality(CorrectOf(u))
          /\ \A c \in Categories :
                /\ stat[u][c].attempts = Cardinality(CountedIn(u, c))
                /\ stat[u][c].corrects = Cardinality(CorrectIn(u, c))

\* The interval after n correct answers in a row, the first of them the very first.
IntervalAfter ==
    LET f[n \in 0 .. Cardinality(Requests) + 1] ==
            IF n = 0 THEN 0 ELSE NextInterval(f[n - 1])
    IN  f

\* The schedule of a question follows from the learner's answers to it: a row from
\* the first answer on; while all are correct, one repetition each and the
\* interval of that many; after a wrong one the count starts again, and the interval is
\* that of one repetition more, since a wrong answer leaves the interval of one; and due
\* is counted from a day that has come (attempt.go:53-71).
SrsFollows ==
    \A u \in Users, q \in Questions :
        LET row   == srs[u][q]
            mine  == {a \in AnswersOf(u) : a.question = q}
            right == {a \in mine : a.correct}
            n     == row.repetitions
        IN  IF mine = {} THEN row = NoSrs
            ELSE /\ row.due - row.interval \in 1 .. today
                 /\ IF right = mine
                    THEN n = Cardinality(mine) /\ row.interval = IntervalAfter[n]
                    ELSE /\ n <= Cardinality(right)
                         /\ row.interval = IntervalAfter[n + 1]

DoneTasks == {t \in Users \X Days \X Slots :
                 LET row == daily[t[1]][t[2]][t[3]]
                 IN  row # NULL /\ row.attempt # NULL}

AttemptOf(t) == daily[t[1]][t[2]][t[3]].attempt

\* A completed task names a committed attempt, by its own user, at its own
\* question, and no attempt completes two tasks (attempt.go:78-87).
TasksBacked ==
    /\ \A t \in DoneTasks : \E a \in attempt :
          /\ a.id = AttemptOf(t)
          /\ a.user = t[1]
          /\ a.question = daily[t[1]][t[2]][t[3]].question
    /\ \A t, w \in DoneTasks : t # w => AttemptOf(t) # AttemptOf(w)

\* A daily task keeps its question, and once completed the attempt that
\* completed it: neither a later answer (attempt.go:83) nor a reload of the home
\* screen (home.go:31) rewrites it.
TaskKept ==
    [][\A u \in Users, d \in Days, s \in Slots :
          LET old == daily[u][d][s]
              new == daily'[u][d][s]
          IN  old # NULL =>
                 /\ new # NULL /\ new.question = old.question
                 /\ old.attempt # NULL => new = old]_daily

\* A stored streak of n days is n consecutive days, up to last_studied_on, on
\* each of which the learner completed a task; last_studied_on is no later than
\* today (attempt.go:97-111).
StreakBacked ==
    \A u \in Users :
        LET p == progress[u]
        IN  /\ p.last <= today
            /\ (p.last - p.streak + 1) .. p.last \subseteq StartedDays(daily[u])

\* Between a learner's answers, every fully completed day has been credited:
\* last_studied_on has reached it.  This is "every derived state is updated in
\* the same transaction" (attempt.go:13) for the day's completion.
DayCredited ==
    \A u \in WithProgress :
        (\A r \in InTx : req[r].user # u) =>
            \A d \in CompletedDays(daily[u]) : progress[u].last >= d

\* Every submitted answer is answered: the transactions never wait for each other
\* in a circle, whatever rows they share, and a full pool drains.
Terminates ==
    \A r \in Requests : pc[r] = "graded" ~> pc[r] \in {"done", "failed"}

\* Statement by statement, interleaved, rolled back or not: the tables change as
\* if each committed answer had been recorded in one step.
Ledger == INSTANCE AttemptLedger
    WITH attempt <- attempt, stat <- stat, srs <- srs, daily <- daily,
         progress <- progress, today <- today, language <- language
LedgerSpec == Ledger!Spec

\* The tasks of today as rows of the abstract table.
TodayTasks ==
    {t \in [user : Users, slot : Slots, question : Questions, done : BOOLEAN] :
        LET row == daily[t.user][today][t.slot]
        IN  /\ row # NULL
            /\ row.question = t.question
            /\ t.done <=> row.attempt # NULL}

\* What the transactions and midnight do to the tasks of today is what GET /home is
\* specified to expect of them: HomeTasks implements the same specification.
Day == INSTANCE LearnerDay
    WITH Learners <- Users, answered <- {<<a.user, a.question>> : a \in attempt},
         tasks <- TodayTasks
DaySpec == Day!Spec
=============================================================================
