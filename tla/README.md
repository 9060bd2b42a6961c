# codetrain-api in TLA+

TLA+ specifications, TLC runs and TLAPS proofs for codetrain-api, the HTTP API of a
programming drill service: learners get daily tasks, answer questions, and collect XP,
spaced-repetition schedules and a streak; reviewers decide which generated questions are
published. The code is Go over PostgreSQL (`handler → service → repository`). Paths below are
relative to `src/internal/` unless they start with `cmd/`.

Contents: the inventory of the system; the modules and how they correspond to the code; what
each run checks, and its bounds; fairness; what is proved and how; what was found; what is not
modelled; the plan.

## 1. The system

The process keeps little state of its own (the JWKS cache, its pool of connections, and how far it
is between start and exit); the rest is in PostgreSQL, written by concurrent requests at the default isolation level, READ COMMITTED: each
*statement* sees a new snapshot of what is committed, an `UPDATE` or `ON CONFLICT DO UPDATE` that
meets a row written by an open transaction waits for it and then goes on from the latest row, and
everything else in the statement keeps its snapshot.

| component | state | operations | hard part | what makes it correct |
|---|---|---|---|---|
| Recording answers (`service/attempt.go`, `repository/attempt.go`) | tables `attempt`, `user_type_stat`, `srs_state`, `daily_task`, `user_progress` | `POST /questions/:id/attempts`: one transaction of five statements | requests of one learner interleave statement by statement; any statement may fail; midnight; a pool of connections | the counters, schedules, tasks and progress always agree with the committed attempts; all or nothing; every request ends |
| Spaced repetition (`repository/attempt.go`, `repository/srs.go`) | `srs_state` | the upsert of each answer; `GET /srs/due` | growth until the int4 column overflows; two answers at once | the schedule follows from the learner's answers |
| Streak, calendar (`repository/calendar.go`, `service/calendar.go`) | derived from `daily_task`; a copy in `user_progress` | `GET /calendar`; the progress update | gaps-and-islands SQL; the copy and the live value; a reply made of two reads | the streak is the run of consecutive completed days that reaches at least yesterday, and runs over days the same reply shows completed |
| Daily tasks (`service/home.go`, `repository/home.go`) | `daily_task` | `GET /home`: pick a question per slot, insert, read back | reads that write; two reloads at once; midnight; a question answered or withdrawn meanwhile | a day's tasks do not change under the learner |
| Task slots (`service/taskslot.go`, `repository/taskslot.go`) | `user_task` | set, delete and list slots, list options | checked against questions that change before the write | a slot's condition was one that some question met |
| Review (`service/admin_review.go`, `repository/admin_review.go`) | `review_queue`, `question.status` | decide: queue rows and status in one transaction | two reviewers at once; new entries meanwhile | one decision wins and is never overwritten; decision and status together |
| Editing (`service/admin_question.go`, `repository/admin_question.go`) | `question` | `PATCH`: read, validate, write, in separate statements | two editors at once | correct keys are choices |
| JWKS cache (`middleware/auth_cognito.go`) | key map and time of the last fetch, under an RWMutex | look up, fetch, replace | fetches with no lock held overlap; rotation; failures | dropped keys go, new keys come, the issuer is not flooded |
| Users (`service/user.go`, `repository/user.go`) | `app_user`, `user_progress` | first login, e-mail backfill, profile update | two first logins at once | one user row and its progress row |
| Search and paging (`paging/`, `service/question.go`, `repository/question.go`) | none | keyset pages | rows come and go between pages | no question there all along is skipped or repeated |
| The process (`cmd/api/main.go`, `config/`, `repository/postgres.go`) | pool, listener, where `run` is | start from an environment, serve, stop on a signal or when the listener fails | the shutdown reaches no server; requests in progress; a pool at its limit | no statement is cut short by a process that leaves by itself; it does leave; every request is replied to |
| Auth modes, reviewer guard (`middleware/`, `server/`) | none | admit a request to a handler | which build may run which mode | what admin routes store is a reviewer's doing |
| Errors (`apperr/`, `handler/`) | none | what a service returns becomes a status code | one of several statements of a handler fails | a refusal means nothing was stored, a success that it was |
| Health, skills, statistics | none | reads | – | – |

The components interact through tables and share the pool of connections: answers and `GET /home` share `daily_task`; editing
and answering share `question` (an answer is counted under the language read before its
transaction); review decides which questions can be picked and answered. The hazards of each are
in `PROJECT.json` at the line where they bite.

## 2. Modules

| module | models | extends / instantiates |
|---|---|---|
| `Streak` | the streak query as operators on a set of days | |
| `Calendar` | `GET /calendar` next to answers; the reference definition of the streak | `Streak` |
| `Srs` | one row of `srs_state` and the arithmetic of its upsert | |
| `LearnerTables` | the rows of the answer tables, and the readings of `daily_task` | `Streak`, `Srs` |
| `AttemptLedger` | abstract: recording an answer in one step | `LearnerTables` |
| `LearnerDay` | abstract: the questions answered and the tasks of today, as recording an answer and `GET /home` share them | |
| `AttemptTx` | the transaction, statement by statement | `LearnerTables`; `INSTANCE AttemptLedger`, `LearnerDay` |
| `MCAttemptTx` | instances for TLC | `AttemptTx` |
| `ReviewDesk` | abstract: a review decision in one step | |
| `QuestionReview`, `MCQuestionReview` | review decisions and question edits, statement by statement | `INSTANCE ReviewDesk` |
| `HomeTasks`, `MCHomeTasks` | `GET /home` and the task slots, next to everything that changes what they read | `INSTANCE LearnerDay` |
| `ListPaging`, `MCListPaging` | the three keyset listings and a client that walks through one | |
| `UserAccounts`, `MCUserAccounts` | first login, e-mail backfill, profile patches | |
| `JwksCache`, `MCJwksCache` | the JWKS cache and the issuer | |
| `ApiServer`, `MCApiServer` | the process, and requests on their way through guard, pool and handler | |
| `StreakProofs` | what the streak query computes | `Streak` |
| `CalendarProofs` | the streak by hand, and the two reads of one reply | `Calendar`, `StreakProofs` |
| `AttemptTxProofs` | the invariants of the transaction, and that it implements `AttemptLedger` and `LearnerDay` | `AttemptTx`, `StreakProofs` |
| `QuestionReviewProofs` | decisions, correct keys under several editors, and that a review implements `ReviewDesk` | `QuestionReview` |
| `HomeTasksProofs` | what `GET /home` answers, and that it implements `LearnerDay` | `HomeTasks` |
| `ListPagingProofs` | a walk repeats and skips nothing | `ListPaging` |
| `UserAccountsProofs` | first logins, and writers of one row | `UserAccounts` |
| `ApiServerProofs` | replies, guards and the exit; the cache of keys in the process | `ApiServer`; `INSTANCE JwksCache` |

Operators whose comment starts with `Mutant:` are deliberately wrong variants of the definition
that follows them. Nothing uses them: they show, put in the definition's place, that a property can
fail.

### AttemptTx

One action per SQL statement. The variables named after tables hold *committed* rows. What a
transaction has written but not committed is in its pending row (`pStat`, `pSrs`, `pSlot`,
`pProg`); `Commit` makes them visible together and `Rollback` drops them. Row locks are not
variables: a transaction holds the rows it has written, so who holds what follows from `pc`
(`HoldsStat`, `HoldsSrs`, `HoldsProgress`).

| action | code |
|---|---|
| `Submit` | `Attempt.Submit`: question read, answer graded; the language read here is the one counted |
| `Begin` | `pool.Begin` (waits for one of `PoolSize` connections) and the insert into `attempt`; `now()` is fixed here, hence `txDay` |
| `UpsertStat`, `UpsertSrs` | the two `ON CONFLICT DO UPDATE`, each waiting for its row |
| `SrsOverflow` | the `::int` cast of the interval fails |
| `CompleteTask` | the update of the lowest open slot of the day with this question, or no row |
| `SnapProgress`, `UpdateProgress` | one statement in two steps: its CTE reads `daily_task` in the statement's snapshot; then the `UPDATE` waits for the `user_progress` row, and takes `p.xp` from the latest one without evaluating the CTE again |
| `ProgressMissing` | no `user_progress` row: `Scan` fails |
| `Commit`, `Fail` | commit; any error or cancellation, with the deferred rollback |
| `AssignTask` | the insert of `GET /home`, `ON CONFLICT DO NOTHING` |
| `PatchLanguage`, `NextDay` | the admin's `PATCH`; midnight in Japan |

Abstracted: the answer's keys (an answer is correct or not), titles and other columns, level and
hearts (no statement writes them), `easiness` (never written by this service, so it is the column's
default, a constant fraction). A request of the model is used once, which also names the attempt row it may write.

`AttemptLedger` records an answer in one step, with everything that follows from it, and `AttemptTx!LedgerSpec`
says that the committed rows of the transaction are a behaviour of it: `Commit` is the abstract step, and
every statement before it, every wait and every rollback is invisible.

`LearnerDay` is the joint of two models. `AttemptTx` takes the insert of `GET /home` as one environment step,
`HomeTasks` takes a recorded answer as one; each is as detailed about its own side as the code. `DaySpec`, in both, says that
what the module does to the attempts and to today's rows of `daily_task` is a behaviour of `LearnerDay`: an answer
completes an open task that asks its question, or none (it may belong to a day that is over); a slot without a task gets
one; midnight leaves none. So neither module lets its environment do less to the shared table than the other one does.

### Calendar

One learner's `daily_task` as two counts per day, which is all that the two queries of `GET /calendar` look
at. `Assign` is the insert of `GET /home`; an answer is `BeginAnswer`, which fixes `now()` and with it the
day, and `CommitAnswer` or `EndAnswer`, possibly after midnight. `ListDays` is the range check of the handler and
`DailyConsumption`; `Reply` is the read of the streak after it. Two operators translate the same condition, as two
queries of the code do: `ShownCompleted` for the list and `CompletedDays` for the streak. A day is
`Settled` for a reply if it was over when the list was read and no answer begun on it was still open; today, and such
a day, may well be completed between the two reads, or un-completed by a new task, and about those the two
halves may differ.

### QuestionReview

A reviewer's transaction is `Decide`, `FindEntries` (the snapshot of the `UPDATE ... WHERE decision
IS NULL`), `ClaimEntries` or `AlreadyDecided` (after the wait for rows of other transactions, the
condition is evaluated again on them), `SetStatus` and `Commit`; `Fail` at any point. An editor's
`PATCH` is `ReadQuestion` (read and validate) and `WriteQuestion` (the patched columns only).
`Enqueue` is the generation pipeline, a program outside this repository. A queue update takes its
rows one by one in the code and at once in the model; a deadlock that PostgreSQL breaks by failing
one of the statements is covered by `Fail`. `ReviewDesk` is what the doc comment of
`repository/admin_review.go` promises, a decision that settles entries and status in one step; `DeskSpec` says
that `status` and `entry`, the committed rows, are a behaviour of it.

### HomeTasks

One learner and one day at a time: `daily` holds the rows of today, and `NextDay` empties it,
since every statement looks at the day it is by then. A `GET /home` has no transaction, so each of
its statements is an action: `ListSlots`; for every slot `Pick` or `Skip`, and `Insert` (`ON CONFLICT
DO NOTHING`); `ReadBack`; then `Reply`, or `FailGet` after any statement, which leaves the rows it
has inserted. `CheckSlot` and `SaveSlot` are the two statements of `PUT /task-slots/:slot_no`.
`Answer` is a whole answer, whose steps are those of `AttemptTx`: its transaction may have begun before the question was
withdrawn, or yesterday, and may have looked for its task before that was assigned, so it completes an open task of the question or none; `Decide` and `Edit` are what
reviewers and editors do to the bank of questions. `skipped`, `before`, `crossed`, `shown` and
`vetted` are history variables for properties. The set of a slot's levels is {3, another}: 3 is
what a slot without a difficulty gets.

### ListPaging

`visible` is the set of rows that meet the conditions of the listing, whatever the filters are;
`Appear` and `Disappear` are all that inserts, patches, decisions and answers do to it, and a row
may appear with a `created_at` that is long past (it is the start of its transaction). A page is one
statement, hence one action, `FetchPage`: the rows after the cursor in the order of the listing,
one more than the limit (`Limited`), cut by `paging.Page` (`Page`). A negative limit is refused (`Accepted`) and any other
clamped. Between two pages the key of the last row is text: `Encode` writes the column's microseconds as the nanoseconds of
RFC 3339, `Decode` reads them and the query takes microseconds again; base64 and JSON around them are left out. The
questions and the admin's questions are listed newest first, the queue oldest first.

### UserAccounts

`Create`, `InsertUser` or `AlreadyProvisioned`, `InsertProgress` and `Commit` are the transaction of
`POST /me`; an insert of a subject that an open transaction has inserted waits for its end, as
the unique index makes it do. `Resolve` or `ResolveFails` is the read with which `GET /me` and `PATCH /me` begin, and
`BackfillEmail`, `BackfillFails`, `UpdateUser` and `ReplyAsRead` are what follows. What a commit or a patch has stored
stays stored when its acknowledgement is lost, and the client is told of a failure (`Learns`). `named` and
`pictured` remember the last value that was given for a column (`LastGiven`). No statement deletes a user.

### JwksCache

`Lookup` is the read under the lock; `TooSoon`, `StartFetch`, `Serve`, `FetchFails`, `Store` and
`LookAgain` are the rest of `key` and `refresh`, with no lock between them. Times are kept as ages,
up to `MinRefresh`, since the code compares ages with the interval and nothing else. The issuer
(`Rotate`, `Serve`) is external. `during`, `lastStart` and `began` are history variables for properties.

### ApiServer

`run()` of `cmd/api/main.go` step by step: `LoadConfig`, `OpenPool`, `StartServer` and the ways in which each fails; the wait;
`Shutdown`, `ClosePool`, `Leave`. The goroutine with the listener is `Listen` and `ListenerFails`, whose `stop()`
ends the wait. `Kill` ends the process anywhere. `End` is the exit: whoever waited for a reply gets none.

A request is admitted (`Enter`, under `Admitted`, the middleware of its route) or turned away, and then goes
through the `Body` of its handler, the list of what the service asks of the database in the order of its
statements: `Acquire` a connection, then `Succeed`, `Refuse` or `Break`, and back to the pool until the list
ends. A transaction is one entry, since it holds one connection; what it does inside is the matter of the other modules. The
list keeps of each entry whether it may refuse the request, whether it stores something, and whether its
failure is ignored (only the e-mail backfill, `fill`). `Following` says which entries the data may skip.
`Break` of a storing entry may leave it stored: the acknowledgement of a commit can be lost.

Two facts come from libraries outside the repository. Echo v4.13.4 keeps `e.Server` apart from the `http.Server` passed to
`StartServer`, so `e.Shutdown` has nothing to shut down and returns at once, with the listener still open.
`Close` of the pool of pgx v5.7.6 hands out no further connection and waits for those that are out.

## 3. Runs

| run | instance | checks |
|---|---|---|
| `calendar` | 5 days of 2 slots, ranges up to 3 days | the streak query equals a count by hand; the two halves of a reply agree |
| `answers` | 1 learner, 2 questions, 2 languages, 2 slots, 2 requests, 2 connections | ledger, tasks, refinement of `AttemptLedger`, schedules included; every submitted answer is answered |
| `serial` | 2 learners (one without progress row), 1 question, 2 slots, 2 days, 3 requests, 1 connection, int4 up to 3 | types, ledger, schedules up to the overflow; stored streak, completed days credited; refinement of `LearnerDay`, midnight included |
| `race` | 2 connections | **violated**: a completed day is not credited |
| `reviewers` | 2 reviewers, 1 question, 2 entries, 1 editor, 1 key | one decision wins; decision with status; refinement of `ReviewDesk`; every review is answered |
| `two_editors` | 2 editors | **violated**: a correct key that is no choice |
| `home` | 2 reloads, 1 slot change at a time, 2 questions, 2 levels, 2 slots, 2 changes | replies agree, and are complete; tasks are new; slots are empty for a reason |
| `paging` | 4 rows with 2 times, limits -1, refused, and 0, 2 and 3, clamped to 1..2; 3 listings | nothing twice, nothing skipped; walks through the two newest-first listings end |
| `users` | 1 subject, 3 requests, 2 names, 2 e-mails | one user with its progress; no e-mail or patch undone, acknowledgements lost or not; every request answered |
| `jwks` | 2 requests, 2 kids, interval of 2 ticks | dropped keys are forgotten, a client's own fetches are an interval apart, new keys accepted |
| `jwks_apart` | the same | **violated**: fetches closer than the interval |
| `server` | every environment, a build without `dev_auth`, 2 requests to 6 handlers, 1 connection | replies tell what was stored; guards; the process ends, and cuts nothing short; every request is answered |

*Bounds.* `calendar`: five days are a run with a gap before it, or a gap of two days after it, on either side of the
boundary between yesterday and the day before; with two slots a day can be in part completed and can be completed and opened
again; a range of three days leaves days out on both sides. Only one answer is open at a time: two would
differ in which days are unsettled, and a reply excludes them one by one.

`answers`: two transactions are what a lost update or a missed snapshot takes. Two questions have different types, so that
answers to them share only the progress row; two answers to one question share every row. Its one day keeps
midnight out, which `serial` has. `serial`: the third request makes the pool something to wait for and, with `MaxInt4 = 3`,
its correct answer overflow (intervals 1, 3, 8). Midnight within a transaction, which two days allow, is
what could store a streak for the wrong day. The learner without a progress row is the one whose answers fail at the last
statement, after the others have written. `serial` asks of one connection what `race` refutes for two.

`home`: `MaxChanges = 2` counts what the learner, the admin and the calendar do: an answer
between pick and insert, a withdrawal between check and save, or a midnight between any two
statements take one each, so that any two of them can meet the statements of two reloads.
`paging`: four rows and pages of at most two make walks of two or more pages, with ties of `created_at` across a page's end. That
the rows are finitely many is what makes a walk end here, and it is true of the code only where the walk runs towards older rows: those ahead of
it were inserted, or were being inserted, when it began, and what is inserted meanwhile is behind it. `WalkEnds` is therefore
about the two newest-first listings. The review queue runs towards newer rows, and while entries are queued without end a
walk through it need not end; for that no bound on rows could stand, and nothing is claimed.
`users`: three requests are two first logins and a third that reads or patches what they leave, or three patches.
`jwks`: two kids are a dropped one and a new one.

`server`: `Served` names one handler of each shape that `Body` has: a ping, a read with a fill, one transaction, lookups
before a store, the branching body of `GET /home` with two stores, and an admin handler that reads after its
change; the others are shorter lists of the same entries. One connection for two requests makes the pool full.
`DevAuth = FALSE` is the production build, the one `Guarded` is about.

*Deadlock* is not checked where the model comes to an end: requests of `AttemptTx`, `HomeTasks` and `UserAccounts` are used
once and their calendar ends, that of `Calendar` does too, and the process of `ApiServer` exits. `Terminates`,
`AllAnswered` and `Answered` say that no request is stuck. The other runs check it.

## 4. Fairness

- `AttemptTx`: weak fairness of each request's statements. PostgreSQL runs a statement that need
  not wait and wakes those that waited; a request submits once, so what it waits for stays free
  once the finitely many others are done. Nothing is assumed of clients, admins, failures or
  midnight.
- `ApiServer`: weak fairness of the start and of the stop, which are one goroutine that nothing blocks but the
  pool; and of each request's next connection, of the end of its statement (the database answers it
  or the connection breaks) and of its reply. The pool serves waiters in order of arrival; here requests
  are finite, so weak fairness is enough. Nothing is assumed of clients, signals, kills or the listener: `Exits` starts from a
  process that has been told to stop.
- `UserAccounts`: weak fairness of each request's statements, for the same reason; who waits for the
  unique index waits for one of finitely many requests.
- `ListPaging`: weak fairness of the next page, the assumption being that of a client that goes on
  asking. The rows ahead of a walk through a newest-first listing may come and go without end and are finitely many;
of the review queue, which grows ahead of the walk, `WalkEnds` says nothing.
- `QuestionReview`: strong fairness of each reviewer's statements. Reviewers send requests without
  end, so a row can be taken and released forever; PostgreSQL queues the waiters of a row in order
  of arrival, hence a statement that could go on again and again does.
- `JwksCache`: weak fairness of the middleware's own steps and of the clock; strong fairness of
  the issuer's answer and of its arrival, since an attempt may time out but not each one of
  infinitely many. Without it no key can ever be fetched.

## 5. Proofs

`tlapm` checks the theorems below for every value of the constants that satisfies the named
assumptions. These say no more than the code gives: numbers of slots, days, connections and
limits are positive; `NULL` and the ids of different kinds differ from each other
(`TablesAssumption`, `CalendarAssumption`, `HomeAssumption`, `AccountsAssumption`, `ServerAssumption`,
`ReviewAssumption`, `PagingAssumption`); the requests that
write attempts and the rows of a listing are finitely many, since sets of them are counted;
`SrsAssumption` and `PoolAssumption` bound the arithmetic and the pool. Each invariant was checked by TLC on the
bounds of section 3 before it was proved. One lemma per action shows that it is kept.

### Recording answers (`AttemptTxProofs`)

- **`TypeCorrect`**: `Spec => []TypeOK`; in particular no interval leaves its column.
- **`Balanced`**: `Spec => []LedgerBalances`. XP is ten times the number of correct
  attempts, each counter the number of attempts in its category, and a learner without a progress row has
  neither, whatever it answers: the last statement fails, and the whole transaction with it. The property alone is not
  inductive: a commit writes `pStat` and `pProg`, computed several steps before. `IInv` adds
  `LocksExclusive` (two transactions never hold one row), `StatPending` and `XpPending` (while it
  holds the row, a transaction's pending row is the committed one plus its own answer: no one else
  can have changed it; and only a learner with a progress row gets as far as its update), `SlotPending` (its pending slot is open in the committed row) and
  `AttemptsDone` (the committed attempts are those of the requests that are done, so a commit adds
  a *new* one and the cardinality grows by one).
- **`TasksHaveAttempts`**, **`NoTaskRewritten`**: `TasksBacked` and the action property `TaskKept`. A
  completion is written in one step and visible in another; in between the row lock keeps the
  slot open (`SlotPending`), so a commit completes a task that nobody has completed.
- **`StreaksWorked`**: `StreakBacked`. `Provenance`, invariant next to `IInv`, follows a pending streak back to the snapshot it
  was computed from: `StreakPending` says that its run lies in days the learner has started, as the transaction
  sees them, and completed tasks are never taken back. That a run is what the query returns is `StreakCountsRun`.
- **`SchedulesFollow`**: `SrsFollows`. While all answers are correct the schedule has one repetition for each and the
  interval of that many; a wrong one starts the count again, from an interval that is one repetition ahead of it, which
  the property states exactly. `IntervalAfter` is defined by recursion and the provers cannot
  instantiate the library's induction theorems; the proof gets what it needs of it, that
  `IntervalAfter[n + 1] = NextInterval(IntervalAfter[n])`, from a least counterexample (`IntervalsExist`,
  `IntervalSteps`): if the recursion had no solution up to some `n` there would be a least such `n`, and the solution up
  to `n - 1` extends to it. `AttemptsOwn` (an attempt row is its request's) bounds the number of answers by that of the requests.
- **`FreshSnapshotsCredit`**: `Spec /\ []SnapshotsFresh => []DayCredited`, for any size of the pool. `DayCredited` is what run `race`
  refutes; the hypothesis excludes one situation: an answer that has its snapshot of `daily_task` and waits for the
  progress row that another answer of the same learner holds. `CreditInv` says that the `last_studied_on` a transaction is about to store
  reaches every day it sees completed (`CreditPending`), and that the stored one reaches every completed day
  (`Credited`); a task inserted meanwhile only takes a day out of the completed ones. It is inductive only where snapshots are fresh, and the theorem
  says so exactly: the finding has this cause and no other. Two corollaries show hypotheses on constants that
  exclude the situation. **`SerialCredits`**: a pool of one connection (`OneAtATime`), the instance of run `serial`.
  **`OneCategoryCredits`**: questions of one type and one language, whatever the pool, since two answers of a learner then meet at the
  `user_type_stat` row before either has a snapshot (`LocksExclusive`). It explains why run `race` needs questions of two types.
- **`TasksNeedNoLock`**: `TaskRowsFree` and `TaskRowsApart`. The comment on `CompleteTask` that the statement never has to wait is a theorem: a
  transaction with a task in hand holds the `srs_state` row of its question, and the candidates of any other that has
  come so far ask for another question or belong to another learner.
- **`SomeAnswerGoesOn`**: `NobodyStuck`, the safety half of `Terminates`, for any number of answers and connections: who holds
  what a statement waits for is always at a later statement, so of those at the latest stage none waits.
- **`TransactionsAreLearnerDay`**: `Spec => DaySpec`. A `Commit` maps to `LearnerDay!Answer`: if it belongs to
  today and has a slot, that slot's row was open and asked its question (`SlotPending`), and becomes done; otherwise today's rows stay.
  `NextDay` maps to `NewDay` because no task is of a day to come (`DaysCome`).
- **`RecordsAtOnce`**: `Spec => LedgerSpec`, the refinement. Under `IInv` and `Provenance` a `Commit` is
  `AttemptLedger`'s one step: pending counters, schedule, slot and progress are what the abstract step
  computes from the committed rows (`CommitCounts`, `CommitSchedules`, `CommitCredits`, `CommitProgresses`).
  `AssignTask`, `PatchLanguage` and `NextDay` are their abstract counterparts, everything else a stutter.

### Streak and calendar (`StreakProofs`, `CalendarProofs`)

- **`IslandIsRun`**: two days with equal `day - row_number()` have every day between
  them in the set. The proof counts: `row_number` grows by at most one per day.
- **`StreakCountsRun`**: hence the streak query counts the days of the run that ends at
  the latest one and has no day before it, for every finite set of days; no induction is needed.
- **`StreakByHand`**: `Spec => []StreakIsRun`. A run that ends on the latest day has one length only
  (`RunUnique`), so `ByHand`'s choice is the query's count.
- **`RepliesConsistent`**: `Spec => []CalendarAgrees`. `AnswersSince` says that the answer being recorded is the one
  that was when the days were read or has begun since, on a day that was not over then; so no step touches a
  settled day, and it is still as it was shown (`SettledAsShown`) when the streak is read.

### Daily tasks (`HomeTasksProofs`)

One invariant, `HomeInv`, for all five properties of the run `home` and for the refinement.

- **`HomeIsLearnerDay`**: `Spec => DaySpec`, the other half of the joint between the two models. An `Insert` assigns a task to a slot without
  one or changes nothing; an `Answer` turns one open row into a done one, or none. TLC confirms it on the bounds of run `home`
  (no run of its own: the theorem is for all of them). Stating it showed that `Answer` had been too narrow: it took the question
  to be published when the answer is stored and always to complete the lowest open slot, whereas a
  transaction of yesterday, or one that chose its slot before another was filled, completes another one or none. `Answer` allows for them now,
  and all theorems about `HomeTasks` hold as before.
- **`HomeTyped`**, **`HomeComplete`**: `TypeOK` and `ReplyComplete`. `Filled` is what a request keeps during
  its loop: a slot that is listed and neither skipped nor still to fill has a task, as nothing but a
  midnight takes tasks away.
- **`RepliesOfADayAgree`**: `RepliesAgree`, from `ShownStays` (what has been shown today is still in `daily` with its question).
- **`TasksFresh`**: `FreshTask`. Questions answered may grow between pick and insert, so that the task may be of a question
  answered *since*, which the code allows; `GetKnows` keeps the pick of a request apart from those answered when that same
  request began.
- **`EmptyForReason`**: `SkippedForReason`. `Vetted`: a checked condition, stored or still on its way, is met
  by a published question as long as no question changes. A slot whose last question goes between the check and the
  save is stored without a condition that anything meets; the code promises nothing about it, and neither does the property.

### Users (`UserAccountsProofs`)

- **`AccountsTyped`**: `TypeOK`, which the other proofs use and no run checks, the theorem being for every instance.
- **`FirstLoginOnce`**, **`UserHasProgress`**: `ProvisionedOnce`, `ProgressWithUser`. At
  most one open transaction has inserted a subject (`InsertsExclusive`), and only while the row is not there
  (`RowThere`); so a commit finds no earlier one.
- **`NoPatchUndone`**, **`EmailNeverReplaced`**: `PatchesKept` and the action property `EmailStays`. Who has read a row finds it
  there when it writes (`RowThere`), and each of the two statements is a rewriting of the *current* row
  (`BackfillRow`, `UpdateRow`).

### The process (`ApiServerProofs`)

All 21 handlers are covered, where the run `server` serves six. `JwksCache` is one object of this process, and its theorems stand here, read
through an instance whose variables are its own; `CacheAssumption` is `JwksAssumption` for the instance's constants.

- **`RotatedAwayForgotten`**: the action property `DroppedKeysForgotten` of `JwksCache`, for any number
  of requests and keys. `FetchKnows` says that what the issuer has now was issued during every fetch still waiting, and that a
  response in hand holds only what was issued during its own fetch; storing puts that response in the place of
  everything else, whatever other fetches stored before.
- **`OwnFetchesKeepApart`**: the action property `OwnFetchesApart`, without a hypothesis. `OwnInv` says that a request that goes by an age
  goes by one no greater than that of its own last fetch that did not fail (`OwnFetchStored`): once that is stored the cache is no older, whoever replaces it
  afterwards, since the code takes the time when it stores and not when it begins. This is what is left of the comment on the
  interval when requests overlap.
- **`LoneFetchesApart`**: where no request misses while another one misses or fetches (`LoneMiss`) and no fetch fails (`NoFailure`),
  `FetchesApart`, which run `jwks_apart` refutes, holds. `SpacingInv`: the age a request goes by is that of the cache, and the cache is no
  older than the last fetch, once that is stored.
- **`RepliesTrue`**: `RepliesTruthful`. Every body has one of twelve shapes (`BodyShapes`), in none of which what may refuse comes
  after what stores (`ShapesLookFirst`), and the handlers that promise a write cannot end without one (`StoringBodies`).
  `Ahead` carries this along a request: a handler that has stored something has nothing before it that refuses, and one
  that must store has done so or has it before it.
- **`ServerTyped`**, **`RoutesGuarded`**, **`LeavesIdle`**: `TypeOK`, `Guarded` and the action property `ExitWaits`. The pool
  never lends more than it has (`ConnsOk`), though requests may be infinitely many; a listener exists only after an authentication mode was
  accepted (`ProcessOk`).

### Review, editing and listings (`QuestionReviewProofs`, `ListPagingProofs`)

- **`TypeCorrect`**: `Spec => []TypeOK`, with `Known` (a review or patch in progress has its
  arguments) to make it inductive.
- **`NoDecisionOverwritten`**, **`DecisionMovesStatus`**: `Spec => DecidedOnce` and
  `Spec => DecisionWithStatus`, two action properties from one invariant: the rows a reviewer has
  found exist and are of its question (`FoundRows`), those it has claimed are undecided
  (`ClaimedRows`), and no row is claimed twice (`ClaimsDisjoint`). Hence a commit decides rows that nobody has decided.
- **`ReviewsAtOnce`**: `Spec => DeskSpec`, the refinement: a commit is one decision of `ReviewDesk` on at least one undecided entry.
  The proof found that `ReviewDesk!Decide` said less than it was meant to: `SUBSET Undecided(q) \ {{}}` is the subsets of a
  difference, and admitted a decision without entries. It is parenthesised now.
- **`UncrossedKeepKeys`**: `Spec /\ []NoneCrossed => []KeysAreChoices`, for any number of editors. The invariant
  adds `PatchValid`: a validated patch is still valid on what the question holds. Another patch can undo that only by giving the
  column that this one was checked against and does not give itself (`Crossed`); two patches of the choices, of the
  correct keys, or of both columns do each other no harm. **`OneEditorKeepsKeys`** is the corollary for one editor. Run
  `two_editors` shows that crossed patches break the property.
- **`NoRowTwice`**, **`WalkIsComplete`**: `NothingTwice` and `NothingSkipped`, for any rows, times
  and limits. The invariant says where the cursor is: nothing the client has been given lies after it
  (`GivenBehind`), and every lasting row it has not been given does (`RestAhead`). It rests on the
  cursor giving back the key it was made of (`CursorKeepsKey`), on `(created_at, id)` being a total order (`PrecedesOrder`) and on a page without a next cursor being all there
  was (`LastPageWhole`), which is what the one row more than the limit is read for.

### Only model-checked

- Liveness, which is out of the prover's reach (`SomeAnswerGoesOn` is the part of `Terminates` that is safety): `Terminates`, `ReviewAnswered`, `WalkEnds`, `AllAnswered`, `RotatedKeyAccepted`,
  `Exits`, `Answered`.
- The three violations of section 6, which are traces. Each has a theorem that says under which condition the property does
  hold: `FreshSnapshotsCredit`, `UncrossedKeepKeys`, `LoneFetchesApart`.

## 6. Findings

1. **A completed day that is not credited** (`race`; `repository/attempt.go:97`). Two answers that
   complete the last two tasks of a day at once each compute the streak from a snapshot without
   the other's completion. The day is complete, `streak_days` and `last_studied_on` stay behind until
   a later answer. The comment at `repository/attempt.go:13` says that all derived state is updated
   in the transaction. With one transaction at a time (`serial`) every day is credited, and so it is whenever no answer is left
   waiting with an old snapshot (`FreshSnapshotsCredit`).
2. **Two valid patches, one invalid question** (`two_editors`; `service/admin_question.go:142`).
   Validation and write are separate statements, so the check at line 138 may not hold at the write when another
   patch has given the column that this one was checked against (`UncrossedKeepKeys`).
3. **Fetches closer than the refresh interval** (`jwks_apart`; `middleware/auth_cognito.go:60`).
   Concurrent misses all fetch, and a failed fetch leaves `lastFetched` as it was, whereas the
   comment at line 29 calls the constant the shortest interval between fetches. Without either cause
   the comment is right (`LoneFetchesApart`); with both, what is left is that the successful fetches of one client that waits
   for its answers are an interval apart (`OwnFetchesApart`).

Observed while modelling, with no run of their own, since no text in the repository promises otherwise or no
interleaving is needed to see them:

- `POST /me` answers without `avatar_url` (`repository/user.go:67` does not return it), whereas the comment at
  line 53 says the reply is what `GET /me` gives.
- A slot without a difficulty is accepted if a question of any difficulty exists (`repository/taskslot.go:63`), and
  filled with difficulty 3 only (`service/home.go:35`): it may never get a task.
- `GET /me` with a token's e-mail shows that e-mail even when another request has stored a different one
  first (`service/user.go:31`).
- A process that cannot listen (the address is taken) logs the error and exits with status 0: `stop()` ends the wait as a
  signal does, and `e.Shutdown` returns nil (`cmd/api/main.go:85`).
- `e.Shutdown` waits for nothing (see ApiServer). What holds is `ExitWaits`: the pool finishes statements and
  transactions. A handler of several statements can be stopped between them, gets a 500 from the closed pool, or
  no reply at all when `main` returns first.
- The stored `streak_days` is not touched when a day is missed: `GET /me` and `GET /home` show it until the next answer,
  while `GET /calendar` computes 0.
- A slot added after the day's tasks are completed brings a new task on the next `GET /home`, and the day is no
  longer completed.
- `apperr/apperr.go` describes one envelope for every error; `GET /healthz` answers 503 with a body of its own.

## 7. Not modelled

- *Grading* (`sameStringSet`): an answer is correct or not, an input of `AttemptTx`.
- *What reads return*: which rows are due, statistics, skills, the filters of the listings, the contents of a question. Their statements
  are in `ApiServer`, and the walk of the listings in `ListPaging`.
- *Error codes, messages and envelopes*: `ApiServer` tells success, refusal and server error apart.
- *Verification of a token* (signature, issuer, `client_id`, expiry): a condition on the inputs. The cache of keys it uses is modelled.
- *Formats and wording*: base64 and JSON of cursors, dates, names, URLs, CORS, logging. The date that `GET /home` adds to its
  reply comes from another clock than its tasks.
- `codetrain-core` (domain types, schema) is outside the repository; the schema is inferred from the statements that use it.

## 8. Plan

Every invariant and every action property that a passing run checks is proved. What could follow:

1. The grading of an answer and the rows that `GET /srs/due` returns, as operators checked against the statements.
2. `ApiServer` with the cache inside: a request that misses its key waits for a fetch, which the pool's bound and the exit should not depend on.
