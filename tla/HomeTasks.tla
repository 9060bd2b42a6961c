------------------------------ MODULE HomeTasks ------------------------------
(***************************************************************************)
(* One learner's daily tasks.  GET /home (service/home.go) reads the task  *)
(* slots, picks an unanswered published question for each, inserts it for  *)
(* today unless the slot has a task, and reads the tasks of today back:    *)
(* separate statements without a transaction, run by concurrent reloads    *)
(* next to the learner's changes of the slots (service/taskslot.go) and    *)
(* answers, an admin's changes of the questions, and midnight.             *)
(***************************************************************************)
EXTENDS Integers, FiniteSets, FiniteSetsExt

CONSTANTS
    Questions,
    Kinds,        \* (question type, code language)
    Levels,       \* difficulties
    DefaultLevel, \* the difficulty of a slot that names none
    NSlots,
    Gets,         \* GET /home requests
    Puts,         \* PUT /task-slots/:slot_no requests
    MaxChanges,   \* bound on the steps of the learner, the admin and the calendar
    NULL

Slots   == 1 .. NSlots
Offers  == [kind : Kinds, level : Levels]
Configs == [kind : Kinds, level : Levels \union {NULL}]

\* A row of daily_task; done stands for completed_at.
Task == [question : Questions, done : BOOLEAN]

ASSUME HomeAssumption ==
    /\ NSlots \in Nat \ {0} /\ MaxChanges \in Nat
    /\ DefaultLevel \in Levels
    /\ Puts \intersect Slots = {}   \* `vetted` holds both
    /\ NULL \notin Levels \union Questions /\ NULL \notin Configs \union Task
    /\ NULL \notin [slot : Slots, config : Configs]

VARIABLES
    offer,      \* table question: type, language and difficulty
    published,  \* the questions with that status
    answered,   \* the questions the learner has an attempt of
    slots,      \* table user_task by slot_no, or NULL
    daily,      \* table daily_task: the rows of today by slot_no, or NULL
    gpc, listed, todo, picked, reply,   \* each GET: the slots it has read, those
                                        \* it has still to fill, its pick, its tasks
    ppc, wish,                          \* each PUT: the slot and its condition
    \* What only properties read:
    skipped,    \* slots each GET found no question for
    before,     \* the questions answered when each GET began
    crossed,    \* the GETs during which a day has ended
    shown,      \* the question the learner has been shown today, by slot
    vetted,     \* slots and PUTs whose condition was checked against the questions
                \* as they still are
    changes

bank == <<offer, published>>
gets == <<gpc, listed, todo, picked, reply, skipped, before, crossed, shown>>
puts == <<ppc, wish, vetted>>
vars == <<bank, answered, slots, daily, gets, puts, changes>>

None == [s \in Slots |-> NULL]

-----------------------------------------------------------------------------
\* Mutant: the difficulty is not compared.
OptionOfKind(c) == \E q \in published : offer[q].kind = c.kind

\* A published question of the slot's kind, and of its difficulty if it names one.
OptionExists(c) ==
    \E q \in published : offer[q].kind = c.kind /\ c.level \in {NULL, offer[q].level}

LevelOf(c) == IF c.level = NULL THEN DefaultLevel ELSE c.level

\* Mutant: the NOT EXISTS on the learner's attempts is missing.
AvailableAnyway(c) ==
    {q \in published : offer[q] = [kind |-> c.kind, level |-> LevelOf(c)]}

\* The questions PickUnansweredPublished chooses from at random.
Available(c) ==
    {q \in published \ answered : offer[q] = [kind |-> c.kind, level |-> LevelOf(c)]}

Init ==
    /\ offer \in [Questions -> Offers]
    /\ published \in SUBSET Questions
    /\ answered = {}
    /\ slots \in [Slots -> Configs \union {NULL}]
    /\ \A s \in Slots : slots[s] # NULL => OptionExists(slots[s])
    /\ daily = None
    /\ gpc = [g \in Gets |-> "idle"]
    /\ listed = [g \in Gets |-> None]
    /\ todo = [g \in Gets |-> {}]
    /\ picked = [g \in Gets |-> NULL]
    /\ reply = [g \in Gets |-> None]
    /\ ppc = [w \in Puts |-> "idle"]
    /\ wish = [w \in Puts |-> NULL]
    /\ skipped = [g \in Gets |-> {}]
    /\ before = [g \in Gets |-> {}]
    /\ crossed = {}
    /\ shown = None
    /\ vetted = {s \in Slots : slots[s] # NULL}
    /\ changes = 0

-----------------------------------------------------------------------------
\* GET /home: the slots are read, in the order of their numbers.
ListSlots(g) ==
    /\ gpc[g] = "idle"
    /\ gpc' = [gpc EXCEPT ![g] = "filling"]
    /\ listed' = [listed EXCEPT ![g] = slots]
    /\ todo' = [todo EXCEPT ![g] = {s \in Slots : slots[s] # NULL}]
    /\ before' = [before EXCEPT ![g] = answered]
    /\ UNCHANGED <<bank, answered, slots, daily, picked, reply, skipped, crossed,
                   shown, puts, changes>>

\* The slot it fills now.
Current(g) == Min(todo[g])

\* Mutant: the pick of no row is not told from a pick.
PickAnything(g) ==
    /\ gpc[g] = "filling" /\ todo[g] # {}
    /\ \E q \in Available(listed[g][Current(g)]) \union {NULL} :
           picked' = [picked EXCEPT ![g] = q]
    /\ gpc' = [gpc EXCEPT ![g] = "picked"]
    /\ UNCHANGED <<bank, answered, slots, daily, listed, todo, reply, skipped, before,
                   crossed, shown, puts, changes>>

\* A question is picked for it.
Pick(g) ==
    /\ gpc[g] = "filling" /\ todo[g] # {}
    /\ \E q \in Available(listed[g][Current(g)]) : picked' = [picked EXCEPT ![g] = q]
    /\ gpc' = [gpc EXCEPT ![g] = "picked"]
    /\ UNCHANGED <<bank, answered, slots, daily, listed, todo, reply, skipped, before,
                   crossed, shown, puts, changes>>

\* Mutant: break where the code has continue.
SkipRest(g) ==
    /\ gpc[g] = "filling" /\ todo[g] # {}
    /\ Available(listed[g][Current(g)]) = {}
    /\ todo' = [todo EXCEPT ![g] = {}]
    /\ skipped' = [skipped EXCEPT ![g] = @ \union {Current(g)}]
    /\ UNCHANGED <<bank, answered, slots, daily, gpc, listed, picked, reply, before,
                   crossed, shown, puts, changes>>

\* There is none: ErrNotFound, and the loop continues with the next slot.
Skip(g) ==
    /\ gpc[g] = "filling" /\ todo[g] # {}
    /\ Available(listed[g][Current(g)]) = {}
    /\ todo' = [todo EXCEPT ![g] = @ \ {Current(g)}]
    /\ skipped' = [skipped EXCEPT ![g] = @ \union {Current(g)}]
    /\ UNCHANGED <<bank, answered, slots, daily, gpc, listed, picked, reply, before,
                   crossed, shown, puts, changes>>

\* UpsertDailyTask: a row of today, unless the slot has one.
Insert(g) ==
    /\ gpc[g] = "picked"
    /\ daily' = [daily EXCEPT ![Current(g)] =
                    IF @ = NULL THEN [question |-> picked[g], done |-> FALSE] ELSE @]
    /\ gpc' = [gpc EXCEPT ![g] = "filling"]
    /\ todo' = [todo EXCEPT ![g] = @ \ {Current(g)}]
    /\ picked' = [picked EXCEPT ![g] = NULL]
    /\ UNCHANGED <<bank, answered, slots, listed, reply, skipped, before, crossed,
                   shown, puts, changes>>

\* The questions of today's tasks; the questions exist, published or not.
TodayHome == [s \in Slots |-> IF daily[s] = NULL THEN NULL ELSE daily[s].question]

\* Mutant: only the slots that the request has read are answered.
ReadBackListed(g) ==
    /\ gpc[g] = "filling" /\ todo[g] = {}
    /\ LET tasks == [s \in Slots |-> IF listed[g][s] = NULL THEN NULL ELSE TodayHome[s]]
       IN  /\ reply' = [reply EXCEPT ![g] = tasks]
           /\ shown' = [s \in Slots |-> IF tasks[s] = NULL THEN shown[s] ELSE tasks[s]]
    /\ gpc' = [gpc EXCEPT ![g] = "read"]
    /\ UNCHANGED <<bank, answered, slots, daily, listed, todo, picked, skipped, before,
                   crossed, puts, changes>>

\* GetTodayHome: the tasks of the day it is by now.
ReadBack(g) ==
    /\ gpc[g] = "filling" /\ todo[g] = {}
    /\ reply' = [reply EXCEPT ![g] = TodayHome]
    /\ shown' = [s \in Slots |-> IF daily[s] = NULL THEN shown[s] ELSE TodayHome[s]]
    /\ gpc' = [gpc EXCEPT ![g] = "read"]
    /\ UNCHANGED <<bank, answered, slots, daily, listed, todo, picked, skipped, before,
                   crossed, puts, changes>>

GetOver(g) ==
    /\ gpc' = [gpc EXCEPT ![g] = "done"]
    /\ listed' = [listed EXCEPT ![g] = None]
    /\ todo' = [todo EXCEPT ![g] = {}]
    /\ picked' = [picked EXCEPT ![g] = NULL]
    /\ reply' = [reply EXCEPT ![g] = None]
    /\ skipped' = [skipped EXCEPT ![g] = {}]
    /\ before' = [before EXCEPT ![g] = {}]
    /\ crossed' = crossed \ {g}
    /\ UNCHANGED <<bank, answered, slots, daily, shown, puts, changes>>

\* 200 with the tasks, or 500 after any of the statements: rows inserted stay.
Reply(g)   == gpc[g] = "read" /\ GetOver(g)
FailGet(g) == gpc[g] \in {"filling", "picked"} /\ GetOver(g)

-----------------------------------------------------------------------------
Change == changes < MaxChanges /\ changes' = changes + 1

\* PUT /task-slots/:slot_no: the condition is looked up ...
CheckSlot(w, s, c) ==
    /\ Change
    /\ ppc[w] = "idle" /\ OptionExists(c)
    /\ ppc' = [ppc EXCEPT ![w] = "checked"]
    /\ wish' = [wish EXCEPT ![w] = [slot |-> s, config |-> c]]
    /\ vetted' = vetted \union {w}
    /\ UNCHANGED <<bank, answered, slots, daily, gets>>

\* ... 422 if no question meets it: nothing is stored.  Otherwise it is upserted by
\* a statement of its own.
SaveSlot(w) ==
    /\ ppc[w] = "checked"
    /\ ppc' = [ppc EXCEPT ![w] = "idle"]
    /\ wish' = [wish EXCEPT ![w] = NULL]
    /\ slots' = [slots EXCEPT ![wish[w].slot] = wish[w].config]
    /\ vetted' = (vetted \ {w, wish[w].slot})
                     \union (IF w \in vetted THEN {wish[w].slot} ELSE {})
    /\ UNCHANGED <<bank, answered, daily, gets, changes>>

\* The upsert fails before it is executed.
FailPut(w) ==
    /\ ppc[w] = "checked"
    /\ ppc' = [ppc EXCEPT ![w] = "idle"]
    /\ wish' = [wish EXCEPT ![w] = NULL]
    /\ vetted' = vetted \ {w}
    /\ UNCHANGED <<bank, answered, slots, daily, gets, changes>>

\* DELETE /task-slots/:slot_no; the slot's task of today stays.
DeleteSlot(s) ==
    /\ Change
    /\ slots[s] # NULL
    /\ slots' = [slots EXCEPT ![s] = NULL]
    /\ vetted' = vetted \ {s}
    /\ UNCHANGED <<bank, answered, daily, gets, ppc, wish>>

\* The open tasks of today that ask a question.
Open(q) == {s \in Slots : daily[s] = [question |-> q, done |-> FALSE]}

\* The transaction that records an answer commits.  It began when the question was
\* published, perhaps on the day before, and chose a task then: the lowest open one of
\* its day, if there was one.
Answer(q) ==
    /\ Change
    /\ answered' = answered \union {q}
    /\ \/ UNCHANGED daily
       \/ \E s \in Open(q) : daily' = [daily EXCEPT ![s].done = TRUE]
    /\ UNCHANGED <<bank, slots, gets, puts>>

\* Review decisions and edits of the questions.
ChangeBank(pub, o) ==
    /\ Change
    /\ <<pub, o>> # <<published, offer>>
    /\ published' = pub
    /\ offer' = o
    /\ vetted' = {}
    /\ UNCHANGED <<answered, slots, daily, gets, ppc, wish>>

Decide(q)   == \E pub \in {published \union {q}, published \ {q}} : ChangeBank(pub, offer)
Edit(q, o)  == ChangeBank(published, [offer EXCEPT ![q] = o])

\* Midnight in Japan: from now on every statement works on the rows of a new day.
NextDay ==
    /\ Change
    /\ daily' = None
    /\ shown' = None
    /\ crossed' = {g \in Gets : gpc[g] \in {"filling", "picked", "read"}}
    /\ UNCHANGED <<bank, answered, slots, gpc, listed, todo, picked, reply, skipped,
                   before, puts>>

GetStep(g) ==
    \/ ListSlots(g)
    \/ Pick(g)
    \/ Skip(g)
    \/ Insert(g)
    \/ ReadBack(g)
    \/ Reply(g)
    \/ FailGet(g)

Next ==
    \/ \E g \in Gets : GetStep(g)
    \/ \E w \in Puts :
          \/ \E s \in Slots, c \in Configs : CheckSlot(w, s, c)
          \/ SaveSlot(w)
          \/ FailPut(w)
    \/ \E s \in Slots : DeleteSlot(s)
    \/ \E q \in Questions :
          \/ Answer(q)
          \/ Decide(q)
          \/ \E o \in Offers : Edit(q, o)
    \/ NextDay

Spec == Init /\ [][Next]_vars

-----------------------------------------------------------------------------
TypeOK ==
    /\ offer \in [Questions -> Offers]
    /\ published \subseteq Questions /\ answered \subseteq Questions
    /\ slots \in [Slots -> Configs \union {NULL}]
    /\ daily \in [Slots -> Task \union {NULL}]
    /\ gpc \in [Gets -> {"idle", "filling", "picked", "read", "done"}]
    /\ listed \in [Gets -> [Slots -> Configs \union {NULL}]]
    /\ todo \in [Gets -> SUBSET Slots]
    /\ picked \in [Gets -> Questions \union {NULL}]
    /\ reply \in [Gets -> [Slots -> Questions \union {NULL}]]
    /\ ppc \in [Puts -> {"idle", "checked"}]
    /\ wish \in [Puts -> [slot : Slots, config : Configs] \union {NULL}]
    /\ skipped \in [Gets -> SUBSET Slots]
    /\ before \in [Gets -> SUBSET Questions]
    /\ crossed \subseteq Gets
    /\ shown \in [Slots -> Questions \union {NULL}]
    /\ vetted \subseteq Slots \union Puts
    /\ changes \in 0 .. MaxChanges

\* A GET that no midnight interrupts answers with a task for every slot it has read
\* and not found without a question, whoever inserted the task (service/home.go:38-56).
ReplyComplete ==
    \A g \in Gets : gpc[g] = "read" /\ g \notin crossed =>
        \A s \in Slots : listed[g][s] # NULL /\ s \notin skipped[g] => reply[g][s] # NULL

\* The replies of a day never contradict each other: a task the learner has been
\* shown today is in every later reply of the day, with the same question, whatever
\* concurrent reloads have picked and however slots and questions have changed
\* (ON CONFLICT DO NOTHING, repository/home.go:31).
RepliesAgree ==
    [][\A g \in Gets : gpc[g] = "filling" /\ gpc'[g] = "read" =>
           \A s \in Slots : shown[s] # NULL => reply'[g][s] = shown[s]]_vars

\* No task is assigned a question that the learner had answered when the request
\* that assigns it began (repository/home.go:17).  A question answered, or withdrawn,
\* between the request's pick and its insert is assigned all the same: the code does
\* not look again, and nothing says that it should.
FreshTask ==
    [][\A s \in Slots : daily'[s] # NULL /\ daily[s] = NULL =>
           \E g \in Gets : /\ gpc[g] = "picked" /\ gpc'[g] = "filling"
                          /\ daily'[s].question \notin before[g]]_vars

\* A slot is empty only for a reason the learner can know: as long as the questions
\* are as they were when its condition was accepted, a slot that names a difficulty
\* is skipped only once the learner has answered a question it offers
\* (service/taskslot.go:92-99 and service/home.go:43).  A question withdrawn or edited
\* between the check and the save of a condition is such a change: the slot may then be
\* empty from the start, which the code does not prevent and nothing rules out.
SkippedForReason ==
    [][\A g \in Gets : \A s \in skipped'[g] \ skipped[g] :
           s \in vetted /\ slots[s] = listed[g][s] /\ slots[s].level # NULL =>
               \E q \in published \intersect answered :
                   offer[q].kind = slots[s].kind /\ offer[q].level = slots[s].level]_vars

\* The tasks of today as rows of the abstract table; the model has one learner.
TodayTasks ==
    {t \in [user : {"me"}, slot : Slots, question : Questions, done : BOOLEAN] :
        daily[t.slot] = [question |-> t.question, done |-> t.done]}

\* Requests, answers and midnight change the tasks of today as LearnerDay says, which
\* AttemptTx implements too: what GET /home is specified to meet is what the
\* transactions do (service/home.go:49, repository/attempt.go:78-87).
Day == INSTANCE LearnerDay
    WITH Learners <- {"me"}, answered <- {"me"} \X answered, tasks <- TodayTasks
DaySpec == Day!Spec
=============================================================================
