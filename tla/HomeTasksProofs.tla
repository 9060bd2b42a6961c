--------------------------- MODULE HomeTasksProofs ---------------------------
(***************************************************************************)
(* Theorems about HomeTasks, for any number of concurrent GET /home and    *)
(* PUT /task-slots, of slots, questions and days: what GET /home answers   *)
(* is complete, fresh and the same all day, without a transaction and      *)
(* without a lock.                                                         *)
(***************************************************************************)
EXTENDS HomeTasks, WellFoundedInduction, TLAPS

-----------------------------------------------------------------------------
\* The inductive invariant.

\* What a GET in progress knows: the questions answered when it began are still answered,
\* and its pick is none of them.
GetKnows(g) ==
    /\ gpc[g] = "picked" => todo[g] # {} /\ picked[g] \in Questions \ before[g]
    /\ gpc[g] \in {"filling", "picked"} => before[g] \subseteq answered

\* A slot it has read, has not skipped and does not have before it any more has a task,
\* since nothing but midnight takes a task away.
Filled(g) ==
    gpc[g] \in {"filling", "picked"} /\ g \notin crossed =>
        \A s \in Slots : listed[g][s] # NULL /\ s \notin skipped[g] \union todo[g]
                             => daily[s] # NULL

\* Its reply has a task for each of them.
Served(g) ==
    gpc[g] = "read" /\ g \notin crossed =>
        \A s \in Slots : listed[g][s] # NULL /\ s \notin skipped[g] => reply[g][s] # NULL

\* What has been shown today is still there, with its question.
ShownStays == \A s \in Slots : shown[s] # NULL => daily[s] # NULL /\ daily[s].question = shown[s]

\* A PUT that has checked a condition still has it.
PutKnows(w) == ppc[w] = "checked" => wish[w] # NULL

\* A vetted condition, of a slot or on its way there, is met by a published question.
Vetted ==
    /\ \A s \in Slots : s \in vetted => slots[s] # NULL /\ OptionExists(slots[s])
    /\ \A w \in Puts : w \in vetted => ppc[w] = "checked" /\ OptionExists(wish[w].config)

\* So much for the requests of GET /home.
GetsOk == \A g \in Gets : GetKnows(g) /\ Filled(g) /\ Served(g)

\* The inductive invariant.
HomeInv == /\ TypeOK
           /\ GetsOk
           /\ ShownStays
           /\ \A w \in Puts : PutKnows(w)
           /\ Vetted

-----------------------------------------------------------------------------
\* A nonempty set of natural numbers has a least member, which Min yields.
LEMMA MinIsLeast ==
    ASSUME NEW S \in SUBSET Nat, S # {}
    PROVE  Min(S) \in S /\ \A x \in S : Min(S) <= x
<1>1. PICK m \in S : \A x \in S : <<x, m>> \notin OpToRel(<, Nat)
  BY NatLessThanWellFounded, WFMin
<1>2. \A x, y \in Nat : x < y => <<x, y>> \in OpToRel(<, Nat)
  BY DEF OpToRel
<1>3. \A x \in S : m <= x
  <2> TAKE x \in S
  <2>1. ~(x < m)
    BY ONLY <1>1, <1>2, m \in Nat, x \in Nat
  <2> QED  BY <2>1
<1> QED  BY <1>3 DEF Min

\* The loop works on a slot that it has still to fill.
LEMMA CurrentTodo ==
    ASSUME TypeOK, NEW g \in Gets, todo[g] # {}
    PROVE  Current(g) \in todo[g] /\ Current(g) \in Slots
<1>1. todo[g] \in SUBSET Slots
  BY DEF TypeOK
<1>2. Slots \subseteq Nat
  BY HomeAssumption DEF Slots
<1> QED  BY <1>1, <1>2, MinIsLeast DEF Current

\* Whatever the condition, only published questions that are not answered are picked.
LEMMA AvailableUnanswered ==
    ASSUME NEW c
    PROVE  Available(c) \subseteq published \ answered
BY DEF Available

\* A task with its second column replaced.
LEMMA RowDone ==
    ASSUME NEW q, NEW b, NEW c
    PROVE  [[question |-> q, done |-> b] EXCEPT !.done = c] = [question |-> q, done |-> c]
OBVIOUS

\* Completing an open task replaces its row by the same one, done.
LEMMA CompletedRow ==
    ASSUME TypeOK, NEW q \in Questions, NEW s \in Open(q),
           daily' = [daily EXCEPT ![s].done = TRUE]
    PROVE  /\ s \in Slots /\ daily[s] = [question |-> q, done |-> FALSE]
           /\ daily' = [daily EXCEPT ![s] = [question |-> q, done |-> TRUE]]
           /\ [question |-> q, done |-> TRUE] \in Task
<1>1. s \in Slots /\ daily[s] = [question |-> q, done |-> FALSE]
  BY DEF Open
<1>2. [[question |-> q, done |-> FALSE] EXCEPT !.done = TRUE] = [question |-> q, done |-> TRUE]
  BY RowDone, Zenon
<1>3. daily' = [daily EXCEPT ![s] = [question |-> q, done |-> TRUE]]
  BY <1>1, <1>2
<1> QED  BY <1>1, <1>3 DEF Task

\* No request at first, no task, and slots whose conditions are met.
LEMMA InitHome == Init => HomeInv
<1> SUFFICES ASSUME Init PROVE HomeInv
  OBVIOUS
<1> USE DEF Init, None
<1>1. TypeOK
  BY HomeAssumption DEF TypeOK
<1>2. GetsOk
  BY DEF GetsOk, GetKnows, Filled, Served
<1>3. Vetted
  BY HomeAssumption DEF Vetted
<1>4. ShownStays /\ \A w \in Puts : PutKnows(w)
  BY DEF ShownStays, PutKnows
<1> QED  BY <1>1, <1>2, <1>3, <1>4 DEF HomeInv

-----------------------------------------------------------------------------
\* The steps of GET /home.  They leave the slots, the questions and the PUTs alone.
LEMMA VettedSame ==
    ASSUME HomeInv, UNCHANGED <<bank, slots, puts>>
    PROVE  Vetted' /\ \A w \in Puts : PutKnows(w)'
BY DEF HomeInv, Vetted, PutKnows, OptionExists, bank, puts

\* It begins: nothing is skipped, and every slot read is still to fill.
LEMMA ListSlotsStep ==
    ASSUME HomeInv, NEW g \in Gets, ListSlots(g)
    PROVE  HomeInv'
<1> USE DEF HomeInv, ListSlots
<1>1. TypeOK'
  BY DEF TypeOK, bank, puts
<1>2. GetsOk'
  BY DEF TypeOK, GetsOk, GetKnows, Filled, Served
<1>3. ShownStays'
  BY DEF ShownStays
<1> QED  BY <1>1, <1>2, <1>3, VettedSame

\* The pick is not answered, so it was not when the request began.
LEMMA PickStep ==
    ASSUME HomeInv, NEW g \in Gets, Pick(g)
    PROVE  HomeInv'
<1> USE DEF HomeInv
<1>1. PICK q \in published \ answered : picked' = [picked EXCEPT ![g] = q]
  BY AvailableUnanswered DEF Pick
<1>2. q \in Questions \ before[g]
  BY <1>1 DEF TypeOK, Pick, GetsOk, GetKnows
<1>3. TypeOK'
  BY <1>1, <1>2 DEF TypeOK, Pick, bank, puts
<1>4. GetsOk'
  BY <1>1, <1>2 DEF TypeOK, GetsOk, GetKnows, Filled, Served, Pick
<1>5. ShownStays'
  BY DEF ShownStays, Pick
<1> QED  BY <1>3, <1>4, <1>5, VettedSame DEF Pick

\* A slot without a question moves from todo to skipped.
LEMMA SkipStep ==
    ASSUME HomeInv, NEW g \in Gets, Skip(g)
    PROVE  HomeInv'
<1> USE DEF HomeInv, Skip
<1>1. Current(g) \in todo[g] /\ Current(g) \in Slots
  BY CurrentTodo
<1>2. TypeOK'
  BY <1>1 DEF TypeOK, bank, puts
<1>3. GetsOk'
  BY <1>1 DEF TypeOK, GetsOk, GetKnows, Filled, Served
<1>4. ShownStays'
  BY DEF ShownStays
<1> QED  BY <1>2, <1>3, <1>4, VettedSame

\* ON CONFLICT DO NOTHING: a slot that has a task keeps it.
LEMMA InsertStep ==
    ASSUME HomeInv, NEW g \in Gets, Insert(g)
    PROVE  HomeInv'
<1> USE DEF HomeInv, Insert
<1>1. /\ Current(g) \in todo[g] /\ Current(g) \in Slots
      /\ [question |-> picked[g], done |-> FALSE] \in Task
  BY CurrentTodo DEF GetsOk, GetKnows, Task
<1>2. /\ daily' \in [Slots -> Task \union {NULL}] /\ daily'[Current(g)] # NULL
      /\ \A s \in Slots : daily[s] # NULL => daily'[s] = daily[s]
  BY <1>1, HomeAssumption DEF TypeOK
<1>3. TypeOK'
  BY <1>1, <1>2 DEF TypeOK, bank, puts
<1>4. GetsOk'
  <2>1. ASSUME NEW h \in Gets
        PROVE  GetKnows(h)' /\ Served(h)'
    BY <2>1 DEF TypeOK, GetsOk, GetKnows, Served
  <2>2. ASSUME NEW h \in Gets
        PROVE  Filled(h)'
    BY <1>1, <1>2, <2>2 DEF TypeOK, GetsOk, Filled
  <2> QED  BY <2>1, <2>2 DEF GetsOk
<1>5. ShownStays'
  BY <1>2 DEF ShownStays
<1> QED  BY <1>3, <1>4, <1>5, VettedSame

\* The reply has every task there is, and they are shown from now on.
LEMMA ReadBackStep ==
    ASSUME HomeInv, NEW g \in Gets, ReadBack(g)
    PROVE  HomeInv'
<1> USE DEF HomeInv, ReadBack
<1>1. /\ TodayHome \in [Slots -> Questions \union {NULL}]
      /\ \A s \in Slots : daily[s] # NULL => TodayHome[s] # NULL /\ TodayHome[s] = daily[s].question
      /\ \A s \in Slots : daily[s] = NULL => TodayHome[s] = NULL
  BY HomeAssumption DEF TodayHome, TypeOK, Task
<1>2. TypeOK'
  BY <1>1 DEF TypeOK, bank, puts
<1>3. GetsOk'
  BY <1>1 DEF TypeOK, GetsOk, GetKnows, Filled, Served
<1>4. ShownStays'
  BY <1>1 DEF ShownStays
<1> QED  BY <1>2, <1>3, <1>4, VettedSame

\* A request that is over knows nothing.
LEMMA GetOverStep ==
    ASSUME HomeInv, NEW g \in Gets, GetOver(g)
    PROVE  HomeInv'
<1> USE DEF HomeInv, GetOver
<1>1. TypeOK'
  BY DEF TypeOK, None, bank, puts
<1>2. GetsOk'
  BY DEF TypeOK, GetsOk, GetKnows, Filled, Served
<1>3. ShownStays'
  BY DEF ShownStays
<1> QED  BY <1>1, <1>2, <1>3, VettedSame

-----------------------------------------------------------------------------
\* The learner, the admin and the calendar.

\* What leaves the requests of GET /home right: tasks stay, with their questions, and
\* answers are not taken back.
LEMMA GetsSame ==
    ASSUME HomeInv, UNCHANGED gets, answered \subseteq answered',
           \A s \in Slots : daily[s] # NULL =>
               daily'[s] # NULL /\ daily'[s].question = daily[s].question
    PROVE  GetsOk' /\ ShownStays'
BY DEF HomeInv, GetsOk, GetKnows, Filled, Served, ShownStays, gets

\* Changes are bounded.
LEMMA Counted == ASSUME TypeOK, Change PROVE changes' \in 0 .. MaxChanges
BY HomeAssumption DEF TypeOK, Change

\* The condition is vetted when it is looked up ...
LEMMA CheckSlotStep ==
    ASSUME HomeInv, NEW w \in Puts, NEW s \in Slots, NEW c \in Configs, CheckSlot(w, s, c)
    PROVE  HomeInv'
<1> USE DEF HomeInv, CheckSlot
<1>1. changes' \in 0 .. MaxChanges
  BY Counted
<1>2. TypeOK'
  BY <1>1 DEF TypeOK, bank, gets
<1>3. wish'[w].config = c /\ wish'[w] # NULL
  BY HomeAssumption, [slot |-> s, config |-> c] \in [slot : Slots, config : Configs] DEF TypeOK
<1>4. \A v \in Puts : PutKnows(v)'
  BY <1>3 DEF TypeOK, PutKnows
<1>5. Vetted'
  BY <1>3, HomeAssumption DEF TypeOK, Vetted, OptionExists, bank
<1> QED  BY <1>2, <1>4, <1>5, GetsSame

\* ... and the slot is when it is stored, if no question has changed since.
LEMMA SaveSlotStep ==
    ASSUME HomeInv, NEW w \in Puts, SaveSlot(w)
    PROVE  HomeInv'
<1> USE DEF HomeInv, SaveSlot
<1>1. wish[w].slot \in Slots /\ wish[w].config \in Configs
  BY DEF TypeOK, PutKnows
<1>2. TypeOK'
  BY <1>1 DEF TypeOK, bank, gets
<1>3. \A v \in Puts : PutKnows(v)'
  BY DEF TypeOK, PutKnows
<1>4. wish[w].config # NULL
  BY <1>1, HomeAssumption
<1>5. Vetted'
  BY <1>1, <1>4, HomeAssumption DEF TypeOK, Vetted, OptionExists, bank
<1> QED  BY <1>2, <1>3, <1>5, GetsSame

\* A PUT that fails stores nothing.
LEMMA FailPutStep ==
    ASSUME HomeInv, NEW w \in Puts, FailPut(w)
    PROVE  HomeInv'
<1> USE DEF HomeInv, FailPut
<1>1. TypeOK'
  BY DEF TypeOK, bank, gets
<1>2. \A v \in Puts : PutKnows(v)'
  BY DEF TypeOK, PutKnows
<1>3. Vetted'
  BY DEF TypeOK, Vetted, OptionExists, bank
<1> QED  BY <1>1, <1>2, <1>3, GetsSame

\* A deleted slot has no condition.
LEMMA DeleteSlotStep ==
    ASSUME HomeInv, NEW s \in Slots, DeleteSlot(s)
    PROVE  HomeInv'
<1> USE DEF HomeInv, DeleteSlot
<1>1. changes' \in 0 .. MaxChanges
  BY Counted
<1>2. TypeOK'
  BY <1>1 DEF TypeOK, bank, gets
<1>3. \A v \in Puts : PutKnows(v)'
  BY DEF PutKnows
<1>4. Vetted'
  BY DEF TypeOK, Vetted, OptionExists, bank
<1> QED  BY <1>2, <1>3, <1>4, GetsSame

\* An answer completes a task; the task and its question stay.
LEMMA AnswerStep ==
    ASSUME HomeInv, NEW q \in Questions, Answer(q)
    PROVE  HomeInv'
<1> USE DEF HomeInv
<1>1. changes' \in 0 .. MaxChanges
  BY Counted DEF Answer
<1>2. /\ daily' \in [Slots -> Task \union {NULL}]
      /\ \A s \in Slots : daily[s] # NULL =>
             daily'[s] # NULL /\ daily'[s].question = daily[s].question
  <2>1. CASE UNCHANGED daily
    BY <2>1 DEF TypeOK
  <2>2. ASSUME NEW s \in Open(q), daily' = [daily EXCEPT ![s].done = TRUE]
        PROVE  /\ daily' \in [Slots -> Task \union {NULL}]
               /\ \A t \in Slots : daily[t] # NULL =>
                      daily'[t] # NULL /\ daily'[t].question = daily[t].question
    <3> DEFINE row == [question |-> q, done |-> TRUE]
    <3>1. /\ s \in Slots /\ daily[s] = [question |-> q, done |-> FALSE]
          /\ daily' = [daily EXCEPT ![s] = row] /\ row \in Task /\ row.question = q
      BY <2>2, CompletedRow
    <3>2. row # NULL
      BY <3>1, HomeAssumption
    <3> QED  BY <3>1, <3>2 DEF TypeOK
  <2> QED  BY <2>1, <2>2 DEF Answer
<1>3. TypeOK'
  BY <1>1, <1>2 DEF TypeOK, Answer, bank, gets, puts
<1>4. UNCHANGED <<bank, slots, puts, gets>> /\ answered \subseteq answered'
  BY DEF Answer
<1> QED  BY <1>2, <1>3, <1>4, GetsSame, VettedSame

\* When a question changes, no condition counts as checked any more.
LEMMA ChangeBankStep ==
    ASSUME HomeInv, NEW pub \in SUBSET Questions, NEW o \in [Questions -> Offers],
           ChangeBank(pub, o)
    PROVE  HomeInv'
<1> USE DEF HomeInv, ChangeBank
<1>1. changes' \in 0 .. MaxChanges
  BY Counted
<1>2. TypeOK'
  BY <1>1 DEF TypeOK, gets
<1>3. Vetted' /\ \A v \in Puts : PutKnows(v)'
  BY DEF Vetted, PutKnows
<1> QED  BY <1>2, <1>3, GetsSame

\* Midnight takes all tasks away; every GET in progress is marked as crossed.
LEMMA NextDayStep ==
    ASSUME HomeInv, NextDay
    PROVE  HomeInv'
<1> USE DEF HomeInv, NextDay
<1>1. changes' \in 0 .. MaxChanges
  BY Counted
<1>2. TypeOK'
  BY <1>1 DEF TypeOK, None, bank, puts
<1>3. GetsOk'
  BY DEF GetsOk, GetKnows, Filled, Served
<1>4. ShownStays'
  BY DEF ShownStays, None
<1> QED  BY <1>2, <1>3, <1>4, VettedSame

\* Every step keeps the invariant.
LEMMA NextHome == HomeInv /\ [Next]_vars => HomeInv'
<1> SUFFICES ASSUME HomeInv, [Next]_vars PROVE HomeInv'
  OBVIOUS
<1>1. ASSUME NEW g \in Gets, GetStep(g)
      PROVE  HomeInv'
  <2>1. CASE ListSlots(g)             BY <2>1, ListSlotsStep
  <2>2. CASE Pick(g)                  BY <2>2, PickStep
  <2>3. CASE Skip(g)                  BY <2>3, SkipStep
  <2>4. CASE Insert(g)                BY <2>4, InsertStep
  <2>5. CASE ReadBack(g)              BY <2>5, ReadBackStep
  <2>6. CASE Reply(g) \/ FailGet(g)   BY <2>6, GetOverStep DEF Reply, FailGet
  <2> QED  BY <1>1, <2>1, <2>2, <2>3, <2>4, <2>5, <2>6 DEF GetStep
<1>2. ASSUME NEW w \in Puts, \/ \E s \in Slots, c \in Configs : CheckSlot(w, s, c)
                             \/ SaveSlot(w)
                             \/ FailPut(w)
      PROVE  HomeInv'
  BY <1>2, CheckSlotStep, SaveSlotStep, FailPutStep
<1>3. ASSUME NEW s \in Slots, DeleteSlot(s)
      PROVE  HomeInv'
  BY <1>3, DeleteSlotStep
<1>4. ASSUME NEW q \in Questions, Answer(q)
      PROVE  HomeInv'
  BY <1>4, AnswerStep
<1>5. ASSUME NEW q \in Questions, Decide(q) \/ \E o \in Offers : Edit(q, o)
      PROVE  HomeInv'
  <2>1. /\ published \union {q} \in SUBSET Questions /\ published \ {q} \in SUBSET Questions
        /\ offer \in [Questions -> Offers]
        /\ \A o \in Offers : [offer EXCEPT ![q] = o] \in [Questions -> Offers]
    BY DEF HomeInv, TypeOK
  <2> QED  BY <1>5, <2>1, ChangeBankStep DEF Decide, Edit, HomeInv, TypeOK
<1>6. CASE NextDay
  BY <1>6, NextDayStep
<1>7. CASE UNCHANGED vars
  <2>1. UNCHANGED <<bank, slots, puts, gets, answered, daily>>
    BY <1>7 DEF vars
  <2>2. TypeOK'
    BY <1>7 DEF vars, bank, puts, gets, HomeInv, TypeOK
  <2> QED  BY <2>1, <2>2, GetsSame, VettedSame DEF HomeInv
<1> QED  BY <1>1, <1>2, <1>3, <1>4, <1>5, <1>6, <1>7 DEF Next

\* The invariant holds in every reachable state.
LEMMA HomeInvariant == Spec => []HomeInv
BY InitHome, NextHome, PTL DEF Spec
-----------------------------------------------------------------------------
\* Every variable keeps its type, however requests, changes and midnights interleave.
THEOREM HomeTyped == Spec => []TypeOK
<1>1. HomeInv => TypeOK
  BY DEF HomeInv
<1> QED  BY <1>1, HomeInvariant, PTL

\* GET /home, a loop of single statements with no transaction, has a task for each slot
\* it has read and not skipped, whoever inserted it and whatever was changed meanwhile,
\* unless a midnight came between (service/home.go:38-56).
THEOREM HomeComplete == Spec => []ReplyComplete
<1>1. HomeInv => ReplyComplete
  BY DEF HomeInv, GetsOk, Served, ReplyComplete
<1> QED  BY <1>1, HomeInvariant, PTL

-----------------------------------------------------------------------------
\* Only its own request moves a GET.
LEMMA OnlyGets ==
    ASSUME [Next]_vars
    PROVE  (\E g \in Gets : GetStep(g)) \/ UNCHANGED <<gpc, reply, skipped>>
BY DEF Next, vars, gets, CheckSlot, SaveSlot, FailPut, DeleteSlot, Answer, Decide, Edit,
       ChangeBank, NextDay

\* Only the last statement of GET /home makes its reply ...
LEMMA OnlyReadBack ==
    ASSUME HomeInv, [Next]_vars, NEW g \in Gets, gpc[g] = "filling", gpc'[g] = "read"
    PROVE  ReadBack(g)
<1>1. PICK h \in Gets : GetStep(h)
  BY OnlyGets
<1> QED  BY <1>1 DEF HomeInv, TypeOK, GetStep, ListSlots, Pick, Skip, Insert, ReadBack,
                     Reply, FailGet, GetOver

\* ... only finding no question skips a slot ...
LEMMA OnlySkip ==
    ASSUME HomeInv, [Next]_vars, NEW g \in Gets, NEW s \in skipped'[g] \ skipped[g]
    PROVE  Skip(g) /\ s = Current(g) /\ s \in Slots
<1>1. PICK h \in Gets : GetStep(h)
  BY OnlyGets
<1>2. skipped \in [Gets -> SUBSET Slots]
  BY DEF HomeInv, TypeOK
<1>3. CASE Skip(h)
  <2>1. h = g /\ s = Current(g)
    BY <1>2, <1>3 DEF Skip
  <2> QED  BY <1>3, <2>1, CurrentTodo DEF HomeInv, Skip
<1>4. CASE ~Skip(h)
  BY <1>1, <1>2, <1>4 DEF GetStep, ListSlots, Pick, Insert, ReadBack, Reply, FailGet, GetOver
<1> QED  BY <1>3, <1>4

\* ... and only its insert makes a task.
LEMMA OnlyInsert ==
    ASSUME HomeInv, [Next]_vars, NEW s \in Slots, daily'[s] # NULL, daily[s] = NULL
    PROVE  \E g \in Gets : Insert(g) /\ s = Current(g)
<1>0. daily \in [Slots -> Task \union {NULL}]
  BY DEF HomeInv, TypeOK
<1>1. ASSUME NEW q \in Questions, Answer(q)
      PROVE  FALSE
  <2>1. ASSUME NEW t \in Open(q), daily' = [daily EXCEPT ![t].done = TRUE]
        PROVE  FALSE
    <3>1. t \in Slots /\ daily[t] = [question |-> q, done |-> FALSE]
      BY DEF Open
    <3>2. [question |-> q, done |-> FALSE] \in Task
      BY DEF Task
    <3>3. t # s
      BY <3>1, <3>2, HomeAssumption
    <3> QED  BY <1>0, <2>1, <3>3
  <2> QED  BY <1>1, <2>1 DEF Answer
<1>2. CASE NextDay
  BY <1>2 DEF NextDay, None
<1>3. \/ \E g \in Gets : Insert(g)
      \/ \E q \in Questions : Answer(q)
      \/ NextDay
      \/ UNCHANGED daily
  BY DEF Next, vars, GetStep, ListSlots, Pick, Skip, ReadBack, Reply, FailGet, GetOver,
         CheckSlot, SaveSlot, FailPut, DeleteSlot, Decide, Edit, ChangeBank
<1>4. ASSUME NEW g \in Gets, Insert(g)
      PROVE  s = Current(g)
  BY <1>0, <1>4 DEF Insert
<1> QED  BY <1>1, <1>2, <1>3, <1>4

\* A task that a reply of today has shown is in every later reply of the day, with the
\* same question: concurrent reloads may pick different questions for a slot, but the
\* insert of one of them wins for the day (repository/home.go:31).
THEOREM RepliesOfADayAgree == Spec => RepliesAgree
<1>1. ASSUME HomeInv, [Next]_vars, NEW g \in Gets, gpc[g] = "filling", gpc'[g] = "read",
             NEW s \in Slots, shown[s] # NULL
      PROVE  reply'[g][s] = shown[s]
  <2>1. ReadBack(g)
    BY <1>1, OnlyReadBack
  <2>2. daily[s] # NULL /\ daily[s].question = shown[s]
    BY <1>1 DEF HomeInv, ShownStays
  <2>3. TodayHome[s] = daily[s].question
    BY <2>2 DEF TodayHome
  <2>4. reply'[g] = TodayHome
    BY <1>1, <2>1 DEF HomeInv, TypeOK, ReadBack
  <2> QED  BY <2>2, <2>3, <2>4
<1>2. HomeInv /\ [Next]_vars
      => [\A g \in Gets : gpc[g] = "filling" /\ gpc'[g] = "read" =>
             \A s \in Slots : shown[s] # NULL => reply'[g][s] = shown[s]]_vars
  BY <1>1
<1> QED  BY <1>2, HomeInvariant, PTL DEF Spec, RepliesAgree

\* Whatever is answered between the pick and the insert, a task is inserted with a
\* question that the learner had not answered when GET /home began
\* (repository/home.go:17).
THEOREM TasksFresh == Spec => FreshTask
<1>1. ASSUME HomeInv, [Next]_vars, NEW s \in Slots, daily'[s] # NULL, daily[s] = NULL
      PROVE  \E g \in Gets : /\ gpc[g] = "picked" /\ gpc'[g] = "filling"
                            /\ daily'[s].question \notin before[g]
  <2>1. PICK g \in Gets : Insert(g) /\ s = Current(g)
    BY <1>1, OnlyInsert
  <2>2. daily'[s] = [question |-> picked[g], done |-> FALSE]
    BY <1>1, <2>1 DEF HomeInv, TypeOK, Insert
  <2>3. daily'[s].question = picked[g]
    BY <2>2
  <2>4. gpc[g] = "picked" /\ gpc'[g] = "filling" /\ picked[g] \notin before[g]
    BY <1>1, <2>1 DEF HomeInv, TypeOK, GetsOk, GetKnows, Insert
  <2> QED  BY <2>3, <2>4
<1>2. HomeInv /\ [Next]_vars
      => [\A s \in Slots : daily'[s] # NULL /\ daily[s] = NULL =>
             \E g \in Gets : /\ gpc[g] = "picked" /\ gpc'[g] = "filling"
                            /\ daily'[s].question \notin before[g]]_vars
  BY <1>1
<1> QED  BY <1>2, HomeInvariant, PTL DEF Spec, FreshTask

\* A slot whose condition has been checked against the questions as they are is left
\* empty only when the learner has answered a question that it offers: checking in one
\* request and storing in a later statement loses nothing (service/taskslot.go:92-99).
THEOREM EmptyForReason == Spec => SkippedForReason
<1>1. ASSUME HomeInv, [Next]_vars, NEW g \in Gets, NEW s \in skipped'[g] \ skipped[g],
             s \in vetted, slots[s] = listed[g][s], slots[s].level # NULL
      PROVE  \E q \in published \intersect answered :
                 offer[q].kind = slots[s].kind /\ offer[q].level = slots[s].level
  <2>1. Skip(g) /\ s = Current(g) /\ s \in Slots
    BY <1>1, OnlySkip
  <2>2. OptionExists(slots[s])
    BY <1>1, <2>1 DEF HomeInv, Vetted
  <2>3. PICK q \in published : /\ offer[q].kind = slots[s].kind
                               /\ offer[q].level = slots[s].level
    BY <1>1, <2>2 DEF OptionExists
  <2>4. offer[q] = [kind |-> slots[s].kind, level |-> LevelOf(slots[s])]
    BY <1>1, <2>3 DEF HomeInv, TypeOK, Offers, LevelOf
  <2>5. Available(slots[s]) = {}
    BY <1>1, <2>1 DEF Skip
  <2> QED  BY <2>3, <2>4, <2>5 DEF Available
<1>2. HomeInv /\ [Next]_vars
      => [\A g \in Gets : \A s \in skipped'[g] \ skipped[g] :
             s \in vetted /\ slots[s] = listed[g][s] /\ slots[s].level # NULL =>
                 \E q \in published \intersect answered :
                     offer[q].kind = slots[s].kind /\ offer[q].level = slots[s].level]_vars
  BY <1>1
<1> QED  BY <1>2, HomeInvariant, PTL DEF Spec, SkippedForReason

-----------------------------------------------------------------------------
\* The rows that the abstract table may have.
DayRow == [user : {"me"}, slot : Slots, question : Questions, done : BOOLEAN]

\* A row is what its columns are.
LEMMA RowColumns ==
    ASSUME NEW t \in DayRow, NEW s \in Slots, NEW q \in Questions, NEW b \in BOOLEAN
    PROVE  /\ Day!Task("me", s, q, b) \in DayRow
           /\ t = Day!Task("me", s, q, b) <=> t.slot = s /\ t.question = q /\ t.done = b
           /\ [question |-> t.question, done |-> t.done] = [question |-> q, done |-> b]
                  <=> t.question = q /\ t.done = b
BY DEF DayRow, Day!Task

\* When one slot's task changes, so does the one row.
LEMMA RowsOfSlot ==
    ASSUME TypeOK, NEW s \in Slots, NEW q \in Questions, NEW b \in BOOLEAN,
           daily' = [daily EXCEPT ![s] = [question |-> q, done |-> b]]
    PROVE  \A t \in DayRow : t \in TodayTasks' <=>
               \/ t \in TodayTasks /\ t.slot # s
               \/ t = Day!Task("me", s, q, b)
<1> TAKE t \in DayRow
<1>1. t.slot \in Slots
  BY DEF DayRow
<1>2. CASE t.slot # s
  <2>1. daily'[t.slot] = daily[t.slot]
    BY <1>1, <1>2 DEF TypeOK
  <2>2. t # Day!Task("me", s, q, b)
    BY <1>2 DEF Day!Task
  <2> QED  BY <1>2, <2>1, <2>2 DEF TodayTasks, DayRow
<1>3. CASE t.slot = s
  <2>1. daily'[t.slot] = [question |-> q, done |-> b]
    BY <1>3 DEF TypeOK
  <2>2. t \in TodayTasks' <=> [question |-> q, done |-> b] = [question |-> t.question, done |-> t.done]
    BY <2>1 DEF TodayTasks, DayRow
  <2> QED  BY <1>3, <2>2, RowColumns
<1> QED  BY <1>2, <1>3

\* An insert assigns a task to a slot that has none, or changes nothing.
LEMMA InsertAssigns ==
    ASSUME HomeInv, NEW g \in Gets, Insert(g)
    PROVE  [Day!Next]_(Day!vars)
<1> DEFINE s == Current(g)
           q == picked[g]
<1>1. s \in Slots /\ q \in Questions /\ answered' = answered
  BY CurrentTodo DEF HomeInv, GetsOk, GetKnows, Insert
<1>2. CASE daily[s] # NULL
  <2>1. daily' = daily
    BY <1>1, <1>2 DEF HomeInv, TypeOK, Insert
  <2> QED  BY <1>1, <2>1 DEF Day!vars, TodayTasks
<1>3. CASE daily[s] = NULL
  <2>1. daily' = [daily EXCEPT ![s] = [question |-> q, done |-> FALSE]]
    BY <1>1, <1>3 DEF HomeInv, TypeOK, Insert
  <2>2. \A p \in Questions, b \in BOOLEAN : [question |-> p, done |-> b] # NULL
    BY HomeAssumption DEF Task
  <2> HIDE DEF s, q
  <2>3. \A t \in TodayTasks : t.slot # s
    BY <1>3, <2>2 DEF TodayTasks
  <2>4. TodayTasks' = TodayTasks \union {Day!Task("me", s, q, FALSE)}
    <3>1. \A t \in DayRow : t \in TodayTasks' <=>
              t \in TodayTasks \/ t = Day!Task("me", s, q, FALSE)
      BY <1>1, <2>1, <2>3, RowsOfSlot DEF HomeInv
    <3>2. TodayTasks \subseteq DayRow /\ TodayTasks' \subseteq DayRow
      BY DEF TodayTasks, DayRow
    <3>3. Day!Task("me", s, q, FALSE) \in DayRow
      BY <1>1 DEF Day!Task, DayRow
    <3> QED  BY <3>1, <3>2, <3>3
  <2>5. Day!Assign("me", s, q)
    BY <1>1, <2>3, <2>4 DEF Day!Assign
  <2> QED  BY <1>1, <2>5 DEF Day!Next
<1> QED  BY <1>2, <1>3

\* An answer replaces the row of one open task of its question, or none.
LEMMA AnswerCompletes ==
    ASSUME HomeInv, NEW q \in Questions, Answer(q)
    PROVE  Day!Answer("me", q)
<1>1. ({"me"} \X answered)' = ({"me"} \X answered) \union {<<"me", q>>}
  BY DEF Answer
<1>2. CASE UNCHANGED daily
  <2>1. TodayTasks' = TodayTasks
    BY <1>2 DEF TodayTasks
  <2> QED  BY <1>1, <2>1 DEF Day!Answer
<1>3. ASSUME NEW s \in Open(q), daily' = [daily EXCEPT ![s].done = TRUE]
      PROVE  Day!Answer("me", q)
  <2>1. /\ s \in Slots /\ daily[s] = [question |-> q, done |-> FALSE]
        /\ daily' = [daily EXCEPT ![s] = [question |-> q, done |-> TRUE]]
    BY <1>3, CompletedRow DEF HomeInv
  <2> DEFINE open == Day!Task("me", s, q, FALSE)
             done == Day!Task("me", s, q, TRUE)
  <2>2. open \in DayRow /\ done \in DayRow /\ open.slot = s
    BY <2>1 DEF Day!Task, DayRow
  <2>3. ASSUME NEW t \in DayRow
        PROVE  t \in TodayTasks /\ t.slot = s <=> t = open
    <3>1. t = open => t.slot = s
      BY <2>2
    <3>2. CASE t.slot = s
      <4>1. t \in TodayTasks
                <=> [question |-> q, done |-> FALSE] = [question |-> t.question, done |-> t.done]
        BY <2>1, <3>2 DEF TodayTasks, DayRow
      <4>2. t = open <=> t.slot = s /\ t.question = q /\ t.done = FALSE
        BY <2>1, RowColumns, Zenon
      <4>3. t = open <=> t.question = q /\ t.done = FALSE
        BY <3>2, <4>2, Zenon
      <4>4. [question |-> t.question, done |-> t.done] = [question |-> q, done |-> FALSE]
                <=> t.question = q /\ t.done = FALSE
        BY <2>1, RowColumns, Zenon
      <4> HIDE DEF open
      <4> QED  BY <3>2, <4>1, <4>3, <4>4
    <3> QED  BY <3>1, <3>2
  <2>4. \A t \in DayRow :
            t \in TodayTasks' <=> (t \in TodayTasks /\ t.slot # s) \/ t = done
    BY <2>1, RowsOfSlot DEF HomeInv
  <2>5. TodayTasks \subseteq DayRow /\ TodayTasks' \subseteq DayRow
    BY DEF TodayTasks, DayRow
  <2> HIDE DEF open, done
  <2>6. open \in TodayTasks /\ TodayTasks' = (TodayTasks \ {open}) \union {done}
    BY <2>2, <2>3, <2>4, <2>5
  <2> QED  BY <1>1, <2>1, <2>6 DEF Day!Answer, open, done
<1> QED  BY <1>2, <1>3 DEF Answer

\* Every step of HomeTasks is a step of LearnerDay, or none.
LEMMA HomeDayNext ==
    ASSUME HomeInv, [Next]_vars
    PROVE  [Day!Next]_(Day!vars)
<1>1. ASSUME NEW g \in Gets, Insert(g)
      PROVE  [Day!Next]_(Day!vars)
  BY <1>1, InsertAssigns
<1>2. ASSUME NEW q \in Questions, Answer(q)
      PROVE  [Day!Next]_(Day!vars)
  BY <1>2, AnswerCompletes DEF Day!Next
<1>3. CASE NextDay
  <2>1. \A q \in Questions, b \in BOOLEAN : [question |-> q, done |-> b] # NULL
    BY HomeAssumption DEF Task
  <2>2. TodayTasks' = {}
    BY <1>3, <2>1 DEF NextDay, None, TodayTasks
  <2> QED  BY <1>3, <2>2 DEF NextDay, Day!NewDay, Day!Next
<1>4. CASE UNCHANGED <<answered, daily>>
  BY <1>4 DEF Day!vars, TodayTasks
<1> QED
  BY <1>1, <1>2, <1>3, <1>4
  DEF Next, vars, GetStep, ListSlots, Pick, Skip, ReadBack, Reply, FailGet, GetOver,
      CheckSlot, SaveSlot, FailPut, DeleteSlot, Decide, Edit, ChangeBank

\* What reloads of the home screen, answers and midnights do to the tasks of today, taken
\* together, is what LearnerDay says: AttemptTxProofs shows the same of the
\* statements that record an answer, so the two models agree about the table they share.
THEOREM HomeIsLearnerDay == Spec => DaySpec
<1>1. Init => Day!Init
  <2>1. \A q \in Questions, b \in BOOLEAN : [question |-> q, done |-> b] # NULL
    BY HomeAssumption DEF Task
  <2> QED  BY <2>1 DEF Init, None, Day!Init, TodayTasks
<1>2. HomeInv /\ [Next]_vars => [Day!Next]_(Day!vars)
  BY HomeDayNext
<1> QED  BY <1>1, <1>2, HomeInvariant, PTL DEF Spec, DaySpec, Day!Spec
=============================================================================
