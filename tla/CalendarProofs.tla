--------------------------- MODULE CalendarProofs ----------------------------
(***************************************************************************)
(* Theorems about Calendar, for a calendar of any length: the streak query *)
(* counts what a reader of the calendar would count by hand, and the two   *)
(* reads of one reply contradict each other about no settled day.          *)
(***************************************************************************)
EXTENDS Calendar, StreakProofs

\* What is stored and what has been read are days.
Typed ==
    /\ today \in Days
    /\ total \in [Days -> Nat] /\ completed \in [Days -> Nat]
    /\ answering \in Days \union {NoDay}
    /\ range \subseteq Days
    /\ shown \subseteq range
    /\ range # {} => listedOn \in Days

\* The answer being recorded is the one that was when the days were read, or has begun
\* since then, and so on a day that was not over.
AnswersSince ==
    range # {} =>
        /\ listedOn <= today
        /\ answering \in {NoDay, unsettled} \/ answering >= listedOn

\* A settled day is as it was shown.
SettledAsShown == \A d \in Settled : d \in shown <=> d \in CompletedDays

\* The inductive invariant.
CalendarInv == Typed /\ AnswersSince /\ SettledAsShown

-----------------------------------------------------------------------------
\* Days are positive numbers, finitely many.
LEMMA DaysTyped ==
    /\ Days \subseteq Nat /\ IsFiniteSet(Days) /\ NoDay \notin Days /\ NoDay \in Nat
    /\ \A d \in Days : d \in Int /\ d >= 1
    /\ IsFiniteSet(CompletedDays) /\ CompletedDays \in SUBSET Int /\ CompletedDays \subseteq Days
<1>1. MaxDay \in Nat
  BY CalendarAssumption
<1>2. IsFiniteSet(Days)
  BY <1>1, FS_Interval DEF Days
<1>3. CompletedDays \subseteq Days
  BY DEF CompletedDays
<1>4. /\ Days \subseteq Nat /\ NoDay \notin Days /\ NoDay \in Nat
      /\ \A d \in Days : d \in Int /\ d >= 1
  BY <1>1 DEF Days, NoDay
<1> QED  BY <1>2, <1>3, <1>4, FS_Subset

\* The run that ends on the latest day has one length only.
LEMMA RunUnique ==
    ASSUME NEW S \in SUBSET Int, NEW l \in Int, NEW n \in Nat, NEW m \in Nat,
           (l - n + 1) .. l \subseteq S, l - n \notin S,
           (l - m + 1) .. l \subseteq S, l - m \notin S
    PROVE  n = m
<1>1. ~(n < m)
  <2>1. n < m => l - n \in (l - m + 1) .. l
    OBVIOUS
  <2> QED  BY <2>1
<1>2. ~(m < n)
  <2>1. m < n => l - m \in (l - n + 1) .. l
    OBVIOUS
  <2> QED  BY <2>1
<1> QED  BY <1>1, <1>2

\* The row_number() arithmetic counts as one counts by hand.
LEMMA CountedByHand ==
    ASSUME NEW S \in SUBSET Days, NEW d \in Int
    PROVE  StreakDays(S, d) = ByHand(S, d)
<1>0. S \in SUBSET Int /\ IsFiniteSet(S)
  BY DaysTyped, FS_Subset
<1>1. CASE S = {} \/ Max(S) < d - 1
  BY <1>1 DEF StreakDays, LastStudiedOn, ByHand
<1>2. CASE ~(S = {} \/ Max(S) < d - 1)
  <2> DEFINE n == StreakDays(S, d)
             l == Max(S)
             Run(k) == (l - k + 1) .. l \subseteq S /\ l - k \notin S
  <2>1. l \in S /\ l \in Int /\ LastStudiedOn(S) = l
    BY <1>0, <1>2, MaxExists DEF LastStudiedOn
  <2>2. n \in Nat /\ n # 0 /\ Run(n)
    <3>1. /\ n \in Nat
          /\ n > 0 => /\ (LastStudiedOn(S) - n + 1) .. LastStudiedOn(S) \subseteq S
                      /\ LastStudiedOn(S) - n \notin S
          /\ n = 0 => S = {} \/ LastStudiedOn(S) < d - 1
      BY ONLY <1>0, StreakCountsRun, d \in Int
    <3>2. n # 0
      BY <1>2, <2>1, <3>1
    <3>3. n > 0
      BY <3>1, <3>2
    <3> QED  BY <2>1, <3>1, <3>2, <3>3
  <2>3. ByHand(S, d) = CHOOSE k \in 1 .. l : Run(k)
    BY <1>2 DEF ByHand
  <2> HIDE DEF n, l
  <2>4. n \in 1 .. l
    <3>1. l - n + 1 \in (l - n + 1) .. l
      BY <2>1, <2>2
    <3>2. l - n + 1 >= 1
      BY <2>2, <3>1, DaysTyped
    <3> QED  BY <2>1, <2>2, <3>2
  <2>5. \A k \in 1 .. l : Run(k) => k = n
    BY <1>0, <2>1, <2>2, RunUnique
  <2>6. (CHOOSE k \in 1 .. l : Run(k)) = n
    BY <2>2, <2>4, <2>5
  <2> QED  BY <2>3, <2>6 DEF n
<1> QED  BY <1>1, <1>2

-----------------------------------------------------------------------------
\* No task, no answer and no request at first.
LEMMA InitCalendar == Init => CalendarInv
<1> SUFFICES ASSUME Init PROVE CalendarInv
  OBVIOUS
<1>1. 1 \in Days
  BY CalendarAssumption DEF Days
<1> QED  BY <1>1 DEF Init, CalendarInv, Typed, AnswersSince, SettledAsShown, Settled

\* While the reply is not sent, what is written is a day that was not over when the
\* days were read, or the one of the answer that was being recorded.
LEMMA ListKept ==
    ASSUME CalendarInv, UNCHANGED reply, today' >= today, today' \in Days,
           total' \in [Days -> Nat], completed' \in [Days -> Nat],
           \A d \in Days : total'[d] # total[d] => d = today,
           \A d \in Days : completed'[d] # completed[d] => d = answering,
           answering' \in {NoDay, answering, today}
    PROVE  CalendarInv'
<1> USE DEF CalendarInv, reply
<1>1. Typed'
  BY DEF Typed
<1>2. AnswersSince'
  <2> SUFFICES ASSUME range # {}
               PROVE  listedOn <= today' /\ (answering' \in {NoDay, unsettled} \/ answering' >= listedOn)
    BY DEF AnswersSince
  <2>1. /\ listedOn \in Int /\ today \in Int /\ today' \in Int /\ listedOn <= today
        /\ answering \in {NoDay, unsettled} \/ answering >= listedOn
    BY DaysTyped DEF Typed, AnswersSince
  <2> QED  BY <2>1
<1>3. SettledAsShown'
  <2> SUFFICES ASSUME NEW d \in Settled
               PROVE  d \in shown <=> d \in CompletedDays'
    BY DEF SettledAsShown, Settled
  <2>1. d \in Days /\ d < listedOn /\ d # unsettled /\ range # {}
    BY DEF Settled, Typed
  <2>2. listedOn \in Int /\ today \in Int /\ d \in Int /\ listedOn <= today
    BY <2>1, DaysTyped DEF Typed, AnswersSince
  <2>3. d # today
    BY <2>1, <2>2
  <2>4. d # answering
    BY <2>1, <2>2, DaysTyped DEF AnswersSince
  <2>5. total'[d] = total[d] /\ completed'[d] = completed[d]
    BY <2>1, <2>3, <2>4
  <2> QED  BY <2>1, <2>5 DEF SettledAsShown, CompletedDays
<1> QED  BY <1>1, <1>2, <1>3

\* The days of the request, as they are when they are read.
LEMMA ListDaysStep ==
    ASSUME CalendarInv, NEW from \in Days, NEW to \in Days, ListDays(from, to)
    PROVE  CalendarInv'
<1> USE DEF CalendarInv, ListDays, tasks
<1>1. from .. to \subseteq Days
  <2>1. MaxDay \in Nat
    BY CalendarAssumption
  <2> QED  BY <2>1 DEF Days
<1>2. Typed'
  BY <1>1 DEF Typed
<1>3. AnswersSince'
  BY DaysTyped DEF Typed, AnswersSince
<1>4. SettledAsShown'
  BY <1>1 DEF SettledAsShown, Settled, CompletedDays, ShownCompleted
<1> QED  BY <1>2, <1>3, <1>4

\* Every step keeps the invariant.
LEMMA NextCalendar == CalendarInv /\ [Next]_vars => CalendarInv'
<1> SUFFICES ASSUME CalendarInv, [Next]_vars PROVE CalendarInv'
  OBVIOUS
<1>0. /\ today \in Days /\ today \in Int /\ answering \in Days \union {NoDay}
      /\ total \in [Days -> Nat] /\ completed \in [Days -> Nat]
  BY DaysTyped DEF CalendarInv, Typed
<1>1. CASE Assign
  <2>1. total' \in [Days -> Nat] /\ \A d \in Days : total'[d] # total[d] => d = today
    BY <1>0, <1>1 DEF Assign
  <2> QED  BY <1>0, <1>1, <2>1, ListKept DEF Assign
<1>2. CASE BeginAnswer
  BY <1>0, <1>2, ListKept DEF BeginAnswer, tasks
<1>3. CASE CommitAnswer
  <2>1. /\ completed' \in [Days -> Nat]
        /\ \A d \in Days : completed'[d] # completed[d] => d = answering
    BY <1>0, <1>3 DEF CommitAnswer
  <2> QED  BY <1>0, <1>3, <2>1, ListKept DEF CommitAnswer
<1>4. CASE EndAnswer
  BY <1>0, <1>4, ListKept DEF EndAnswer, tasks
<1>5. CASE NextDay
  <2>1. today' \in Days /\ today' >= today
    BY <1>0, <1>5, CalendarAssumption DEF NextDay, Days
  <2> QED  BY <1>0, <1>5, <2>1, ListKept DEF NextDay, tasks
<1>6. CASE \E from, to \in Days : ListDays(from, to)
  BY <1>6, ListDaysStep
<1>7. CASE Reply
  BY <1>7 DEF Reply, tasks, CalendarInv, Typed, AnswersSince, SettledAsShown, Settled
<1>8. CASE UNCHANGED vars
  BY <1>8, <1>0, ListKept DEF vars, tasks
<1> QED  BY <1>1, <1>2, <1>3, <1>4, <1>5, <1>6, <1>7, <1>8 DEF Next

\* The invariant holds in every reachable state.
LEMMA CalendarInvariant == Spec => []CalendarInv
BY InitCalendar, NextCalendar, PTL DEF Spec

-----------------------------------------------------------------------------
\* At every moment the streak that the query returns (calendar.go:32-45) is the number
\* of consecutive completed days up to the latest one, whatever tasks are added,
\* answered and left open on whatever days.
THEOREM StreakByHand == Spec => []StreakIsRun
<1>1. CalendarInv => StreakIsRun
  BY CountedByHand, DaysTyped DEF CalendarInv, Typed, StreakIsRun, Streak
<1> QED  BY <1>1, CalendarInvariant, PTL

\* Whatever happens between the two reads of GET /calendar (service/calendar.go:23-27):
\* a settled day inside the streak is shown as completed, and one that follows the
\* streak, or comes just before it, is not.
THEOREM RepliesConsistent == Spec => []CalendarAgrees
<1>1. ASSUME CalendarInv PROVE CalendarAgrees
  <2> SUFFICES ASSUME NEW d \in Settled
               PROVE  /\ d \in (Last - Streak + 1) .. Last \union {Last} => d \in CompletedDays
                      /\ d > Last \/ (Streak > 0 /\ d = Last - Streak) => d \notin CompletedDays
    BY <1>1 DEF CalendarAgrees, CalendarInv, SettledAsShown
  <2>0. d \in Days /\ d \in Int /\ d >= 1 /\ today \in Int
    BY <1>1, DaysTyped DEF Settled, CalendarInv, Typed
  <2>1. /\ Streak \in Nat
        /\ Streak > 0 => /\ (Last - Streak + 1) .. Last \subseteq CompletedDays
                         /\ Last - Streak \notin CompletedDays
    BY <2>0, DaysTyped, StreakCountsRun DEF Streak, Last
  <2>2. CASE CompletedDays = {}
    <3>1. Last = 0 /\ Streak = 0
      BY <2>2 DEF Last, LastStudiedOn, NoDay, Streak, StreakDays
    <3> QED  BY <2>0, <2>2, <3>1
  <2>3. CASE CompletedDays # {}
    <3>1. Last \in CompletedDays /\ Last \in Int /\ \A e \in CompletedDays : e <= Last
      BY <2>3, DaysTyped, MaxExists DEF Last, LastStudiedOn
    <3>2. Streak = 0 => (Last - Streak + 1) .. Last = {}
      BY <3>1
    <3> QED  BY <2>0, <2>1, <3>1, <3>2
  <2> QED  BY <2>2, <2>3
<1> QED  BY <1>1, CalendarInvariant, PTL
=============================================================================
