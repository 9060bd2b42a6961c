---------------------------- MODULE AttemptLedger ----------------------------
(***************************************************************************)
(* What recording an answer promises: one indivisible step that adds the   *)
(* attempt and brings every derived row up to date with it.  Only the      *)
(* streak is promised less than exactly: it is the streak of some of the   *)
(* days the learner has worked on, because concurrent answers may not see  *)
(* each other's completions (the finding in the README).                   *)
(***************************************************************************)
EXTENDS LearnerTables

VARIABLES today, language, attempt, stat, srs, daily, progress

vars == <<today, language, attempt, stat, srs, daily, progress>>

Init ==
    /\ today = 1
    /\ language \in [Questions -> Languages]
    /\ attempt = {}
    /\ stat = [u \in Users |-> [c \in Categories |-> NoStat]]
    /\ srs = [u \in Users |-> [q \in Questions |-> NoSrs]]
    /\ daily = [u \in Users |-> [d \in Days |-> [s \in Slots |-> NULL]]]
    /\ progress = [u \in Users |-> NoProgress]

CountStat(a) ==
    LET row == stat[a.user][a.category]
    IN  stat' = [stat EXCEPT ![a.user][a.category] =
                    [attempts |-> row.attempts + 1,
                     corrects |-> row.corrects + Delta(a)]]

ScheduleSrs(a, day) ==
    LET row == srs[a.user][a.question]
    IN  /\ ~Overflows(row, a.correct)
        /\ srs' = [srs EXCEPT ![a.user][a.question] = Review(row, a.correct, day)]

\* At most one task is completed, an open one of that day for that question.
CreditTask(a, day) ==
    \E s \in OpenSlots(daily[a.user][day], a.question) \union {NoSlot} :
        daily' = [daily EXCEPT ![a.user] = Completing(daily[a.user], day, s, a)]

CreditProgress(a, day) ==
    /\ a.user \in WithProgress
    /\ \E days \in SUBSET StartedDays(daily[a.user]') :
          progress' = [progress EXCEPT ![a.user] =
                          [xp     |-> progress[a.user].xp + Gain(a),
                           streak |-> StreakDays(days, day),
                           last   |-> LastStudiedOn(days)]]

\* An answer given on `day`, which the clock may have left behind.
Record(a, day) ==
    /\ \A b \in attempt : b.id # a.id
    /\ a.category[1] = QType[a.question]
    /\ attempt' = attempt \union {a}
    /\ CountStat(a)
    /\ ScheduleSrs(a, day)
    /\ CreditTask(a, day)
    /\ CreditProgress(a, day)
    /\ UNCHANGED <<today, language>>

Assign(u, s, q) ==
    /\ daily[u][today][s] = NULL
    /\ daily' = [daily EXCEPT ![u][today][s] = [question |-> q, attempt |-> NULL]]
    /\ UNCHANGED <<today, language, attempt, stat, srs, progress>>

PatchLanguage(q, l) ==
    /\ language' = [language EXCEPT ![q] = l]
    /\ UNCHANGED <<today, attempt, stat, srs, daily, progress>>

NextDay ==
    /\ today < MaxDay
    /\ today' = today + 1
    /\ UNCHANGED <<language, attempt, stat, srs, daily, progress>>

Next ==
    \/ \E a \in AttemptRow, day \in 1 .. today : Record(a, day)
    \/ \E u \in Users, s \in Slots, q \in Questions : Assign(u, s, q)
    \/ \E q \in Questions, l \in Languages : PatchLanguage(q, l)
    \/ NextDay

Spec == Init /\ [][Next]_vars
=============================================================================
