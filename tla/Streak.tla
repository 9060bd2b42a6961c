------------------------------- MODULE Streak -------------------------------
(***************************************************************************)
(* The streak query (repository/calendar.go, and again inside              *)
(* repository/attempt.go): the "gaps and islands" SQL idiom over the set   *)
(* of days whose every daily task is completed.  Days are integers.        *)
(***************************************************************************)
EXTENDS Integers, FiniteSets, FiniteSetsExt

\* NULL in last_studied_on: every real day is a positive integer.
NoDay == 0

\* row_number() OVER (ORDER BY day), for a day of S.
RowNumber(S, d) == Cardinality({e \in S : e <= d})

\* day - row_number(): equal for two days exactly when they are in one island.
Grp(S, d) == d - RowNumber(S, d)

\* The CTE latest, as last_studied_on.
LastStudiedOn(S) == IF S = {} THEN NoDay ELSE Max(S)

\* Mutant: every completed day counts, whatever the gaps.
AllDays(S) == S

\* The island of the latest day of S.
LatestIsland(S) == {d \in S : Grp(S, d) = Grp(S, Max(S))}

\* The size of the latest island when it reaches at least to yesterday,
\* and 0 otherwise (COALESCE of an empty sub-select's count).
StreakDays(S, today) ==
    IF S = {} \/ LastStudiedOn(S) < today - 1 THEN 0
    ELSE Cardinality(LatestIsland(S))
=============================================================================
