-------------------------------- MODULE Srs ---------------------------------
(***************************************************************************)
(* The spaced-repetition row of one (user, question), srs_state, and what  *)
(* the upsert in repository/attempt.go computes for it.  The easiness      *)
(* column is never written by this service: it is the fraction             *)
(* EasinessNum / EasinessDen of the schema's default.  interval_days is an *)
(* int4 column, whose largest value is the constant MaxInt4.               *)
(***************************************************************************)
EXTENDS Integers

CONSTANTS EasinessNum, EasinessDen, MaxInt4

ASSUME SrsAssumption ==
    /\ EasinessNum \in Nat \ {0} /\ EasinessDen \in Nat \ {0}
    /\ EasinessNum >= EasinessDen
    /\ MaxInt4 \in Nat /\ MaxInt4 >= 3

SrsRow == [interval : 0 .. MaxInt4, repetitions : Nat, due : Nat]

\* No row yet.  A row that exists has an interval of at least 1.
NoSrs == [interval |-> 0, repetitions |-> 0, due |-> 0]

\* round() of a numeric: halves go away from zero.
RoundDiv(n, d) == (2 * n + d) \div (2 * d)

\* interval_days after a correct answer; the insert of a first answer (no row,
\* interval 0) stores 1 as well.
NextInterval(i) ==
    CASE i < 1 -> 1
      [] i = 1 -> 3
      [] OTHER -> LET e == RoundDiv(i * EasinessNum, EasinessDen)
                  IN  IF e < 1 THEN 1 ELSE e

\* Mutant: the column is as wide as the number.
NeverOverflows(row, correct) == FALSE

\* The ::int cast of the statement raises "integer out of range".
Overflows(row, correct) == correct /\ NextInterval(row.interval) > MaxInt4

\* Mutant: a wrong answer shortens the interval but keeps the repetitions.
ReviewKeepsCount(row, correct, day) ==
    LET i == IF correct THEN NextInterval(row.interval) ELSE 1
    IN  [interval    |-> i,
         repetitions |-> IF correct THEN row.repetitions + 1 ELSE row.repetitions,
         due         |-> day + i]

\* The row the statement leaves, when answered on `day`.
Review(row, correct, day) ==
    LET i == IF correct THEN NextInterval(row.interval) ELSE 1
    IN  [interval    |-> i,
         repetitions |-> IF correct THEN row.repetitions + 1 ELSE 0,
         due         |-> day + i]
=============================================================================
