------------------------- MODULE MCUsageDownsampling -------------------------
(***************************************************************************)
(* Two jobs at a time over half a year around a week 53.  Day 0 is Monday, *)
(* 21 December 2026: days 0..6 are week 52, 7..13 week 53, 14..27 weeks 1  *)
(* and 2 of 2027.                                                          *)
(***************************************************************************)
EXTENDS UsageDownsampling, TLC

MCYearStart == {-354, 11}
MCMonthStart == {-20, 11, 42, 70, 101}

Of(project, day, peak) ==
  [project |-> project, source |-> "pbs", slug |-> "a", day |-> day, peak |-> peak]

\* A day of the odd week 53, two of week 2 and one of week 4: the last two
\* weeks end in different fortnights of one month.
MCDaily == {Of("p", 9, 1), Of("p", 22, 1), Of("p", 24, 2), Of("p", 36, 1)}

\* FirstDay is such that the job takes the days of week 2 before it is over.
MCEvent == {[day |-> 26, mapped |-> TRUE], [day |-> 3, mapped |-> FALSE], [day |-> 60, mapped |-> TRUE]}

Jobs == Permutations(Job)

\* A Monday and the day after it.
MondayDaily == {Of("p", 0, 2), Of("p", 1, 1)}
=============================================================================
