----------------------------- MODULE MCJobLease -----------------------------
(* A short job (its timeout is less than its interval, as housekeeping's)  *)
(* and a long one (interval and five minutes, as the minute jobs).         *)
EXTENDS JobLease, TLC

CONSTANTS c1, c2, c3

ShortAndLong == {1, 5}

Symmetry == Permutations({c1, c2, c3})
=============================================================================
